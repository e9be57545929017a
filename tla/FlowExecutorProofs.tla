------------------------- MODULE FlowExecutorProofs -------------------------
(***************************************************************************)
(* For any definitions that validate_provider_definition accepts, a session *)
(* stays within its definition and implements FlowProtocol; for those of    *)
(* the form that FlowExecutor describes, inputs are there when they are     *)
(* typed, secrets are forgotten and codes are typed once.                   *)
(***************************************************************************)
EXTENDS FlowExecutor, WellFoundedInduction, TLAPS

\* A step that is executed exists.
AtStep ==
    /\ pc \in {"inputs", "act", "success"} => current_step_index \in 1 .. Len(definition)
    /\ action # 0

\* The handler works only on a request that the client waits for or has given
\* up, and the client knows of missing inputs only while it is asked for them.
Waiting ==
    /\ pc # "idle" => chan \in {"busy", "left"}
    /\ chan # "asked" => need = {}

IInv == TypeOK /\ AtStep /\ Waiting

----------------------------------------------------------------------------
\* What a Fill leaves of the collected inputs are still inputs.
LEMMA ForgetType ==
    ASSUME collected_inputs \in [Names -> Values \cup {"none"}], NEW n \in Names
    PROVE  forget_sensitive_input_if_unreferenced(n) \in [Names -> Values \cup {"none"}]
BY DEF forget_sensitive_input_if_unreferenced

\* The step at hand has the type of a step of its definition.
LEMMA StepFacts ==
    ASSUME definition \in Definitions, current_step_index \in 1 .. Len(definition)
    PROVE  /\ definition \in Seq(StepType(Len(definition)))
           /\ Len(definition) \in Nat
           /\ Step \in StepType(Len(definition))
<1>1. definition \in Seq(StepType(Len(definition)))
  BY DefinitionsAssumption DEF validate_provider_definition
<1> DEFINE T == StepType(Len(definition))
<1>2. definition \in Seq(T)
  BY <1>1
<1> HIDE DEF T
<1>3. Len(definition) \in Nat /\ definition[current_step_index] \in T
  BY <1>2
<1> QED
  BY <1>2, <1>3 DEF T, Step

\* The first of several indices of branches exists.
LEMMA FirstIndex ==
    ASSUME NEW S, S \subseteq Nat, S # {}
    PROVE  (CHOOSE i \in S : \A j \in S : i <= j) \in S
<1> DEFINE R == OpToRel(<, Nat)
<1>1. \A i, j \in Nat : i < j => <<i, j>> \in R
  BY ZenonT(20) DEF OpToRel
<1>2. IsWellFoundedOn(R, Nat)
  BY NatLessThanWellFounded
<1> HIDE DEF R
<1>3. PICK x \in S : \A y \in S : ~ (<<y, x>> \in R)
  BY <1>2, WFMin
<1>4. \A y \in S : x <= y
  <2>1. \A y \in S : x \in Nat /\ y \in Nat /\ ~ (y < x)
    BY <1>1, <1>3, Zenon
  <2> QED
    BY <2>1
<1> QED
  BY <1>4

\* A branch, or the next step, is a step of the definition or its end.
LEMMA BranchInRange ==
    ASSUME definition \in Definitions, current_step_index \in 1 .. Len(definition), NEW excluded
    PROVE  evaluate_branch_excluding(excluded) \in 1 .. Len(definition) + 1
<1> DEFINE matching == {i \in DOMAIN Step.branches :
                          /\ BranchMatches(Step.branches[i])
                          /\ Step.branches[i].goto_step \notin excluded}
           first == CHOOSE i \in matching : \A j \in matching : i <= j
           Branch == [condition : {"Always", "InputPresent", "InputEquals"},
                      input : Names, goto_step : 1..Len(definition)]
<1>1. Len(definition) \in Nat /\ Step.branches \in Seq(Branch)
  BY StepFacts DEF StepType
<1> HIDE DEF Branch
<1>2. matching \subseteq Nat
  BY <1>1
<1>3. matching \subseteq DOMAIN Step.branches
  OBVIOUS
<1>4. CASE matching = {}
  BY <1>1, <1>4 DEF evaluate_branch_excluding
<1>5. CASE matching # {}
  <2> HIDE DEF matching
  <2>1. first \in DOMAIN Step.branches
    BY <1>2, <1>3, <1>5, FirstIndex
  <2> HIDE DEF first
  <2>2. Step.branches[first] \in Branch
    BY <1>1, <2>1
  <2>3. Step.branches[first].goto_step \in 1 .. Len(definition)
    BY <2>2 DEF Branch
  <2>4. evaluate_branch_excluding(excluded) = Step.branches[first].goto_step
    BY <1>5 DEF evaluate_branch_excluding, matching, first
  <2> QED
    BY <1>1, <2>3, <2>4
<1> QED
  BY <1>4, <1>5

\* Missing inputs have names.
LEMMA MissingType ==
    ASSUME definition \in Definitions, current_step_index \in 1 .. Len(definition)
    PROVE  Missing \subseteq Names
<1> DEFINE Input == [name : Names, optional : BOOLEAN,
                     input_type : {"Text", "Password", "Otp", "Confirmation"}]
<1>1. Step.required_inputs \in Seq(Input)
  BY StepFacts DEF StepType
<1> HIDE DEF Input
<1>2. \A q \in Elems(Step.required_inputs) : q \in Input
  BY <1>1 DEF Elems
<1>3. \A q \in Input : q.name \in Names
  BY DEF Input
<1> QED
  BY <1>2, <1>3 DEF Missing

----------------------------------------------------------------------------
(* Each action preserves IInv and is a step of FlowProtocol or a stutter.  *)

Good == IInv' /\ [P!ProtocolNext]_(P!protocol)

LEMMA InitIInv == Init => IInv
<1> SUFFICES ASSUME Init PROVE IInv
  OBVIOUS
<1>1. Len(definition) \in Nat /\ Len(definition) > 0
  <2> DEFINE T == StepType(Len(definition))
  <2>1. definition \in Seq(T) /\ Len(definition) > 0
    BY DefinitionsAssumption DEF validate_provider_definition, Init
  <2> HIDE DEF T
  <2> QED
    BY <2>1
<1>2. present \in BOOLEAN /\ tokens \in BOOLEAN
  BY Zenon DEF Init
<1>3. current_step_index \in 1 .. Len(definition) + 1 /\ action \in Nat
  BY <1>1 DEF Init
<1>4. collected_inputs \in [Names -> Values \cup {"none"}]
  BY DEF Init
<1> QED
  BY <1>2, <1>3, <1>4 DEF Init, IInv, TypeOK, AtStep, Waiting

\* Requests of the client.
LEMMA StartGood == ASSUME IInv, handle_start_session PROVE Good
BY DEF Good, IInv, TypeOK, AtStep, Waiting, Values, handle_start_session, StoreGiven,
       P!ProtocolNext, P!protocol, P!Send

LEMMA NextStepGood ==
    ASSUME IInv, NEW given \in SUBSET need, handle_next_step(given)
    PROVE  Good
<1>1. collected_inputs' \in [Names -> Values \cup {"none"}] /\ typed' \subseteq Names
  BY DEF IInv, TypeOK, handle_next_step, continue_session
<1>2. /\ pc' \in {"locate", "fail"} /\ chan = "asked" /\ chan' = "busy" /\ need' = {}
      /\ state' \in {state, "InProgress"}
      /\ UNCHANGED <<definition, present, current_step_index, tokens, action>>
  BY DEF handle_next_step, continue_session
<1> QED
  BY <1>1, <1>2 DEF Good, IInv, TypeOK, AtStep, Waiting, P!ProtocolNext, P!protocol, P!Send

\* The ends of a request.
LEMMA FailGood ==
    ASSUME IInv, pc # "idle", Fail, UNCHANGED <<definition, present>>
    PROVE  Good
BY DEF Good, IInv, TypeOK, AtStep, Waiting, Fail, Respond, runtime, client,
       P!ProtocolNext, P!protocol, P!Finish

LEMMA CompleteGood ==
    ASSUME IInv, pc # "idle", complete_session, UNCHANGED <<definition, present>>
    PROVE  Good
BY DEF Good, IInv, TypeOK, AtStep, Waiting, complete_session, Respond, client,
       P!ProtocolNext, P!protocol, P!Finish

LEMMA GoToStepGood ==
    ASSUME IInv, pc # "idle", NEW i \in 1 .. Len(definition) + 1, GoToStep(i),
           UNCHANGED <<definition, present>>
    PROVE  Good
BY DEF Good, IInv, TypeOK, AtStep, Waiting, GoToStep, client, P!protocol

LEMMA NavigateGood == ASSUME IInv, Navigate PROVE Good
<1>1. CASE pc = "navigate" /\ pc' = "locate" /\ UNCHANGED <<runtime, action, client, typed>>
  BY <1>1 DEF Navigate, Good, IInv, TypeOK, AtStep, Waiting, runtime, client, P!protocol
<1>2. CASE pc \in {"navigate", "fail"} /\ Fail
  BY <1>2, FailGood DEF Navigate
<1> QED
  BY <1>1, <1>2 DEF Navigate

LEMMA LocateGood == ASSUME IInv, Locate PROVE Good
<1>1. CASE current_step_index > Len(definition)
  BY <1>1, CompleteGood DEF Locate
<1>2. CASE ~(current_step_index > Len(definition))
  <2>1. current_step_index \in 1 .. Len(definition)
    <3> DEFINE T == StepType(Len(definition))
    <3>1. definition \in Seq(T)
      BY DefinitionsAssumption DEF validate_provider_definition, IInv, TypeOK
    <3> HIDE DEF T
    <3>2. Len(definition) \in Nat
      BY <3>1
    <3> QED
      BY <1>2, <3>2 DEF IInv, TypeOK
  <2>2. CASE pc' = "inputs" /\ UNCHANGED <<runtime, action, client, typed>>
    BY <2>1, <2>2 DEF Locate, Good, IInv, TypeOK, AtStep, Waiting, runtime, client, P!protocol
  <2>3. CASE GoToStep(evaluate_branch_excluding({current_step_index}))
    BY <2>1, <2>3, BranchInRange, GoToStepGood DEF Locate, IInv, TypeOK
  <2>4. CASE Fail
    BY <2>4, FailGood DEF Locate
  <2> QED
    BY <1>2, <2>2, <2>3, <2>4 DEF Locate
<1> QED
  BY <1>1, <1>2

LEMMA RequestInputsGood == ASSUME IInv, maybe_request_inputs PROVE Good
<1>1. Missing \subseteq Names
  BY MissingType DEF maybe_request_inputs, IInv, TypeOK, AtStep
<1>2. CASE /\ Missing # {} /\ state' = "WaitingForInput"
           /\ Respond("asked", Missing) /\ UNCHANGED action
  BY <1>1, <1>2 DEF maybe_request_inputs, Good, IInv, TypeOK, AtStep, Waiting, Respond, client,
                    P!ProtocolNext, P!protocol, P!Ask
<1>3. CASE pc' = "act" /\ action' = 1 /\ UNCHANGED <<state, client>>
  BY <1>3 DEF maybe_request_inputs, Good, IInv, TypeOK, AtStep, Waiting, client, P!protocol
<1> QED
  BY <1>2, <1>3 DEF maybe_request_inputs

\* An action names an input of the definition, so that what it types and
\* forgets has a name.
LEMMA ActionType ==
    ASSUME definition \in Definitions, current_step_index \in 1 .. Len(definition),
           action \in Nat, action # 0, ~(action > Len(Step.actions)),
           Step.actions[action].kind = "Fill"
    PROVE  Step.actions[action].input \in Names
<1> DEFINE A == [kind : {"Fill"}, input : Names] \cup
                [kind : {"Extract"}, input : Names \cup {"browser", "static"}] \cup
                [kind : {"Click", "Wait", "Navigate", "Log"}]
<1>1. Step.actions \in Seq(A)
  BY StepFacts DEF StepType
<1> HIDE DEF A
<1>2. Step.actions[action] \in A
  BY <1>1
<1> QED
  BY <1>2 DEF A

LEMMA ActionSucceedsGood ==
    ASSUME IInv, pc = "act", NEW a, a.kind = "Fill" => a.input \in Names,
           ActionSucceeds(a), UNCHANGED <<definition, present>>
    PROVE  Good
<1>1. /\ collected_inputs' \in [Names -> Values \cup {"none"}]
      /\ typed' \subseteq Names
      /\ tokens' \in BOOLEAN
  <2>1. CASE Fill(a)
    BY <2>1, ForgetType DEF Fill, IInv, TypeOK
  <2>2. CASE ClickOrNavigate(a) \/ WaitOrLog(a)
    BY <2>2 DEF ClickOrNavigate, WaitOrLog, IInv, TypeOK
  <2>3. CASE Extract(a)
    <3>1. tokens' \in BOOLEAN
      BY <2>3, Zenon DEF Extract
    <3> QED
      BY <2>3, <3>1 DEF Extract, IInv, TypeOK
  <2> QED
    BY <2>1, <2>2, <2>3 DEF ActionSucceeds
<1>2. action' = action + 1 /\ UNCHANGED <<state, current_step_index, pc, client>>
  BY DEF ActionSucceeds
<1> QED
  BY <1>1, <1>2 DEF Good, IInv, TypeOK, AtStep, Waiting, client, P!protocol

LEMMA ActionsGood == ASSUME IInv, execute_step_actions PROVE Good
<1>1. definition \in Definitions /\ current_step_index \in 1 .. Len(definition)
  BY DEF execute_step_actions, IInv, TypeOK, AtStep
<1>2. CASE pc' = "success" /\ UNCHANGED <<runtime, action, client, typed>>
  BY <1>2 DEF execute_step_actions, Good, IInv, TypeOK, AtStep, Waiting, runtime, client, P!protocol
<1>3. CASE ~(action > Len(Step.actions)) /\ ActionSucceeds(Step.actions[action])
  <2>1. Step.actions[action].kind = "Fill" => Step.actions[action].input \in Names
    BY <1>1, <1>3, ActionType DEF IInv, TypeOK, AtStep
  <2> QED
    BY <1>3, <2>1, ActionSucceedsGood DEF execute_step_actions
<1>4. CASE ActionFails(Step.actions[action])
  <2>1. CASE GoToStep(evaluate_branch_excluding({}))
    BY <1>1, <2>1, BranchInRange, GoToStepGood DEF execute_step_actions
  <2>2. CASE Fail
    BY <2>2, FailGood DEF execute_step_actions
  <2> QED
    BY <1>4, <2>1, <2>2 DEF ActionFails
<1> QED
  BY <1>2, <1>3, <1>4 DEF execute_step_actions

LEMMA StepSuccessfulGood == ASSUME IInv, step_successful PROVE Good
<1>1. definition \in Definitions /\ current_step_index \in 1 .. Len(definition)
  BY DEF step_successful, IInv, TypeOK, AtStep
<1>2. CASE complete_session
  BY <1>2, CompleteGood DEF step_successful
<1>3. CASE Fail
  BY <1>3, FailGood DEF step_successful
<1>4. CASE GoToStep(evaluate_branch_excluding({}))
  BY <1>1, <1>4, BranchInRange, GoToStepGood DEF step_successful
<1>5. CASE pc' = "stuck" /\ UNCHANGED <<runtime, action, client, typed>>
  BY <1>5 DEF step_successful, Good, IInv, TypeOK, AtStep, Waiting, runtime, client, P!protocol
<1> QED
  BY <1>2, <1>3, <1>4, <1>5 DEF step_successful

LEMMA EnvironmentGood == ASSUME IInv, RemoveSession \/ ClientLeaves PROVE Good
<1>1. CASE RemoveSession
  <2>1. present' \in BOOLEAN
    BY <1>1, Zenon DEF RemoveSession
  <2> QED
    BY <1>1, <2>1 DEF RemoveSession, Good, IInv, TypeOK, AtStep, Waiting, runtime, client, P!protocol
<1>2. CASE ClientLeaves
  BY <1>2 DEF ClientLeaves, Good, IInv, TypeOK, AtStep, Waiting, runtime,
              P!ProtocolNext, P!protocol, P!Leave
<1> QED
  BY <1>1, <1>2

LEMMA StutterGood == ASSUME IInv, UNCHANGED vars PROVE Good
BY DEF Good, IInv, TypeOK, AtStep, Waiting, vars, runtime, client, P!protocol

LEMMA NextGood == IInv /\ [Next]_vars => Good
<1> SUFFICES ASSUME IInv, [Next]_vars PROVE Good
  OBVIOUS
<1>1. CASE Next
  <2>1. CASE Advance
    BY <2>1, NavigateGood, LocateGood, RequestInputsGood, ActionsGood, StepSuccessfulGood
       DEF Advance
  <2> QED
    BY <1>1, <2>1, StartGood, NextStepGood, EnvironmentGood DEF Next
<1>2. CASE UNCHANGED vars
  BY <1>2, StutterGood
<1> QED
  BY <1>1, <1>2

----------------------------------------------------------------------------
\* The executor stays within the definition it interprets: steps, inputs and
\* responses have the types of provider_definitions.rs and communication.rs
\* whatever branches the definition has.
THEOREM TypeCorrect == Spec => []TypeOK
<1>1. IInv /\ [Next]_vars => IInv'
  BY NextGood DEF Good
<1>2. IInv => TypeOK
  BY DEF IInv
<1> QED
  BY InitIInv, <1>1, <1>2, PTL DEF Spec

\* StartSession and NextStep, with the executor behind them, implement
\* FlowProtocol: one answer per request, a request for inputs always names
\* some, and an answer that comes after the client's time-out is not taken for
\* the answer to something else.
THEOREM ImplementsProtocol == Spec => FollowsProtocol
<1>1. Init => P!ProtocolInit
  BY DEF Init, P!ProtocolInit
<1>2. IInv /\ [Next]_vars => IInv' /\ [P!ProtocolNext]_(P!protocol)
  BY NextGood DEF Good
<1> QED
  BY InitIInv, <1>1, <1>2, PTL DEF Spec, FollowsProtocol, P!Protocol

----------------------------------------------------------------------------
(* Inputs and secrets.  The steps of a session are sorted by what they do  *)
(* to the inputs and to the place in the definition.  Most leaves are      *)
(* first-order; those that build records or count say so (SMT).            *)
USE ZenonT(30)

\* The handler, or the next request, goes on at the current step.
Resumable == pc \in {"locate", "inputs"} \/ (pc = "idle" /\ chan = "asked")

\* The current step has yet to type n.
ToFill(n) == \E a \in DOMAIN Step.actions : a >= action /\ Fills(Step, a, n)

\* The inputs are left alone, and the session is not further than before.
Stays ==
    /\ UNCHANGED <<current_step_index, action, collected_inputs, typed>>
    /\ Resumable' => Resumable
    /\ pc' = "act" => pc = "act"
    /\ pc' = "success" => pc = "success"

\* handle_start_session: nothing was typed so far.
Starts ==
    /\ typed = {} /\ typed' = {}
    /\ ~Resumable' /\ pc' # "act" /\ pc' # "success"

\* initialize_session_navigation: the first step comes next.
Enters == current_step_index' = 1 /\ pc' = "locate" /\ UNCHANGED <<collected_inputs, typed>>

\* continue_session with inputs for the names in given.
Receives(given) ==
    /\ Resumable /\ pc' = "locate" /\ UNCHANGED current_step_index
    /\ typed' = typed \ given
    /\ \A n \in Names : IF n \in given THEN collected_inputs'[n] # "none"
                                      ELSE collected_inputs'[n] = collected_inputs[n]

\* maybe_request_inputs finds nothing missing.
Begins ==
    /\ pc = "inputs" /\ pc' = "act" /\ action' = 1 /\ Missing = {}
    /\ UNCHANGED <<current_step_index, collected_inputs, typed>>

\* execute_action.
Acts ==
    /\ pc = "act" /\ pc' = "act" /\ action' = action + 1 /\ UNCHANGED current_step_index
    /\ action \in DOMAIN Step.actions
    /\ \/ /\ \A n \in Names : ~Fills(Step, action, n)
          /\ UNCHANGED <<collected_inputs, typed>>
       \/ \E n \in Names :
             /\ Fills(Step, action, n)
             /\ typed' = typed \cup {n}
             /\ collected_inputs' = forget_sensitive_input_if_unreferenced(n)

\* execute_step_actions is through.
Ends ==
    /\ pc = "act" /\ pc' = "success" /\ action > Len(Step.actions)
    /\ UNCHANGED <<current_step_index, action, collected_inputs, typed>>

\* The loop goes on with the next step or the target of a branch.
Jumps ==
    /\ pc \in {"locate", "act", "success"} /\ pc' = "locate"
    /\ pc = "locate" => MayWait
    /\ pc = "act" => Step.optional
    /\ \/ current_step_index' = current_step_index + 1
       \/ \E b \in Elems(Step.branches) : current_step_index' = b.goto_step
    /\ UNCHANGED <<collected_inputs, typed>>

\* Every step is one of these.
Moves ==
    /\ UNCHANGED definition
    /\ \/ Stays \/ Starts \/ Enters \/ Begins \/ Acts \/ Ends
       \/ Jumps /\ current_step_index \in 1 .. Len(definition)
       \/ \E given \in SUBSET Names : Receives(given)

\* A session that has not begun has typed nothing and is at its first step.
Fresh ==
    /\ chan = "new" => typed = {}
    /\ chan = "new" \/ pc = "navigate" => current_step_index = 1

\* A secret that nothing refers to after it was typed is forgotten.
Forgotten ==
    \A n \in typed : Sensitive(n) /\ ~KeptAfterFill(definition, n) => collected_inputs[n] = "none"

\* A step that asks for an input has it until it has typed it.
OwnInputs ==
    pc = "act" => \A n \in Names : Requires(Step, n) /\ ToFill(n) => collected_inputs[n] # "none"

\* The session has passed the inputs of step r, and has yet to type n in step k.
Between(r, k, n) ==
    \/ current_step_index = r /\ pc \in {"act", "success"}
    \/ current_step_index \in r + 1 .. k - 1 /\ (Resumable \/ pc \in {"act", "success"})
    \/ current_step_index = k /\ (Resumable \/ (pc = "act" /\ ToFill(n)))

\* An input that step r asks for is there until step k has typed it.
CarriedInputs ==
    \A r, k \in DOMAIN definition : \A n \in Names :
        /\ Carries(definition, r, k, n)
        /\ \E a \in DOMAIN definition[k].actions : Fills(definition[k], a, n)
        /\ Between(r, k, n)
        => collected_inputs[n] # "none"

\* While a secret is kept after it was typed, its last use is ahead.
LastUseAhead ==
    \A l \in DOMAIN definition : \A n \in typed :
        Sensitive(n) /\ LastUse(definition, l, n) /\ collected_inputs[n] # "none" =>
            /\ current_step_index <= l
            /\ current_step_index = l => pc # "success" /\ (pc = "act" => ToFill(n))

InputsInv == IInv /\ Fresh /\ Forgotten /\ OwnInputs /\ CarriedInputs /\ LastUseAhead

----------------------------------------------------------------------------
\* A branch that is taken is one of the step's, and otherwise the next step is.
LEMMA BranchTarget ==
    ASSUME definition \in Definitions, current_step_index \in 1 .. Len(definition), NEW excluded
    PROVE  \/ evaluate_branch_excluding(excluded) = current_step_index + 1
           \/ \E b \in Elems(Step.branches) : evaluate_branch_excluding(excluded) = b.goto_step
<1> DEFINE matching == {i \in DOMAIN Step.branches :
                          /\ BranchMatches(Step.branches[i])
                          /\ Step.branches[i].goto_step \notin excluded}
           first == CHOOSE i \in matching : \A j \in matching : i <= j
           Branch == [condition : {"Always", "InputPresent", "InputEquals"},
                      input : Names, goto_step : 1..Len(definition)]
<1>1. Step.branches \in Seq(Branch)
  BY StepFacts, SMT DEF StepType
<1> HIDE DEF Branch
<1>2. matching \subseteq Nat
  BY <1>1, SMT
<1>3. matching \subseteq DOMAIN Step.branches
  OBVIOUS
<1>4. CASE matching = {}
  BY <1>4 DEF evaluate_branch_excluding
<1>5. CASE matching # {}
  <2> HIDE DEF matching
  <2>1. first \in DOMAIN Step.branches
    BY <1>2, <1>3, <1>5, FirstIndex
  <2> HIDE DEF first
  <2>2. Step.branches[first] \in Elems(Step.branches)
    BY <2>1 DEF Elems
  <2>3. evaluate_branch_excluding(excluded) = Step.branches[first].goto_step
    BY <1>5 DEF evaluate_branch_excluding, matching, first
  <2> QED
    BY <2>2, <2>3
<1> QED
  BY <1>4, <1>5

\* The first request of a session.
LEMMA StartMoves == ASSUME IInv, Fresh, handle_start_session PROVE Moves /\ Fresh'
BY DEF handle_start_session, Moves, Starts, Fresh, Resumable

\* NextStep goes on where maybe_request_inputs stopped, or fails.
LEMMA NextStepMoves ==
    ASSUME IInv, NEW given \in SUBSET need, handle_next_step(given)
    PROVE  Moves /\ Fresh'
<1>1. need \subseteq Names /\ pc = "idle"
  BY SMT DEF IInv, TypeOK, Waiting, handle_next_step
<1>2. Fresh'
  BY DEF Fresh, handle_next_step, continue_session
<1>3. CASE present
  <2>1. PICK v \in [given -> Values] :
           collected_inputs' = [n \in Names |-> IF n \in given THEN v[n] ELSE collected_inputs[n]]
    BY <1>3 DEF handle_next_step, continue_session
  <2>2. \A n \in given : v[n] # "none"
    BY SMT DEF Values
  <2>3. \A n \in Names : IF n \in given THEN collected_inputs'[n] # "none"
                                      ELSE collected_inputs'[n] = collected_inputs[n]
    BY <2>1, <2>2
  <2>4. Receives(given)
    BY <1>1, <1>3, <2>3 DEF Receives, Resumable, handle_next_step, continue_session
  <2>5. given \in SUBSET Names
    BY <1>1
  <2> QED
    BY <1>2, <2>4, <2>5 DEF Moves, handle_next_step
<1>4. CASE ~present
  BY <1>1, <1>2, <1>4 DEF handle_next_step, Moves, Stays, Resumable
<1> QED
  BY <1>3, <1>4

\* An answer other than a request for inputs ends the work on the session.
LEMMA FailMoves ==
    ASSUME IInv, pc # "idle", Fail, UNCHANGED <<definition, present>>
    PROVE  Moves /\ Fresh'
<1>1. pc' = "idle" /\ chan' \in {"error", "left"}
  BY DEF Fail, Respond, client
<1> QED
  BY <1>1 DEF Fail, runtime, Moves, Stays, Resumable, Fresh

\* The end of the definition, or a page that shows success.
LEMMA CompleteMoves ==
    ASSUME IInv, pc # "idle", complete_session, UNCHANGED <<definition, present>>
    PROVE  Moves /\ Fresh'
<1>1. pc' = "idle" /\ chan' \in {"complete", "left"}
  BY DEF complete_session, Respond, client
<1> QED
  BY <1>1 DEF complete_session, Moves, Stays, Resumable, Fresh

\* The loop goes on after a skipped, a failed optional or a finished step.
LEMMA GoToStepMoves ==
    ASSUME IInv, NEW excluded, GoToStep(evaluate_branch_excluding(excluded)),
           pc \in {"locate", "act", "success"}, pc = "locate" => MayWait,
           pc = "act" => Step.optional, current_step_index \in 1 .. Len(definition),
           UNCHANGED <<definition, present>>
    PROVE  Moves /\ Fresh'
<1>1. \/ current_step_index' = current_step_index + 1
      \/ \E b \in Elems(Step.branches) : current_step_index' = b.goto_step
  BY BranchTarget DEF GoToStep, IInv, TypeOK
<1>2. chan' # "new"
  BY SMT DEF IInv, Waiting, GoToStep, client
<1> QED
  BY <1>1, <1>2 DEF GoToStep, Moves, Jumps, Fresh

\* The first step comes after the container has opened the page.
LEMMA NavigateMoves == ASSUME IInv, Fresh, Navigate PROVE Moves /\ Fresh'
<1>1. CASE pc = "navigate" /\ pc' = "locate" /\ UNCHANGED <<runtime, action, client, typed>>
  BY <1>1, SMT DEF Navigate, IInv, Waiting, Moves, Enters, Fresh, runtime, client
<1>2. CASE pc \in {"navigate", "fail"} /\ Fail
  BY <1>2, FailMoves DEF Navigate
<1> QED
  BY <1>1, <1>2 DEF Navigate

\* A step that is not at the end of the definition exists.
LEMMA NotAtEnd ==
    ASSUME IInv, ~(current_step_index > Len(definition))
    PROVE  current_step_index \in 1 .. Len(definition)
<1> DEFINE T == StepType(Len(definition))
<1>1. definition \in Seq(T)
  BY DefinitionsAssumption DEF validate_provider_definition, IInv, TypeOK
<1> HIDE DEF T
<1> QED
  BY <1>1, SMT DEF IInv, TypeOK

\* A step is entered, skipped when its page is not there, or the flow is over.
LEMMA LocateMoves == ASSUME IInv, Locate PROVE Moves /\ Fresh'
<1>1. CASE current_step_index > Len(definition)
  BY <1>1, CompleteMoves DEF Locate
<1>2. CASE ~(current_step_index > Len(definition))
  <2>1. current_step_index \in 1 .. Len(definition)
    BY <1>2, NotAtEnd
  <2>2. CASE pc' = "inputs" /\ UNCHANGED <<runtime, action, client, typed>>
    BY <2>2, SMT DEF Locate, IInv, Waiting, Moves, Stays, Resumable, Fresh, runtime, client
  <2>3. CASE MayWait /\ GoToStep(evaluate_branch_excluding({current_step_index}))
    BY <2>1, <2>3, GoToStepMoves DEF Locate
  <2>4. CASE Fail
    BY <2>4, FailMoves DEF Locate
  <2> QED
    BY <1>2, <2>2, <2>3, <2>4 DEF Locate
<1> QED
  BY <1>1, <1>2

\* The step asks for what is missing, or has all it requires.
LEMMA RequestInputsMoves == ASSUME IInv, maybe_request_inputs PROVE Moves /\ Fresh'
<1>1. CASE Respond("asked", Missing) /\ UNCHANGED action
  <2>1. pc' = "idle" /\ chan' \in {"asked", "left"}
    BY <1>1 DEF Respond, client
  <2> QED
    BY <1>1, <2>1 DEF maybe_request_inputs, Moves, Stays, Resumable, Fresh
<1>2. CASE Missing = {} /\ pc' = "act" /\ action' = 1 /\ UNCHANGED client
  BY <1>2, SMT DEF maybe_request_inputs, IInv, Waiting, Moves, Begins, Fresh, client
<1> QED
  BY <1>1, <1>2 DEF maybe_request_inputs

\* An action changes the inputs only if it types one; a failed one ends the
\* request or the step.
LEMMA ActionsMoves == ASSUME IInv, execute_step_actions PROVE Moves /\ Fresh'
<1> DEFINE a == Step.actions[action]
<1>1. definition \in Definitions /\ current_step_index \in 1 .. Len(definition)
  BY DEF execute_step_actions, IInv, TypeOK, AtStep
<1>2. chan \in {"busy", "left"}
  BY DEF execute_step_actions, IInv, Waiting
<1>3. CASE action > Len(Step.actions)
  BY <1>2, <1>3 DEF execute_step_actions, Moves, Ends, Fresh, runtime, client
<1>4. CASE ~(action > Len(Step.actions)) /\ ActionSucceeds(a)
  <2>1. action \in DOMAIN Step.actions
    <3>1. PICK A : Step.actions \in Seq(A)
      BY <1>1, StepFacts, SMT DEF StepType
    <3> QED
      BY <1>4, <3>1, SMT DEF IInv, TypeOK, AtStep
  <2>2. a.kind = "Fill" => a.input \in Names
    BY <1>1, <1>4, ActionType DEF IInv, TypeOK, AtStep
  <2>3. /\ pc = "act" /\ pc' = "act" /\ action' = action + 1 /\ chan' = chan
        /\ UNCHANGED <<definition, current_step_index>>
    BY <1>4 DEF execute_step_actions, ActionSucceeds, client
  <2>4. CASE Fill(a)
    <3>1. Fills(Step, action, a.input)
      BY <2>1, <2>4 DEF Fills, Fill
    <3> QED
      BY <1>2, <2>1, <2>2, <2>3, <2>4, <3>1 DEF Fill, Moves, Acts, Fresh
  <2>5. CASE a.kind # "Fill" /\ UNCHANGED <<typed, collected_inputs>>
    BY <1>2, <2>1, <2>3, <2>5 DEF Fills, Moves, Acts, Fresh
  <2> QED
    BY <1>4, <2>4, <2>5 DEF ActionSucceeds, ClickOrNavigate, WaitOrLog, Extract
<1>5. CASE ActionFails(a)
  <2>1. CASE Step.optional /\ GoToStep(evaluate_branch_excluding({}))
    BY <1>1, <2>1, GoToStepMoves DEF execute_step_actions
  <2>2. CASE Fail
    BY <2>2, FailMoves DEF execute_step_actions
  <2> QED
    BY <1>5, <2>1, <2>2 DEF ActionFails
<1> QED
  BY <1>3, <1>4, <1>5 DEF execute_step_actions

\* A finished step completes the session or leads to another one.
LEMMA StepSuccessfulMoves == ASSUME IInv, step_successful PROVE Moves /\ Fresh'
<1>1. definition \in Definitions /\ current_step_index \in 1 .. Len(definition)
  BY DEF step_successful, IInv, TypeOK, AtStep
<1>2. CASE complete_session
  BY <1>2, CompleteMoves DEF step_successful
<1>3. CASE Fail
  BY <1>3, FailMoves DEF step_successful
<1>4. CASE GoToStep(evaluate_branch_excluding({}))
  BY <1>1, <1>4, GoToStepMoves DEF step_successful
<1>5. CASE pc' = "stuck" /\ UNCHANGED <<runtime, action, client, typed>>
  BY <1>5, SMT DEF step_successful, IInv, Waiting, Moves, Stays, Resumable, Fresh, runtime, client
<1> QED
  BY <1>2, <1>3, <1>4, <1>5 DEF step_successful

\* A session that is removed, or left by the client, is not worked on further
\* than before.
LEMMA EnvironmentMoves ==
    ASSUME IInv, Fresh, RemoveSession \/ ClientLeaves \/ UNCHANGED vars
    PROVE  Moves /\ Fresh'
<1>1. /\ UNCHANGED <<definition, pc, action, current_step_index, collected_inputs, typed>>
      /\ chan' \in {chan, "left"}
  BY DEF RemoveSession, ClientLeaves, vars, runtime, client
<1> QED
  BY <1>1 DEF Moves, Stays, Resumable, Fresh

\* All steps of the executor and its environment are moves.
LEMMA NextMoves == ASSUME IInv, Fresh, [Next]_vars PROVE Moves /\ Fresh'
<1>1. CASE Advance
  BY <1>1, NavigateMoves, LocateMoves, RequestInputsMoves, ActionsMoves, StepSuccessfulMoves
     DEF Advance
<1> QED
  BY <1>1, StartMoves, NextStepMoves, EnvironmentMoves DEF Next

----------------------------------------------------------------------------
(* Facts about definitions and about forgetting.                           *)

\* Definitions and their lists of actions are numbered from 1.
LEMMA Numbered ==
    ASSUME definition \in Definitions
    PROVE  /\ Len(definition) \in Nat
           /\ DOMAIN definition = 1 .. Len(definition)
           /\ \A k \in DOMAIN definition :
                 /\ Len(definition[k].actions) \in Nat
                 /\ DOMAIN definition[k].actions = 1 .. Len(definition[k].actions)
<1> DEFINE T == StepType(Len(definition))
           A == [kind : {"Fill"}, input : Names] \cup
                [kind : {"Extract"}, input : Names \cup {"browser", "static"}] \cup
                [kind : {"Click", "Wait", "Navigate", "Log"}]
<1>1. definition \in Seq(T)
  BY DefinitionsAssumption DEF validate_provider_definition
<1>2. \A s \in T : s.actions \in Seq(A)
  BY SMT DEF StepType
<1> HIDE DEF T, A
<1>3. /\ Len(definition) \in Nat /\ DOMAIN definition = 1 .. Len(definition)
      /\ \A k \in DOMAIN definition : definition[k] \in T
  BY <1>1, SMT
<1>4. \A s \in Seq(A) : Len(s) \in Nat /\ DOMAIN s = 1 .. Len(s)
  BY SMT
<1> QED
  BY <1>2, <1>3, <1>4

\* What is left to type after an action was left to type before it, and keeps
\* the input (step_references_input_after_action).
LEMMA ToFillLater ==
    ASSUME IInv, Acts, UNCHANGED definition, NEW n
    PROVE  /\ ToFill(n)' => ToFill(n) /\ RefersLater(definition, current_step_index, action, n)
           /\ ToFill(n) /\ ~Fills(Step, action, n) => ToFill(n)'
<1>1. current_step_index \in DOMAIN definition
  BY Numbered DEF IInv, TypeOK, AtStep, Acts
<1>2. Step' = Step /\ action' = action + 1
  BY DEF Acts, Step
<1>3. /\ action \in Int
      /\ \A a \in DOMAIN Step.actions : a \in Int
  BY <1>1, Numbered, SMT DEF IInv, TypeOK, Step
<1>4. \A a \in DOMAIN Step.actions :
         /\ a >= action + 1 => a >= action /\ a > action
         /\ a >= action /\ a # action => a >= action + 1
  BY <1>3, SMT
<1>5. \A a \in DOMAIN Step.actions : Fills(Step, a, n) => action_references_input(Step.actions[a], n)
  BY DEF Fills, action_references_input
<1>6. ToFill(n)' = \E a \in DOMAIN Step.actions : a >= action + 1 /\ Fills(Step, a, n)
  BY <1>2 DEF ToFill, Fills
<1>7. ASSUME ToFill(n)'
      PROVE  ToFill(n) /\ RefersLater(definition, current_step_index, action, n)
  <2>1. PICK a \in DOMAIN Step.actions : a >= action + 1 /\ Fills(Step, a, n)
    BY <1>6, <1>7
  <2>2. a >= action /\ a > action /\ action_references_input(Step.actions[a], n)
    BY <1>4, <1>5, <2>1
  <2>3. step_references_input_after_action(Step, action, n)
    BY <2>2 DEF step_references_input_after_action
  <2> QED
    BY <2>1, <2>2, <2>3 DEF ToFill, RefersLater, Step
<1>8. ToFill(n) /\ ~Fills(Step, action, n) => ToFill(n)'
  BY <1>4, <1>6 DEF ToFill
<1> QED
  BY <1>7, <1>8

\* forget_sensitive_input_if_unreferenced touches only the input that was typed,
\* and that one is dropped if it is a secret nothing refers to later.
LEMMA ForgetFacts ==
    ASSUME IInv, NEW n \in Names,
           collected_inputs' = forget_sensitive_input_if_unreferenced(n)
    PROVE  /\ \A m \in Names : m # n => collected_inputs'[m] = collected_inputs[m]
           /\ RefersLater(definition, current_step_index, action, n)
                => collected_inputs'[n] = collected_inputs[n]
           /\ Sensitive(n) /\ ~RefersLater(definition, current_step_index, action, n)
                => collected_inputs'[n] = "none"
           /\ collected_inputs'[n] \in {collected_inputs[n], "none"}
<1>1. collected_inputs \in [Names -> Values \cup {"none"}]
  BY DEF IInv, TypeOK
<1> DEFINE forgets == Sensitive(n) /\ ~RefersLater(definition, current_step_index, action, n)
<1>2. collected_inputs' = IF forgets THEN [collected_inputs EXCEPT ![n] = "none"] ELSE collected_inputs
  BY DEF forget_sensitive_input_if_unreferenced, RefersLater, Step
<1> HIDE DEF forgets
<1>3. /\ \A m \in Names : m # n => collected_inputs'[m] = collected_inputs[m]
      /\ forgets => collected_inputs'[n] = "none"
      /\ ~forgets => collected_inputs'[n] = collected_inputs[n]
  BY <1>1, <1>2
<1> QED
  BY <1>3 DEF forgets

\* An input is gone after an action only if the action typed it, it is a secret
\* and nothing refers to it later.
LEMMA KeptByAction ==
    ASSUME IInv, Acts, NEW n \in Names, collected_inputs[n] # "none",
           Fills(Step, action, n) => RefersLater(definition, current_step_index, action, n)
    PROVE  collected_inputs'[n] # "none"
<1>1. CASE UNCHANGED collected_inputs
  BY <1>1
<1>2. CASE \E m \in Names : /\ Fills(Step, action, m)
                            /\ collected_inputs' = forget_sensitive_input_if_unreferenced(m)
  BY <1>2, ForgetFacts
<1> QED
  BY <1>1, <1>2 DEF Acts

\* Nothing is missing: a required input is there.
LEMMA RequiredThere ==
    ASSUME Missing = {}, NEW n, Requires(Step, n)
    PROVE  collected_inputs[n] # "none"
BY DEF Missing, Requires

----------------------------------------------------------------------------
(* Each of the five facts is kept by every step.                           *)

\* A secret that is typed for the last time is dropped by the same Fill.
LEMMA ForgottenStep == ASSUME IInv, IInv', Moves, Forgotten PROVE Forgotten'
<1> SUFFICES ASSUME NEW n \in typed', Sensitive(n), ~KeptAfterFill(definition, n)
             PROVE  collected_inputs'[n] = "none"
  BY DEF Forgotten, Moves, Sensitive
<1>1. n \in typed => collected_inputs[n] = "none"
  BY DEF Forgotten
<1>2. n \in Names
  BY DEF IInv, TypeOK
<1>3. CASE UNCHANGED <<collected_inputs, typed>>
  BY <1>1, <1>3
<1>4. CASE Starts
  BY <1>4 DEF Starts
<1>5. CASE \E given \in SUBSET Names : Receives(given)
  BY <1>1, <1>2, <1>5 DEF Receives
<1>6. CASE Acts
  <2> SUFFICES ASSUME NEW m \in Names, Fills(Step, action, m), typed' = typed \cup {m},
                      collected_inputs' = forget_sensitive_input_if_unreferenced(m)
               PROVE  collected_inputs'[n] = "none"
    BY <1>3, <1>6 DEF Acts
  <2>2. CASE n = m
    <3>1. current_step_index \in DOMAIN definition /\ action \in DOMAIN Step.actions
      BY <1>6, Numbered DEF IInv, TypeOK, AtStep, Acts
    <3>2. ~RefersLater(definition, current_step_index, action, n)
      BY <2>2, <3>1 DEF KeptAfterFill, Step
    <3> QED
      BY <2>2, <3>2, ForgetFacts
  <2>3. CASE n # m
    BY <1>1, <1>2, <2>3, ForgetFacts
  <2> QED
    BY <2>2, <2>3
<1> QED
  BY <1>3, <1>4, <1>5, <1>6 DEF Moves, Stays, Enters, Begins, Ends, Jumps

\* What maybe_request_inputs found is still there when the step types it.
LEMMA OwnInputsStep == ASSUME IInv, IInv', Moves, OwnInputs PROVE OwnInputs'
<1> SUFFICES ASSUME pc' = "act", NEW n \in Names, Requires(Step', n), ToFill(n)'
             PROVE  collected_inputs'[n] # "none"
  BY DEF OwnInputs, Requires
<1>1. CASE Stays
  <2>1. Step' = Step /\ ToFill(n) /\ pc = "act"
    BY <1>1 DEF Moves, Stays, Step, ToFill, Fills
  <2> QED
    BY <1>1, <2>1 DEF OwnInputs, Stays
<1>2. CASE Begins
  BY <1>2, RequiredThere DEF Moves, Begins, Step
<1>3. CASE Acts
  <2>1. Step' = Step /\ pc = "act"
    BY <1>3 DEF Moves, Acts, Step
  <2>2. ToFill(n) /\ RefersLater(definition, current_step_index, action, n)
    BY <1>3, ToFillLater DEF Moves
  <2> QED
    BY <1>3, <2>1, <2>2, KeptByAction DEF OwnInputs
<1> QED
  BY <1>1, <1>2, <1>3 DEF Moves, Starts, Enters, Ends, Jumps, Receives

\* The flow does not get past the last use of a secret without forgetting it.
LEMMA LastUseStep == ASSUME IInv, IInv', Moves, LastUseAhead PROVE LastUseAhead'
<1> SUFFICES ASSUME NEW l \in DOMAIN definition, NEW n \in typed', Sensitive(n),
                    LastUse(definition, l, n), collected_inputs'[n] # "none"
             PROVE  /\ current_step_index' <= l
                    /\ current_step_index' = l => pc' # "success" /\ (pc' = "act" => ToFill(n)')
  BY DEF LastUseAhead, Moves, Sensitive
<1>1. n \in typed /\ collected_inputs[n] # "none" =>
         /\ current_step_index <= l
         /\ current_step_index = l => pc # "success" /\ (pc = "act" => ToFill(n))
  BY DEF LastUseAhead
<1>2. n \in Names /\ current_step_index \in Int /\ l \in Int
  BY Numbered, SMT DEF IInv, TypeOK
<1>3. PICK z \in DOMAIN definition[l].actions :
         Fills(definition[l], z, n) /\ ~RefersLater(definition, l, z, n)
  BY DEF LastUse
<1>4. z \in Int /\ z >= 1
  BY Numbered, SMT DEF IInv, TypeOK
<1>5. CASE Stays
  <2>1. Step' = Step /\ ToFill(n)' = ToFill(n)
    BY <1>5 DEF Moves, Stays, Step, ToFill, Fills
  <2> QED
    BY <1>1, <1>5, <2>1 DEF Stays
<1>6. CASE Starts
  BY <1>6 DEF Starts
<1>7. CASE Enters
  BY <1>7, Numbered, SMT DEF Enters, IInv, TypeOK
<1>8. CASE \E given \in SUBSET Names : Receives(given)
  BY <1>1, <1>2, <1>8 DEF Receives
<1>9. CASE Begins
  <2>1. current_step_index = l => ToFill(n)'
    <3>1. action' = 1 /\ Step' = Step
      BY <1>9 DEF Begins, Moves, Step
    <3> QED
      BY <1>3, <1>4, <3>1 DEF ToFill, Step
  <2> QED
    BY <1>1, <1>9, <2>1 DEF Begins
<1>10. CASE Acts
  <2>1. /\ action \in DOMAIN Step.actions /\ pc = "act" /\ pc' = "act"
        /\ current_step_index' = current_step_index /\ Step' = Step /\ action' = action + 1
        /\ current_step_index \in 1 .. Len(definition) /\ action \in Int
        /\ Len(definition) \in Int
    BY <1>10, Numbered, SMT DEF IInv, TypeOK, AtStep, Acts, Moves, Step
  <2>2. CASE Fills(Step, action, n)
    <3>1. RefersLater(definition, current_step_index, action, n)
      BY <1>2, <1>10, <2>2, ForgetFacts DEF Acts, Fills
    <3>2. action_references_input(Step.actions[action], n) /\ step_references_input(Step, n)
      BY <2>1, <2>2 DEF Fills, action_references_input, step_references_input, Elems
    <3>3. ~(current_step_index \in l + 1 .. Len(definition))
      BY <1>3, <3>2 DEF RefersLater, Step
    <3>4. current_step_index <= l
      BY <1>2, <2>1, <3>3, SMT
    <3>5. ASSUME current_step_index = l PROVE ToFill(n)'
      <4>1. action # z
        BY <1>3, <3>1, <3>5
      <4>2. ~(action > z)
        BY <1>3, <2>1, <3>2, <3>5 DEF RefersLater, step_references_input_after_action, Step
      <4>3. z >= action + 1
        BY <1>4, <2>1, <4>1, <4>2, SMT
      <4>4. z \in DOMAIN Step.actions /\ Fills(Step, z, n)
        BY <1>3, <3>5 DEF Step
      <4> QED
        BY <2>1, <4>3, <4>4 DEF ToFill
    <3> QED
      BY <2>1, <3>4, <3>5
  <2>3. CASE ~Fills(Step, action, n)
    <3>1. n \in typed /\ collected_inputs'[n] = collected_inputs[n]
      BY <1>2, <1>10, <2>3, ForgetFacts DEF Acts
    <3> QED
      BY <1>1, <1>10, <2>1, <2>3, <3>1, ToFillLater DEF Moves
  <2> QED
    BY <2>2, <2>3
<1>11. CASE Ends
  <2>1. current_step_index' = current_step_index /\ pc = "act"
    BY <1>11 DEF Ends
  <2>2. ~ToFill(n)
    BY <1>11, Numbered, SMT DEF Ends, ToFill, Step, IInv, TypeOK, AtStep
  <2> QED
    BY <1>1, <1>11, <2>1, <2>2 DEF Ends
<1>12. CASE Jumps /\ current_step_index \in 1 .. Len(definition)
  <2>1. current_step_index <= l /\ pc' = "locate"
    BY <1>1, <1>12 DEF Jumps
  <2>2. current_step_index # l
    BY <1>1, <1>12, Zenon DEF Jumps, LastUse, MayWait, Step
  <2>3. current_step_index \in 1 .. l - 1
    BY <1>2, <1>12, <2>1, <2>2, SMT
  <2>4. \A b \in Elems(Step.branches) : b.goto_step <= l
    BY <2>3 DEF LastUse, Step
  <2>5. current_step_index + 1 <= l
    BY <1>2, <2>3, SMT
  <2> QED
    BY <1>12, <2>1, <2>4, <2>5 DEF Jumps
<1> QED
  BY <1>5, <1>6, <1>7, <1>8, <1>9, <1>10, <1>11, <1>12 DEF Moves

\* An input that an earlier step asked for survives until it is typed.
LEMMA CarriedInputsStep == ASSUME IInv, IInv', Moves, CarriedInputs PROVE CarriedInputs'
<1> DEFINE c == current_step_index
<1> SUFFICES ASSUME NEW r \in DOMAIN definition, NEW k \in DOMAIN definition, NEW n \in Names,
                    Carries(definition, r, k, n),
                    \E a \in DOMAIN definition[k].actions : Fills(definition[k], a, n),
                    Between(r, k, n)'
             PROVE  collected_inputs'[n] # "none"
  BY DEF CarriedInputs, Moves
<1>1. Between(r, k, n) => collected_inputs[n] # "none"
  BY DEF CarriedInputs
<1>2. /\ c \in Int /\ r \in Int /\ k \in Int /\ c >= 1 /\ r >= 1 /\ r < k
      /\ k \in 1 .. Len(definition) /\ Len(definition) \in Int
  BY Numbered, SMT DEF IInv, TypeOK, Carries
<1>3. CASE Stays
  <2>1. Step' = Step /\ ToFill(n)' = ToFill(n)
    BY <1>3 DEF Moves, Stays, Step, ToFill, Fills
  <2>2. Between(r, k, n)
    BY <1>3, <2>1 DEF Between, Stays
  <2> QED
    BY <1>1, <1>3, <2>2 DEF Stays
<1>4. CASE Starts
  BY <1>4 DEF Starts, Between
<1>5. CASE Enters
  <2>1. 1 # r + 1 /\ 1 # k /\ ~(1 \in r + 1 .. k - 1)
    BY <1>2, SMT
  <2> QED
    BY <1>5, <2>1 DEF Enters, Between
<1>6. CASE \E given \in SUBSET Names : Receives(given)
  <2>1. Between(r, k, n)
    BY <1>6 DEF Receives, Between
  <2> QED
    BY <1>1, <1>6, <2>1 DEF Receives
<1>7. CASE Begins
  <2>1. CASE c = r
    BY <1>7, <2>1, RequiredThere DEF Begins, Carries, Step
  <2>2. CASE c # r
    <3>1. Between(r, k, n)
      BY <1>7, <2>2 DEF Begins, Between, Resumable
    <3> QED
      BY <1>1, <1>7, <3>1 DEF Begins
  <2> QED
    BY <2>1, <2>2
<1>8. CASE Acts
  <2>1. pc = "act" /\ pc' = "act" /\ c' = c
    BY <1>8 DEF Acts
  <2>2. CASE c = k
    <3>1. ToFill(n)'
      BY <1>2, <2>1, <2>2, SMT DEF Between, Resumable
    <3>2. ToFill(n) /\ RefersLater(definition, c, action, n)
      BY <1>8, <3>1, ToFillLater DEF Moves
    <3>3. Between(r, k, n)
      BY <2>1, <2>2, <3>2 DEF Between
    <3> QED
      BY <1>1, <1>8, <3>2, <3>3, KeptByAction
  <2>3. CASE c # k
    <3>1. Between(r, k, n)
      BY <2>1, <2>3 DEF Between
    <3>2. c < k
      BY <1>2, <2>3, <3>1, SMT DEF Between
    <3>3. k \in c + 1 .. Len(definition)
      BY <1>2, <3>2, SMT
    <3>4. step_references_input(definition[k], n)
      BY DEF step_references_input, action_references_input, Fills, Elems
    <3>5. RefersLater(definition, c, action, n)
      BY <3>3, <3>4 DEF RefersLater
    <3> QED
      BY <1>1, <1>8, <3>1, <3>5, KeptByAction
  <2> QED
    BY <2>2, <2>3
<1>9. CASE Ends
  <2>1. Between(r, k, n)
    BY <1>9 DEF Ends, Between, Resumable
  <2> QED
    BY <1>1, <1>9, <2>1 DEF Ends
<1>10. CASE Jumps /\ c \in 1 .. Len(definition)
  <2>1. c' \in r + 1 .. k
    <3>1. c' = k \/ c' \in r + 1 .. k - 1
      BY <1>10 DEF Jumps, Between
    <3> QED
      BY <1>2, <3>1, SMT
  <2>2. c \in r .. k - 1
    <3>1. CASE c' = c + 1
      BY <1>2, <2>1, <3>1, SMT
    <3>2. CASE \E b \in Elems(Step.branches) : c' = b.goto_step
      <4>1. c \in DOMAIN definition
        BY <1>10, Numbered DEF IInv, TypeOK
      <4> QED
        BY <2>1, <3>2, <4>1 DEF Carries, Step
    <3> QED
      BY <1>10, <3>1, <3>2 DEF Jumps
  <2>3. CASE c = r
    <3>1. pc \in {"act", "success"}
      BY <1>10, <2>3 DEF Jumps, Carries, MayWait, Step
    <3> QED
      BY <1>1, <1>10, <2>3, <3>1 DEF Between, Jumps
  <2>4. CASE c # r
    <3>1. c \in r + 1 .. k - 1
      BY <1>2, <2>2, <2>4, SMT
    <3> QED
      BY <1>1, <1>10, <3>1 DEF Between, Jumps, Resumable
  <2> QED
    BY <2>3, <2>4
<1> QED
  BY <1>3, <1>4, <1>5, <1>6, <1>7, <1>8, <1>9, <1>10 DEF Moves

\* Together they are inductive.
LEMMA InputsInvStep == InputsInv /\ [Next]_vars => InputsInv'
<1> SUFFICES ASSUME InputsInv, [Next]_vars PROVE InputsInv'
  OBVIOUS
<1>1. IInv /\ IInv' /\ Moves /\ Fresh'
  BY NextGood, NextMoves DEF InputsInv, Good
<1> QED
  BY <1>1, ForgottenStep, OwnInputsStep, CarriedInputsStep, LastUseStep DEF InputsInv

\* A new session has collected and typed nothing.
LEMMA InputsInvInit == Init => InputsInv
<1> SUFFICES ASSUME Init PROVE InputsInv
  OBVIOUS
<1>1. IInv
  BY InitIInv
<1> QED
  BY <1>1 DEF Init, InputsInv, Fresh, Forgotten, OwnInputs, CarriedInputs, LastUseAhead,
              Between, Resumable

\* The inputs of a session are an invariant of the executor.
LEMMA InputsAlways == Spec => []InputsInv
BY InputsInvInit, InputsInvStep, PTL DEF Spec

----------------------------------------------------------------------------
\* execute_action never meets a Fill whose input is missing if every step of
\* the definitions that types an input asks for it, or can only be reached
\* through a step that does: forget_sensitive_input_if_unreferenced drops an
\* input only when nothing can refer to it any more.
THEOREM FillsHaveInputs ==
    ASSUME \A d \in Definitions : InputsProvided(d)
    PROVE  Spec => []NoFillWithoutInput
<1>1. InputsInv => NoFillWithoutInput
  <2> DEFINE n == Step.actions[action].input
  <2> SUFFICES ASSUME InputsInv, pc = "act", action <= Len(Step.actions),
                      Step.actions[action].kind = "Fill"
               PROVE  collected_inputs[n] # "none"
    BY DEF NoFillWithoutInput
  <2>1. /\ IInv /\ definition \in Definitions /\ current_step_index \in 1 .. Len(definition)
        /\ action \in Nat /\ action # 0 /\ ~(action > Len(Step.actions))
        /\ current_step_index \in DOMAIN definition /\ action \in DOMAIN Step.actions
        /\ action >= action
    BY Numbered, SMT DEF InputsInv, IInv, TypeOK, AtStep, Step
  <2>2. n \in Names
    BY <2>1, ActionType
  <2>3. Fills(Step, action, n) /\ ToFill(n)
    BY <2>1 DEF Fills, ToFill
  <2>4. Requires(Step, n) \/ \E r \in DOMAIN definition : Carries(definition, r, current_step_index, n)
    BY <2>1, <2>2, <2>3 DEF InputsProvided, Step
  <2>5. CASE Requires(Step, n)
    BY <2>2, <2>3, <2>5 DEF InputsInv, OwnInputs
  <2>6. ASSUME NEW r \in DOMAIN definition, Carries(definition, r, current_step_index, n)
        PROVE  collected_inputs[n] # "none"
    <3>1. Between(r, current_step_index, n)
      BY <2>3 DEF Between
    <3>2. \E a \in DOMAIN definition[current_step_index].actions :
             Fills(definition[current_step_index], a, n)
      BY <2>1, <2>3 DEF Step
    <3> QED
      BY <2>1, <2>2, <2>6, <3>1, <3>2 DEF InputsInv, CarriedInputs
  <2> QED
    BY <2>4, <2>5, <2>6
<1> QED
  BY <1>1, InputsAlways, PTL

\* Between requests the orchestrator keeps a password or a code it has typed only
\* while a step from the current one on refers to it, if a secret that is used
\* several times has a last use that the flow cannot avoid.
THEOREM SecretsAreForgotten ==
    ASSUME \A d \in Definitions : SecretsEnd(d)
    PROVE  Spec => []SecretsForgotten
<1>1. InputsInv => SecretsForgotten
  <2> SUFFICES ASSUME InputsInv, NEW n \in typed, Sensitive(n), collected_inputs[n] # "none"
               PROVE  \E i \in current_step_index .. Len(definition) :
                         step_references_input(definition[i], n)
    BY DEF SecretsForgotten
  <2>1. KeptAfterFill(definition, n) /\ IInv /\ definition \in Definitions
    BY DEF InputsInv, Forgotten, IInv, TypeOK
  <2>2. PICK l \in DOMAIN definition : LastUse(definition, l, n)
    BY <2>1 DEF SecretsEnd, Sensitive
  <2>3. current_step_index <= l
    BY <2>2 DEF InputsInv, LastUseAhead
  <2>4. l \in current_step_index .. Len(definition)
    BY <2>1, <2>3, Numbered, SMT DEF IInv, TypeOK
  <2>5. step_references_input(definition[l], n)
    BY <2>2 DEF LastUse, Fills, step_references_input, action_references_input, Elems
  <2> QED
    BY <2>4, <2>5
<1> QED
  BY <1>1, InputsAlways, PTL

\* A one-time code is typed once, if a step that types a code asks for it and
\* nothing refers to it later: before a second Fill the session has asked again.
THEOREM CodesAreTypedOnce ==
    ASSUME \A d \in Definitions : CodesAsked(d)
    PROVE  Spec => []CodeTypedOnce
<1>1. InputsInv => CodeTypedOnce
  <2> SUFFICES ASSUME InputsInv, NEW n \in Names, pc = "act", action <= Len(Step.actions),
                      Step.actions[action].kind = "Fill", Step.actions[action].input = n,
                      NEW r \in Elems(Step.required_inputs), r.name = n, r.input_type = "Otp",
                      n \in typed
               PROVE  ~TRUE
    BY DEF CodeTypedOnce
  <2>1. /\ IInv /\ definition \in Definitions /\ action >= action
        /\ current_step_index \in DOMAIN definition /\ action \in DOMAIN Step.actions
    BY Numbered, SMT DEF InputsInv, IInv, TypeOK, AtStep, Step
  <2>2. Fills(Step, action, n) /\ ToFill(n)
    BY <2>1 DEF Fills, ToFill
  <2>3. Requires(Step, n) /\ ~KeptAfterFill(definition, n)
    BY <2>1, <2>2 DEF CodesAsked, Step
  <2>4. Sensitive(n)
    BY <2>1 DEF Sensitive, sensitive_input_names, Elems, Step
  <2>5. collected_inputs[n] # "none"
    BY <2>2, <2>3 DEF InputsInv, OwnInputs
  <2>6. collected_inputs[n] = "none"
    BY <2>3, <2>4 DEF InputsInv, Forgotten
  <2> QED
    BY <2>5, <2>6
<1> QED
  BY <1>1, InputsAlways, PTL
=============================================================================
