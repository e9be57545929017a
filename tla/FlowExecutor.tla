---------------------------- MODULE FlowExecutor ----------------------------
(***************************************************************************)
(* One browser session of the orchestrator: the interpreter of provider    *)
(* definitions (orchestrator/src/flow.rs), the part of a session it works  *)
(* on (session.rs) and the commands StartSession and NextStep              *)
(* (communication.rs).  The browser in the container is the environment:   *)
(* each command to it succeeds or fails, each probe matches or not.  The   *)
(* client is himmelblaud: one request at a time, and after a time-out or   *)
(* an error it never uses the session again.                               *)
(***************************************************************************)
EXTENDS Integers, Sequences, FiniteSets

CONSTANTS
    Names,              \* names of inputs
    Definitions         \* provider definitions: non-empty sequences of steps

\* A step of a definition (provider_definitions.rs).  wait_for is TRUE when the
\* step waits for a page; success is a condition on the page or a token_key.
StepType(len) ==
    [optional : BOOLEAN, wait_for : BOOLEAN, success : {"none", "page", "token"},
     required_inputs : Seq([name : Names, optional : BOOLEAN,
                            input_type : {"Text", "Password", "Otp", "Confirmation"}]),
     actions : Seq([kind : {"Fill"}, input : Names] \cup
                   [kind : {"Extract"}, input : Names \cup {"browser", "static"}] \cup
                   [kind : {"Click", "Wait", "Navigate", "Log"}]),
     branches : Seq([condition : {"Always", "InputPresent", "InputEquals"},
                     input : Names, goto_step : 1..len])]

\* Values of inputs; "match" is the text a condition InputEquals compares with.
Values == {"empty", "text", "match"}

\* There is a step, and branches go to steps that exist.  Names and selectors,
\* which it looks at too, are not modelled.
validate_provider_definition(d) == Len(d) > 0 /\ d \in Seq(StepType(Len(d)))

ASSUME DefinitionsAssumption == \A d \in Definitions : validate_provider_definition(d)

VARIABLES
    definition,         \* the session's definition
    present,            \* the session is in the table and its container runs
    state,              \* runtime.state
    current_step_index, \* runtime.current_step_index, from 1
    collected_inputs,   \* runtime.collected_inputs: name -> value or "none"
    tokens,             \* runtime.tokens holds an extracted value
    pc,                 \* where the handler of the request is
    action,             \* the action it executes next
    chan, need,         \* the client's side of the protocol
    typed               \* inputs typed into the page since they were collected

runtime == <<state, current_step_index, collected_inputs, tokens>>
client == <<chan, need>>
vars == <<definition, present, runtime, pc, action, client, typed>>

Step == definition[current_step_index]
Elems(s) == {s[i] : i \in DOMAIN s}

\* A request needs an answer.
Busy == pc # "idle"

Init ==
    /\ definition \in Definitions
    /\ present = FALSE
    /\ state = "InProgress" /\ current_step_index = 1
    /\ collected_inputs = [n \in Names |-> "none"] /\ tokens = FALSE
    /\ pc = "idle" /\ action = 1
    /\ chan = "new" /\ need = {}
    /\ typed = {}

----------------------------------------------------------------------------
(* Responses.  One that the client no longer waits for is lost.            *)

\* Mutant of Respond: a late answer still reaches the client.
RespondLate(kind, inputs) == pc' = "idle" /\ chan' = kind /\ need' = inputs

Respond(kind, inputs) ==
    /\ pc' = "idle"
    /\ IF chan = "left"
       THEN UNCHANGED client
       ELSE chan' = kind /\ need' = inputs

\* An error ends the request; the session keeps its state.
Fail == Respond("error", {}) /\ UNCHANGED <<runtime, action, typed>>

\* Mutant of complete_session: the completed step is counted as done.
complete_session_counted ==
    /\ state' = "Completed"
    /\ tokens' = FALSE
    /\ current_step_index' = current_step_index + 1
    /\ Respond("complete", {})
    /\ UNCHANGED <<collected_inputs, action, typed>>

\* complete_session.  The tokens are moved into the response.
complete_session ==
    /\ state' = "Completed"
    /\ tokens' = FALSE
    /\ Respond("complete", {})
    /\ UNCHANGED <<current_step_index, collected_inputs, action, typed>>

\* The loop goes on with another step.
GoToStep(i) ==
    /\ current_step_index' = i
    /\ pc' = "locate"
    /\ UNCHANGED <<state, collected_inputs, tokens, action, client, typed>>

----------------------------------------------------------------------------
(* Branches and references to inputs.                                      *)

BranchMatches(b) ==
    \/ b.condition = "Always"
    \/ b.condition = "InputPresent" /\ collected_inputs[b.input] \notin {"none", "empty"}
    \/ b.condition = "InputEquals" /\ collected_inputs[b.input] = "match"

\* Mutant of evaluate_branch_excluding: an optional step without a branch that
\* matches is waited for again.
evaluate_branch_excluding_stays(excluded) ==
    LET matching == {i \in DOMAIN Step.branches :
                       /\ BranchMatches(Step.branches[i])
                       /\ Step.branches[i].goto_step \notin excluded}
    IN  IF matching = {}
        THEN IF Step.optional THEN current_step_index ELSE current_step_index + 1
        ELSE Step.branches[CHOOSE i \in matching : \A j \in matching : i <= j].goto_step

\* evaluate_branch_excluding: the first branch that matches and does not lead
\* to an excluded step; without one, the next step.
evaluate_branch_excluding(excluded) ==
    LET matching == {i \in DOMAIN Step.branches :
                       /\ BranchMatches(Step.branches[i])
                       /\ Step.branches[i].goto_step \notin excluded}
    IN  IF matching = {}
        THEN current_step_index + 1
        ELSE Step.branches[CHOOSE i \in matching : \A j \in matching : i <= j].goto_step

branches_reference_input(s, n) ==
    \E b \in Elems(s.branches) : b.condition # "Always" /\ b.input = n

action_references_input(a, n) == a.kind \in {"Fill", "Extract"} /\ a.input = n

step_references_input(s, n) ==
    \/ \E r \in Elems(s.required_inputs) : r.name = n
    \/ \E a \in Elems(s.actions) : action_references_input(a, n)
    \/ branches_reference_input(s, n)

step_references_input_after_action(s, a, n) ==
    \/ \E i \in DOMAIN s.actions : i > a /\ action_references_input(s.actions[i], n)
    \/ branches_reference_input(s, n)

\* Mutant of Sensitive: only passwords.
SensitivePassword(n) ==
    \E s \in Elems(definition) : \E r \in Elems(s.required_inputs) :
        r.name = n /\ r.input_type = "Password"

\* sensitive_input_names: asked for as a password or a code by some step.
sensitive_input_names(d) ==
    {n \in Names : \E s \in Elems(d) : \E r \in Elems(s.required_inputs) :
                      r.name = n /\ r.input_type \in {"Password", "Otp"}}

Sensitive(n) == n \in sensitive_input_names(definition)

\* Mutants of forget_sensitive_input_if_unreferenced: later steps are not
\* considered; the current step always counts as a reference.
forget_after_step(n) ==
    IF Sensitive(n) /\ ~step_references_input_after_action(Step, action, n)
    THEN [collected_inputs EXCEPT ![n] = "none"]
    ELSE collected_inputs

forget_after_current(n) ==
    IF /\ Sensitive(n)
       /\ \A i \in current_step_index .. Len(definition) :
             ~step_references_input(definition[i], n)
    THEN [collected_inputs EXCEPT ![n] = "none"]
    ELSE collected_inputs

\* forget_sensitive_input_if_unreferenced, after a Fill.
forget_sensitive_input_if_unreferenced(n) ==
    IF /\ Sensitive(n)
       /\ ~step_references_input_after_action(Step, action, n)
       /\ \A i \in current_step_index + 1 .. Len(definition) :
             ~step_references_input(definition[i], n)
    THEN [collected_inputs EXCEPT ![n] = "none"]
    ELSE collected_inputs

----------------------------------------------------------------------------
(* The commands.                                                           *)

\* create_session stores what the command brings: the user name and the user
\* code of the device flow.
StoreGiven ==
    \E given \in SUBSET (Names \cap {"username", "dag_user_code"}) :
       collected_inputs' = [n \in Names |-> IF n \in given THEN "text" ELSE "none"]

\* handle_start_session: without a container the command fails.
handle_start_session ==
    /\ chan = "new"
    /\ chan' = "busy"
    /\ StoreGiven
    /\ \/ present' = TRUE /\ pc' = "navigate"
       \/ present' = FALSE /\ pc' = "fail"
    /\ UNCHANGED <<definition, state, current_step_index, tokens, action, need, typed>>

\* initialize_session_navigation, or the error of a command that never got to
\* a session.
Navigate ==
    /\ \/ /\ pc = "navigate" /\ present
          /\ pc' = "locate"
          /\ UNCHANGED <<runtime, action, client, typed>>
       \/ pc \in {"navigate", "fail"} /\ Fail
    /\ UNCHANGED <<definition, present>>

\* continue_session: the inputs given replace what was collected under their
\* names.
continue_session(given) ==
    /\ \E v \in [given -> Values] :
          collected_inputs' =
            [n \in Names |-> IF n \in given THEN v[n] ELSE collected_inputs[n]]
    /\ typed' = typed \ given
    /\ state' = IF given = {} THEN state ELSE "InProgress"
    /\ pc' = "locate"

\* handle_next_step: the session is continued, or unknown by now.
handle_next_step(given) ==
    /\ chan = "asked"
    /\ given \subseteq need
    /\ chan' = "busy" /\ need' = {}
    /\ IF present
       THEN continue_session(given)
       ELSE /\ pc' = "fail"
            /\ UNCHANGED <<collected_inputs, typed, state>>
    /\ UNCHANGED <<definition, present, current_step_index, tokens, action>>

----------------------------------------------------------------------------
(* advance_until_blocked_or_complete.                                      *)

\* send_bridge_request: the container answers while it runs, or the request
\* fails; a failure is possible at any time.
Reachable == present

\* optional_step_wait_condition_satisfied: only an optional step is skipped when
\* its page is not there.
MayWait == Step.optional /\ Step.wait_for

\* The step to execute, or the end of the definition; then the wait condition.
Locate ==
    /\ pc = "locate"
    /\ UNCHANGED <<definition, present>>
    /\ IF current_step_index > Len(definition)
       THEN complete_session
       ELSE \/ /\ Reachable \/ ~MayWait
               /\ pc' = "inputs"
               /\ UNCHANGED <<runtime, action, client, typed>>
            \/ /\ MayWait /\ Reachable
               /\ GoToStep(evaluate_branch_excluding({current_step_index}))
            \/ MayWait /\ Fail

\* maybe_request_inputs.
Missing ==
    {r.name : r \in {q \in Elems(Step.required_inputs) :
                        ~q.optional /\ collected_inputs[q.name] \in {"none", "empty"}}}

maybe_request_inputs ==
    /\ pc = "inputs"
    /\ UNCHANGED <<definition, present, current_step_index, collected_inputs, tokens, typed>>
    /\ \/ /\ Missing # {}
          /\ state' = "WaitingForInput"
          /\ Respond("asked", Missing)
          /\ UNCHANGED action
       \/ /\ Missing = {}
          /\ pc' = "act" /\ action' = 1
          /\ UNCHANGED <<state, client>>

\* Which actions send a command to the container.
UsesBrowser(a) ==
    \/ a.kind \in {"Fill", "Click", "Navigate"}
    \/ a.kind = "Extract" /\ a.input = "browser"

\* execute_action, successful.  A Fill types the input into the page and forgets
\* it if it is a secret that nothing refers to any more.
Fill(a) ==
    /\ a.kind = "Fill" /\ Reachable
    /\ collected_inputs[a.input] # "none"
    /\ typed' = typed \cup {a.input}
    /\ collected_inputs' = forget_sensitive_input_if_unreferenced(a.input)
    /\ UNCHANGED tokens

ClickOrNavigate(a) ==
    /\ a.kind \in {"Click", "Navigate"} /\ Reachable
    /\ UNCHANGED <<typed, collected_inputs, tokens>>

WaitOrLog(a) ==
    /\ a.kind \in {"Wait", "Log"}
    /\ UNCHANGED <<typed, collected_inputs, tokens>>

\* extract_value: from an input, a constant, or the page, which may hold nothing.
extract_value(a) ==
    IF a.input \in Names THEN {collected_inputs[a.input] # "none"}
    ELSE IF a.input = "static" THEN {TRUE}
    ELSE {found \in BOOLEAN : Reachable}

Extract(a) ==
    /\ a.kind = "Extract"
    /\ \E found \in extract_value(a) : tokens' = (tokens \/ found)
    /\ UNCHANGED <<typed, collected_inputs>>

ActionSucceeds(a) ==
    /\ Fill(a) \/ ClickOrNavigate(a) \/ WaitOrLog(a) \/ Extract(a)
    /\ action' = action + 1
    /\ UNCHANGED <<state, current_step_index, pc, client>>

\* A failed action ends the request unless its step is optional.
ActionFails(a) ==
    /\ UsesBrowser(a)
    /\ IF Step.optional
       THEN GoToStep(evaluate_branch_excluding({}))
       ELSE Fail

\* execute_step_actions.
execute_step_actions ==
    /\ pc = "act"
    /\ UNCHANGED <<definition, present>>
    /\ IF action > Len(Step.actions)
       THEN pc' = "success" /\ UNCHANGED <<runtime, action, client, typed>>
       ELSE ActionSucceeds(Step.actions[action]) \/ ActionFails(Step.actions[action])

\* step_successful, then the branches.  With a token_key it holds the lock of
\* runtime while it logs, which locks runtime again: the request is stuck.
step_successful ==
    /\ pc = "success"
    /\ UNCHANGED <<definition, present>>
    /\ \/ Step.success = "page" /\ Reachable /\ complete_session
       \/ Step.success = "page" /\ Fail
       \/ /\ Step.success = "none" \/ (Step.success = "page" /\ Reachable)
          /\ GoToStep(evaluate_branch_excluding({}))
       \/ /\ Step.success = "token"
          /\ pc' = "stuck"
          /\ UNCHANGED <<runtime, action, client, typed>>

----------------------------------------------------------------------------
(* The environment.                                                        *)

\* cleanup_stale_sessions or a shutdown removes the session and its container.
RemoveSession ==
    /\ present
    /\ present' = FALSE
    /\ UNCHANGED <<definition, runtime, pc, action, client, typed>>

\* The client's time-out, or a user who gives up the sign-in.
ClientLeaves ==
    /\ chan \in {"busy", "asked"}
    /\ chan' = "left" /\ need' = {}
    /\ UNCHANGED <<definition, present, runtime, pc, action, typed>>

Advance ==
    \/ Navigate \/ Locate \/ maybe_request_inputs
    \/ execute_step_actions \/ step_successful

Next ==
    \/ handle_start_session
    \/ \E given \in SUBSET need : handle_next_step(given)
    \/ Advance
    \/ RemoveSession
    \/ ClientLeaves

Spec == Init /\ [][Next]_vars

\* The runtime polls a ready handler and commands to the browser have time-outs.
FairSpec == Spec /\ WF_vars(Advance)

----------------------------------------------------------------------------
(* Properties.                                                             *)

TypeOK ==
    /\ definition \in Definitions
    /\ present \in BOOLEAN
    /\ state \in {"InProgress", "WaitingForInput", "Completed"}
    /\ current_step_index \in 1 .. Len(definition) + 1
    /\ collected_inputs \in [Names -> Values \cup {"none"}]
    /\ tokens \in BOOLEAN
    /\ pc \in {"idle", "navigate", "fail", "locate", "inputs", "act", "success", "stuck"}
    /\ action \in Nat
    /\ chan \in {"new", "busy", "asked", "complete", "error", "left"}
    /\ need \subseteq Names
    /\ typed \subseteq Names

\* An action that types an input finds it (execute_action reports a missing
\* one as an error): the step asked for it, or an earlier step did and
\* forget_sensitive_input_if_unreferenced kept it.
NoFillWithoutInput ==
    pc = "act" /\ action <= Len(Step.actions) /\ Step.actions[action].kind = "Fill"
        => collected_inputs[Step.actions[action].input] # "none"

\* Between requests, a password or code that was typed into the page is kept
\* only while a step from the current one on refers to it.
SecretsForgotten ==
    ~Busy => \A n \in typed :
        Sensitive(n) /\ collected_inputs[n] # "none"
            => \E i \in current_step_index .. Len(definition) :
                  step_references_input(definition[i], n)

\* A one-time code is typed once: a step that is tried again after its page
\* refused the code, or after a failed click, asks the user for a new one.
CodeTypedOnce ==
    \A n \in Names :
        /\ pc = "act" /\ action <= Len(Step.actions)
        /\ Step.actions[action].kind = "Fill" /\ Step.actions[action].input = n
        /\ \E r \in Elems(Step.required_inputs) : r.name = n /\ r.input_type = "Otp"
        => n \notin typed

----------------------------------------------------------------------------
(* Validation accepts definitions for which these three fail, for instance *)
(* one that types an input it never asks for.  They hold for definitions   *)
(* of the following form.                                                  *)

\* Action a of step s types n into the page.
Fills(s, a, n) == a \in DOMAIN s.actions /\ s.actions[a].kind = "Fill" /\ s.actions[a].input = n

\* Step s does not go on without n (maybe_request_inputs).
Requires(s, n) == \E r \in Elems(s.required_inputs) : r.name = n /\ ~r.optional

\* Something refers to n after action a of step k: n is not forgotten.
RefersLater(d, k, a, n) ==
    \/ step_references_input_after_action(d[k], a, n)
    \/ \E i \in k + 1 .. Len(d) : step_references_input(d[i], n)

\* n is kept after some action that types it.
KeptAfterFill(d, n) == \E k \in DOMAIN d : \E a \in DOMAIN d[k].actions : Fills(d[k], a, n) /\ RefersLater(d, k, a, n)

\* Step k can be reached only through step r, which asks for n and is not skipped.
Carries(d, r, k, n) ==
    /\ r < k
    /\ Requires(d[r], n) /\ ~(d[r].optional /\ d[r].wait_for)
    /\ \A i \in DOMAIN d : \A b \in Elems(d[i].branches) : b.goto_step \in r + 1 .. k => i \in r .. k - 1

\* A step that types an input asks for it, or a step before it always does.
InputsProvided(d) ==
    \A k \in DOMAIN d : \A a \in DOMAIN d[k].actions : \A n \in Names :
        Fills(d[k], a, n) => Requires(d[k], n) \/ \E r \in DOMAIN d : Carries(d, r, k, n)

\* Step l is the last one that refers to n and types it last; it is neither
\* optional nor jumped over.
LastUse(d, l, n) ==
    /\ ~d[l].optional
    /\ \A i \in 1 .. l - 1 : \A b \in Elems(d[i].branches) : b.goto_step <= l
    /\ \E a \in DOMAIN d[l].actions : Fills(d[l], a, n) /\ ~RefersLater(d, l, a, n)

\* A secret that is kept after it was typed has a last use.
SecretsEnd(d) ==
    \A n \in sensitive_input_names(d) : KeptAfterFill(d, n) => \E l \in DOMAIN d : LastUse(d, l, n)

\* A step that types a code asks for it, and the code is not kept.
CodesAsked(d) ==
    \A k \in DOMAIN d : \A a \in DOMAIN d[k].actions : \A r \in Elems(d[k].required_inputs) :
        r.input_type = "Otp" /\ Fills(d[k], a, r.name) => Requires(d[k], r.name) /\ ~KeptAfterFill(d, r.name)

----------------------------------------------------------------------------
\* Branches lead forward only, and no step waits for a token.
Simple ==
    \A i \in DOMAIN definition :
        /\ definition[i].success # "token"
        /\ \A b \in Elems(definition[i].branches) : b.goto_step > i

\* If the definition has no loop and no token_key, the orchestrator answers every
\* request, whatever the browser does.
Answered == (Busy /\ Simple) ~> ~Busy

\* The session implements FlowProtocol: one answer per request, and never an
\* empty list of inputs.
P == INSTANCE FlowProtocol

FollowsProtocol == P!Protocol
=============================================================================
