-------------------------- MODULE TaskQueueProofs --------------------------
(***************************************************************************)
(* The safety of the task queue, for any number of connections, any         *)
(* capacity of the channel, any number of crashes and any sign-ins.         *)
(*                                                                         *)
(* The argument follows one task.  Before it is submitted it is nowhere and *)
(* has no verdict; then it is in exactly one place of the channel; then in  *)
(* the hands of the connector, which waits for its answer alone; and only   *)
(* what is in its hands can be executed.  The same argument shows that the  *)
(* queue implements TaskService.                                            *)
(***************************************************************************)
EXTENDS TaskQueue, SequenceTheorems, TLAPS

\* Most leaves are first-order; those that build records or count say so (SMT).
USE ZenonT(30)

Distinct(q) == \A i, j \in 1..Len(q) : q[i] = q[j] => i = j

\* A request is at a task of its program until it is done.
AtTask ==
    /\ \A c \in Clients : phase[c] = "idle" => pos[c] = 1 /\ prog[c] = << >>
    /\ \A c \in Clients : phase[c] \in {"submit", "await"} => pos[c] <= Len(prog[c]) /\ kind[c] # "none"
    /\ tphase = "down" => connected <= MaxCrashes

\* Where a task without a verdict is.
Custody ==
    /\ Distinct(queue)
    /\ \A id \in Members(queue) : verdict[id] = "none" /\ id # inhand
    /\ \A c \in Clients, j \in 1..5 :
          Ahead(c, j) => /\ verdict[<<c, j>>] = "none"
                         /\ <<c, j>> # inhand
                         /\ <<c, j>> \notin Members(queue)

\* What is on the socket, in either direction, is about the request in hand.
Connection ==
    /\ hand = "wait" <=> inhand # NoTask
    /\ wire # NoTask => wire = inhand /\ answer = "none" /\ verdict[wire] = "none"
    /\ answer # "none" => inhand # NoTask /\ verdict[inhand] = answer
    /\ tphase = "reply" => /\ tcur = inhand /\ inhand # NoTask /\ accepted = connected
                           /\ wire = NoTask /\ answer = "none" /\ verdict[tcur] # "none"

\* A session that is still to be granted has had its critical tasks dealt with.
Served ==
    \A c \in Clients :
        kind[c] = "begin" /\ resp[c] = "Ok"
            => /\ prog[c] = BeginSession
               /\ \A j \in 1..2 : j < pos[c] => verdict[<<c, j>>] # "none"
               /\ phase[c] = "done" => pos[c] = 3

IInv == TypeOK /\ AtTask /\ Custody /\ Connection /\ OutcomeIsOwn /\ Served

----------------------------------------------------------------------------
(* Facts about sequences and programs.                                     *)

\* What it means that x, which was not in the channel q, was appended to it.
Appended(q, x) ==
    /\ Append(q, x) \in Seq(Ids)
    /\ Len(Append(q, x)) = Len(q) + 1
    /\ Members(Append(q, x)) = Members(q) \cup {x}
    /\ Distinct(Append(q, x))

\* A task sent to the channel that is not yet there (Submit, SendTask) is appended.
LEMMA AppendTask ==
    ASSUME NEW q \in Seq(Ids), NEW x \in Ids, Distinct(q), x \notin Members(q)
    PROVE  Appended(q, x)
<1> DEFINE r == Append(q, x)
<1>1. /\ r \in Seq(Ids) /\ Len(r) = Len(q) + 1 /\ Len(q) \in Nat
      /\ \A i \in 1..Len(q) : r[i] = q[i]
      /\ r[Len(q) + 1] = x
  BY SMT
<1> HIDE DEF r
<1>2. Members(r) = Members(q) \cup {x}
  BY <1>1, SMT DEF Members
<1>3. Distinct(r)
  BY <1>1, SMT DEF Members, Distinct
<1> QED
  BY <1>1, <1>2, <1>3 DEF r, Appended

\* Tail takes the head away.
LEMMA TailMembers ==
    ASSUME NEW T, NEW q \in Seq(T), q # << >>
    PROVE  /\ Head(q) \in T /\ Head(q) \in Members(q)
           /\ Tail(q) \in Seq(T)
           /\ Len(Tail(q)) = Len(q) - 1
           /\ Members(q) = Members(Tail(q)) \cup {Head(q)}
           /\ Distinct(q) => Distinct(Tail(q)) /\ Head(q) \notin Members(Tail(q))
<1> DEFINE r == Tail(q)
<1>1. /\ r \in Seq(T) /\ Len(r) = Len(q) - 1 /\ Len(q) \in Nat \ {0}
      /\ \A i \in 1..Len(r) : r[i] = q[i + 1]
      /\ Head(q) = q[1] /\ q[1] \in T
  BY SMT
<1> HIDE DEF r
<1>2. Members(q) = Members(r) \cup {Head(q)}
  <2>1. \A i \in 1..Len(r) : i + 1 \in 1..Len(q)
    BY <1>1, SMT
  <2>2. \A i \in 1..Len(q) : i # 1 => i - 1 \in 1..Len(r) /\ r[i - 1] = q[i]
    BY <1>1, SMT
  <2>3. 1 \in 1..Len(q)
    BY <1>1, SMT
  <2>4. \A i \in 1..Len(r) : r[i] \in Members(q)
    BY <1>1, <2>1 DEF Members
  <2>5. \A i \in 1..Len(q) : q[i] \in Members(r) \cup {Head(q)}
    BY <1>1, <2>2 DEF Members
  <2>6. Head(q) \in Members(q)
    BY <1>1, <2>3 DEF Members
  <2> QED
    BY <2>4, <2>5, <2>6 DEF Members
<1>3. Distinct(q) => Distinct(r) /\ Head(q) \notin Members(r)
  <2> SUFFICES ASSUME Distinct(q) PROVE Distinct(r) /\ Head(q) \notin Members(r)
    OBVIOUS
  <2>1. \A i \in 1..Len(r) : i + 1 \in 1..Len(q) /\ i + 1 # 1
    BY <1>1, SMT
  <2>2. Distinct(r)
    BY <1>1, <2>1, SMT DEF Distinct
  <2>3. \A i \in 1..Len(r) : r[i] # q[1]
    BY <1>1, <2>1, SMT DEF Distinct
  <2> QED
    BY <1>1, <2>2, <2>3 DEF Members
<1> QED
  BY <1>1, <1>2, <1>3 DEF r

Tasks == {"HomeDirectory", "LocalGroups", "SubordinateIds", "LogonScript", "KerberosConfig",
          "KerberosTGTs", "LoadProfilePhoto", "ApplyPolicy"}

Programs == {SignIn(cfg) : cfg \in Configs} \cup {<< >>, BeginSession, ComplianceCheck}

\* No request submits more than five tasks.
LEMMA ProgramLength ==
    \A p \in Programs : Len(p) \in 0..5 /\ (p # << >> => Len(p) >= 1)
<1>1. ASSUME NEW cfg \in Configs
      PROVE  SignIn(cfg) \in Seq(Tasks) /\ Len(SignIn(cfg)) \in 0..5
  <2>0. << >> \in Seq(Tasks) /\ Len(<< >>) = 0
    BY SMT
  <2>1. LogonScript(cfg) \in Seq(Tasks) /\ Len(LogonScript(cfg)) \in 0..1
    <3>1. <<"LogonScript">> \in Seq(Tasks) /\ Len(<<"LogonScript">>) = 1
      BY SMT DEF Tasks
    <3> QED
      BY <2>0, <3>1, SMT DEF LogonScript
  <2>2. Kerberos(cfg) \in Seq(Tasks) /\ Len(Kerberos(cfg)) \in 0..2
    <3>1. <<"KerberosConfig", "KerberosTGTs">> \in Seq(Tasks) /\ Len(<<"KerberosConfig", "KerberosTGTs">>) = 2
      BY SMT DEF Tasks
    <3> QED
      BY <2>0, <3>1, SMT DEF Kerberos
  <2>3. ProfilePhoto(cfg) \in Seq(Tasks) /\ Len(ProfilePhoto(cfg)) \in 0..1
    <3>1. <<"LoadProfilePhoto">> \in Seq(Tasks) /\ Len(<<"LoadProfilePhoto">>) = 1
      BY SMT DEF Tasks
    <3> QED
      BY <2>0, <3>1, SMT DEF ProfilePhoto
  <2>4. Policies(cfg) \in Seq(Tasks) /\ Len(Policies(cfg)) \in 0..1
    <3>1. <<"ApplyPolicy">> \in Seq(Tasks) /\ Len(<<"ApplyPolicy">>) = 1
      BY SMT DEF Tasks
    <3> QED
      BY <2>0, <3>1, SMT DEF Policies
  <2>5. \A s, t \in Seq(Tasks) : s \o t \in Seq(Tasks) /\ Len(s \o t) = Len(s) + Len(t)
    BY SMT
  <2> DEFINE a == LogonScript(cfg) \o Kerberos(cfg)
             b == a \o ProfilePhoto(cfg)
             d == b \o Policies(cfg)
  <2>6. a \in Seq(Tasks) /\ Len(a) = Len(LogonScript(cfg)) + Len(Kerberos(cfg))
    BY <2>1, <2>2, <2>5
  <2> HIDE DEF a
  <2>7. b \in Seq(Tasks) /\ Len(b) = Len(a) + Len(ProfilePhoto(cfg))
    BY <2>3, <2>5, <2>6
  <2> HIDE DEF b
  <2>8. d \in Seq(Tasks) /\ Len(d) = Len(b) + Len(Policies(cfg))
    BY <2>4, <2>5, <2>7
  <2>9. SignIn(cfg) = d
    BY DEF SignIn, a, b
  <2> HIDE DEF d
  <2>10. Len(d) \in 0..5
    <3>1. \A k, n \in 0..1, l \in 0..2, m \in 0..1 : k + l + m + n \in 0..5
      BY SMT
    <3>2. Len(d) = Len(LogonScript(cfg)) + Len(Kerberos(cfg)) + Len(ProfilePhoto(cfg)) + Len(Policies(cfg))
      BY <2>6, <2>7, <2>8
    <3> QED
      BY <2>1, <2>2, <2>3, <2>4, <3>1, <3>2
  <2> QED
    BY <2>8, <2>9, <2>10
<1>2. \A p \in Seq(Tasks) : p # << >> => Len(p) >= 1
  BY EmptySeq, SMT
<1>3. BeginSession \in Seq(Tasks) /\ Len(BeginSession) = 3
  BY SMT DEF BeginSession, Tasks
<1>4. ComplianceCheck \in Seq(Tasks) /\ Len(ComplianceCheck) = 1
  BY SMT DEF ComplianceCheck, Tasks
<1> QED
  BY <1>1, <1>2, <1>3, <1>4, SMT DEF Programs

LEMMA PairsAreIds ==
    /\ \A c \in Clients, j \in 1..5 : <<c, j>> \in Ids /\ <<c, j>> # NoTask
    /\ \A id \in Ids : id = <<id[1], id[2]>> /\ id[1] \in Clients /\ id[2] \in 1..5 /\ id # NoTask
BY QueueAssumption, SMT DEF Ids, NoTask

----------------------------------------------------------------------------
(* Each action preserves the invariant.                                    *)

\* A step that leaves channel, hand and verdicts alone and takes no request back.
LEMMA CustodySame ==
    ASSUME Custody, UNCHANGED <<queue, inhand, verdict>>,
           \A c \in Clients, j \in 1..5 : Ahead(c, j)' => Ahead(c, j)
    PROVE  Custody'
<1>1. Distinct(queue)' /\ Members(queue)' = Members(queue)
  BY DEF Custody, Distinct, Members
<1>2. \A id \in Members(queue)' : verdict'[id] = "none" /\ id # inhand'
  BY <1>1 DEF Custody
<1>3. \A c \in Clients, j \in 1..5 :
          Ahead(c, j)' => /\ verdict'[<<c, j>>] = "none"
                          /\ <<c, j>> # inhand'
                          /\ <<c, j>> \notin Members(queue)'
  BY <1>1 DEF Custody
<1> QED
  BY <1>1, <1>2, <1>3 DEF Custody

\* The connector lets go of the request in hand.
LEMMA HandEmptied ==
    ASSUME Custody, queue \in Seq(Ids), UNCHANGED <<queue, verdict, pos, phase>>, inhand' = NoTask
    PROVE  Custody'
<1>1. Distinct(queue)' /\ Members(queue)' = Members(queue)
  BY SMT DEF Custody, Distinct, Members
<1>2. \A c \in Clients, j \in 1..5 : (Ahead(c, j)' <=> Ahead(c, j)) /\ <<c, j>> # NoTask
  BY PairsAreIds DEF Ahead
<1>3. \A m \in Members(queue) : m # NoTask
  <2>1. \A i \in 1..Len(queue) : queue[i] \in Ids
    BY SMT
  <2> QED
    BY <2>1, PairsAreIds DEF Members
<1> QED
  BY <1>1, <1>2, <1>3 DEF Custody

LEMMA InitIInv == Init => IInv
<1> SUFFICES ASSUME Init PROVE IInv
  OBVIOUS
<1>1. queue = << >> /\ << >> \in Seq(Ids) /\ Len(queue) = 0 /\ Members(queue) = {}
  BY SMT DEF Init, Members
<1>2. TypeOK
  BY <1>1, QueueAssumption, SMT DEF Init, TypeOK
<1>3. AtTask
  BY QueueAssumption, SMT DEF Init, AtTask
<1>4. Custody
  <2>1. Distinct(queue) /\ Members(queue) = {}
    BY <1>1, SMT DEF Distinct
  <2>2. \A c \in Clients, j \in 1..5 : verdict[<<c, j>>] = "none" /\ <<c, j>> # inhand
    BY PairsAreIds DEF Init
  <2> QED
    BY <2>1, <2>2 DEF Custody
<1>5. Connection /\ OutcomeIsOwn /\ Served
  BY DEF Init, Connection, OutcomeIsOwn, Served, Outcomes
<1> QED
  BY <1>2, <1>3, <1>4, <1>5 DEF IInv

\* A request that is answered at once or starts to submit its program.
LEMMA ArriveIInv ==
    ASSUME IInv, NEW c \in Clients, Arrive(c)
    PROVE  IInv'
<1> USE DEF IInv
<1>1. /\ phase[c] = "idle" /\ pos[c] = 1 /\ prog[c] = << >>
      /\ UNCHANGED <<pos, shot, queue, connector, tasksd, wire, answer, verdict>>
      /\ phase' = [phase EXCEPT ![c] = IF prog'[c] = << >> THEN "done" ELSE "submit"]
  BY DEF Arrive, AtTask
<1>2. /\ prog' \in [Clients -> Programs] /\ \A d \in Clients \ {c} : prog'[d] = prog[d]
      /\ kind' \in [Clients -> Kinds \cup {"none"}] /\ kind'[c] # "none"
      /\ \A d \in Clients \ {c} : kind'[d] = kind[d] /\ resp'[d] = resp[d]
      /\ resp' \in [Clients -> {"none", "Ok", "Error", "NonCompliant", "Success", "Denied"}]
      /\ kind'[c] = "begin" /\ resp'[c] = "Ok" => prog'[c] = BeginSession
  BY SMT DEF Arrive, TypeOK, Programs, Kinds
<1>3. TypeOK'
  BY <1>1, <1>2 DEF TypeOK, Programs, connector, tasksd
<1>4. AtTask'
  BY <1>1, <1>2, ProgramLength, SMT DEF AtTask, TypeOK, tasksd
<1>5. Custody'
  <2>1. \A d \in Clients, j \in 1..5 : Ahead(d, j)' => Ahead(d, j)
    BY <1>1 DEF Ahead, TypeOK
  <2> QED
    BY <1>1, <2>1, CustodySame DEF connector
<1>6. Connection' /\ OutcomeIsOwn'
  BY <1>1 DEF Connection, OutcomeIsOwn, connector, tasksd
<1>7. Served'
  <2>1. BeginSession # << >>
    BY DEF BeginSession
  <2> QED
    BY <1>1, <1>2, <2>1, SMT DEF Served, TypeOK
<1> QED
  BY <1>3, <1>4, <1>5, <1>6, <1>7

\* A request goes on, with the outcome of its own task or without one.
LEMMA ProceedIInv ==
    ASSUME IInv, NEW c \in Clients, NEW outcome \in Outcomes \cup {"none"},
           phase[c] \in {"submit", "await"},
           outcome # "none" => verdict[<<c, pos[c]>>] # "none",
           Proceed(c, outcome),
           UNCHANGED <<queue, connector, tasksd, wire, answer, verdict>>
    PROVE  IInv'
<1> USE DEF IInv
<1>1. /\ pos[c] \in 1..5 /\ pos[c] <= Len(prog[c]) /\ Len(prog[c]) \in 0..5
      /\ kind[c] \in Kinds
  BY ProgramLength DEF TypeOK, AtTask, Programs
<1>2. /\ pos' \in [Clients -> 1..5] /\ \A d \in Clients \ {c} : pos'[d] = pos[d]
      /\ phase' \in [Clients -> {"idle", "submit", "await", "done"}]
      /\ \A d \in Clients \ {c} : phase'[d] = phase[d]
      /\ \/ phase'[c] = "done" /\ pos'[c] = pos[c] /\ pos[c] = Len(prog[c])
         \/ phase'[c] = "submit" /\ pos'[c] = pos[c] + 1 /\ pos[c] < Len(prog[c])
      /\ UNCHANGED <<kind, prog>>
  <2>1. CASE pos[c] = Len(prog[c])
    <3>1. phase' = [phase EXCEPT ![c] = "done"] /\ pos' = pos /\ UNCHANGED <<kind, prog>>
      BY <2>1 DEF Proceed
    <3> QED
      BY <2>1, <3>1 DEF TypeOK
  <2>2. CASE pos[c] # Len(prog[c])
    <3>1. /\ phase' = [phase EXCEPT ![c] = "submit"] /\ pos' = [pos EXCEPT ![c] = pos[c] + 1]
          /\ UNCHANGED <<kind, prog>>
      BY <2>2 DEF Proceed
    <3>2. pos[c] + 1 \in 1..5 /\ pos[c] < Len(prog[c])
      <4>1. \A i \in 1..5, n \in 0..5 : i <= n /\ i # n => i + 1 \in 1..5 /\ i < n
        BY SMT
      <4> QED
        BY <1>1, <2>2, <4>1
    <3> QED
      BY <3>1, <3>2 DEF TypeOK
  <2> QED
    BY <2>1, <2>2
<1>3. /\ resp' = [resp EXCEPT ![c] = Response(c, outcome)]
      /\ Response(c, outcome) \in {"none", "Ok", "Error", "NonCompliant", "Success", "Denied"}
  BY <1>1 DEF Proceed, Response, SessionResponse, SignInResponse, ComplianceResponse, TypeOK, Kinds
<1>4. shot' = [shot EXCEPT ![c] = "closed"]
  BY DEF Proceed
<1>5. TypeOK'
  BY <1>2, <1>3, <1>4 DEF TypeOK, connector, tasksd
<1>6. AtTask'
  BY <1>1, <1>2, SMT DEF AtTask, tasksd
<1>7. Custody'
  <2>1. \A d \in Clients, j \in 1..5 : Ahead(d, j)' => Ahead(d, j)
    BY <1>1, <1>2, SMT DEF Ahead, TypeOK
  <2> QED
    BY <2>1, CustodySame DEF connector
<1>8. Connection' /\ OutcomeIsOwn'
  BY <1>2, <1>4, SMT DEF Connection, OutcomeIsOwn, Outcomes, TypeOK, connector, tasksd
<1>9. Served'
  <2>1. ASSUME kind[c] = "begin", resp'[c] = "Ok"
        PROVE  /\ prog[c] = BeginSession
               /\ \A j \in 1..2 : j < pos'[c] => verdict[<<c, j>>] # "none"
               /\ phase'[c] = "done" => pos'[c] = 3
    <3>1. resp'[c] = SessionResponse(prog[c][pos[c]], outcome, resp[c])
      BY <1>3, <2>1 DEF Response, TypeOK
    <3>2. resp[c] = "Ok" /\ prog[c] = BeginSession /\ \A j \in 1..2 : j < pos[c] => verdict[<<c, j>>] # "none"
      BY <2>1, <3>1 DEF SessionResponse, Served
    <3>3. Len(prog[c]) = 3 /\ prog[c][1] = "HomeDirectory" /\ prog[c][2] = "LocalGroups"
      BY <3>2, SMT DEF BeginSession
    <3>4. pos[c] \in 1..2 => verdict[<<c, pos[c]>>] # "none"
      BY <2>1, <3>1, <3>3, SMT DEF SessionResponse
    <3> QED
      BY <1>1, <1>2, <3>2, <3>3, <3>4, SMT
  <2>2. ASSUME NEW d \in Clients \ {c}, kind[d] = "begin", resp'[d] = "Ok"
        PROVE  /\ prog[d] = BeginSession
               /\ \A j \in 1..2 : j < pos'[d] => verdict[<<d, j>>] # "none"
               /\ phase'[d] = "done" => pos'[d] = 3
    BY <1>2, <1>3, <2>2, SMT DEF Served, TypeOK
  <2>3. kind' = kind /\ prog' = prog /\ verdict' = verdict
    BY <1>2
  <2> QED
    BY <2>1, <2>2, <2>3 DEF Served
<1> QED
  BY <1>5, <1>6, <1>7, <1>8, <1>9

\* A task is put into the channel, or there is no room in time.
LEMMA SubmitIInv ==
    ASSUME IInv, NEW c \in Clients, Submit(c)
    PROVE  IInv'
<1> USE DEF IInv
<1> DEFINE id == <<c, pos[c]>>
<1>1. CASE Len(queue) < Capacity
  <2>1. /\ phase[c] = "submit" /\ queue' = Append(queue, id)
        /\ shot' = [shot EXCEPT ![c] = "open"] /\ phase' = [phase EXCEPT ![c] = "await"]
        /\ UNCHANGED <<kind, prog, pos, resp, connector, tasksd, wire, answer, verdict>>
    BY <1>1, SMT DEF Submit
  <2>2. id \in Ids /\ verdict[id] = "none" /\ id # inhand /\ id \notin Members(queue)
    BY <2>1, PairsAreIds DEF Custody, Ahead, TypeOK
  <2>3. /\ queue' \in Seq(Ids) /\ Len(queue') = Len(queue) + 1 /\ Distinct(queue)'
        /\ Members(queue)' = Members(queue) \cup {id}
    <3> HIDE DEF id
    <3>1. queue \in Seq(Ids) /\ Distinct(queue)
      BY DEF TypeOK, Custody
    <3>2. /\ Append(queue, id) \in Seq(Ids) /\ Len(Append(queue, id)) = Len(queue) + 1
          /\ Members(Append(queue, id)) = Members(queue) \cup {id} /\ Distinct(Append(queue, id))
      BY <2>2, <3>1, AppendTask DEF Appended
    <3>3. queue' = Append(queue, id)
      BY <2>1
    <3> QED
      BY <3>2, <3>3
  <2>4. TypeOK'
    BY <1>1, <2>1, <2>3, QueueAssumption, SMT DEF TypeOK, connector, tasksd
  <2>5. AtTask'
    BY <2>1 DEF AtTask, TypeOK, tasksd
  <2>6. Custody'
    <3>1. \A m \in Members(queue)' : verdict'[m] = "none" /\ m # inhand'
      BY <2>1, <2>2, <2>3 DEF Custody, connector
    <3>2. ASSUME NEW d \in Clients, NEW j \in 1..5, Ahead(d, j)'
          PROVE  Ahead(d, j) /\ <<d, j>> # id
      BY <2>1, <3>2, SMT DEF Ahead, TypeOK
    <3>3. \A d \in Clients, j \in 1..5 :
             Ahead(d, j)' => /\ verdict'[<<d, j>>] = "none"
                             /\ <<d, j>> # inhand'
                             /\ <<d, j>> \notin Members(queue)'
      BY <2>1, <2>3, <3>2 DEF Custody, connector
    <3> QED
      BY <2>3, <3>1, <3>3 DEF Custody
  <2>7. Connection' /\ OutcomeIsOwn' /\ Served'
    BY <2>1 DEF Connection, OutcomeIsOwn, Served, Outcomes, TypeOK, connector, tasksd
  <2> QED
    BY <2>4, <2>5, <2>6, <2>7
<1>2. CASE Len(queue) >= Capacity
  <2>1. phase[c] = "submit" /\ Proceed(c, "none") /\ UNCHANGED <<queue, connector, tasksd, wire, answer, verdict>>
    BY <1>2, QueueAssumption, SMT DEF Submit
  <2> QED
    BY <2>1, ProceedIInv
<1> QED
  BY <1>1, <1>2, QueueAssumption, SMT DEF TypeOK

LEMMA AwaitIInv ==
    ASSUME IInv, NEW c \in Clients, Await(c)
    PROVE  IInv'
<1> DEFINE outcome == IF shot[c] \in Outcomes THEN shot[c] ELSE "none"
<1>1. outcome \in Outcomes \cup {"none"} /\ (outcome # "none" => verdict[<<c, pos[c]>>] # "none")
  BY DEF IInv, OutcomeIsOwn, Outcomes
<1>2. phase[c] = "await" /\ Proceed(c, outcome) /\ UNCHANGED <<queue, connector, tasksd, wire, answer, verdict>>
  BY DEF Await
<1> HIDE DEF outcome
<1> QED
  BY <1>1, <1>2, ProceedIInv

LEMMA AcceptIInv ==
    ASSUME IInv, Accept
    PROVE  IInv'
<1> USE DEF IInv
<1>1. TypeOK'
  BY SMT DEF Accept, TypeOK, clients, tasksd
<1>2. AtTask'
  BY DEF Accept, AtTask, clients, tasksd
<1>3. Custody'
  <2>1. \A d \in Clients, j \in 1..5 : Ahead(d, j)' => Ahead(d, j)
    BY DEF Accept, clients, Ahead
  <2> QED
    BY <2>1, CustodySame DEF Accept
<1>4. Connection'
  BY DEF Accept, Connection, tasksd
<1>5. OutcomeIsOwn' /\ Served'
  BY DEF Accept, OutcomeIsOwn, Served, clients
<1> QED
  BY <1>1, <1>2, <1>3, <1>4, <1>5

\* The head of the channel is sent, goes back to its end, or is dropped.
LEMMA SendTaskIInv ==
    ASSUME IInv, SendTask
    PROVE  IInv'
<1> USE DEF IInv
<1> DEFINE id == Head(queue)
           rest == Tail(queue)
<1>1. /\ hand = "recv" /\ queue # << >> /\ inhand = NoTask /\ wire = NoTask /\ answer = "none"
      /\ tphase # "reply"
      /\ UNCHANGED <<kind, prog, pos, phase, resp, accepted, tasksd, answer, verdict>>
  BY DEF SendTask, Connection
<1>2. /\ id \in Ids /\ id \in Members(queue) /\ verdict[id] = "none"
      /\ rest \in Seq(Ids) /\ Len(rest) = Len(queue) - 1 /\ Len(queue) \in Nat
      /\ Members(rest) \subseteq Members(queue)
      /\ Distinct(rest) /\ id \notin Members(rest)
  <2>1. queue \in Seq(Ids) /\ Distinct(queue) /\ Len(queue) \in Nat
    BY SMT DEF TypeOK, Custody
  <2>2. \A m \in Members(queue) : verdict[m] = "none"
    BY DEF Custody
  <2> QED
    BY <1>1, <2>1, <2>2, TailMembers
<1>3. \A d \in Clients, j \in 1..5 : Ahead(d, j)' <=> Ahead(d, j)
  BY <1>1 DEF Ahead
<1>4. id[1] \in Clients /\ id # NoTask
  BY <1>2, PairsAreIds
<1>5. AtTask' /\ Served'
  BY <1>1 DEF AtTask, Served, tasksd
<1> HIDE DEF id, rest
<1>6. CASE Live
  <2>1. queue' = rest /\ wire' = id /\ inhand' = id /\ hand' = "wait" /\ shot' = shot
    BY <1>6 DEF SendTask, id, rest
  <2>2. TypeOK'
    BY <1>1, <1>2, <2>1, QueueAssumption, SMT DEF TypeOK, tasksd
  <2>3. Custody'
    <3>1. Members(queue)' = Members(rest) /\ Distinct(queue)'
      BY <1>2, <2>1
    <3>2. \A m \in Members(queue)' : verdict'[m] = "none" /\ m # inhand'
      BY <1>1, <1>2, <2>1, <3>1 DEF Custody
    <3>3. \A d \in Clients, j \in 1..5 :
             Ahead(d, j)' => /\ verdict'[<<d, j>>] = "none"
                             /\ <<d, j>> # inhand'
                             /\ <<d, j>> \notin Members(queue)'
      BY <1>1, <1>2, <1>3, <2>1, <3>1 DEF Custody
    <3> QED
      BY <3>1, <3>2, <3>3 DEF Custody
  <2>4. Connection' /\ OutcomeIsOwn'
    BY <1>1, <1>2, <1>4, <2>1 DEF Connection, OutcomeIsOwn, tasksd
  <2> QED
    BY <1>5, <2>2, <2>3, <2>4
<1>7. CASE ~Live
  <2>1. /\ hand' = "accept" /\ UNCHANGED <<wire, inhand>>
        /\ \/ queue' = Append(rest, id) /\ shot' = shot
           \/ queue' = rest /\ (shot' = shot \/ shot' = [shot EXCEPT ![id[1]] = "closed"])
    BY <1>7 DEF SendTask, Resolve, id, rest
  <2>2. /\ queue' \in Seq(Ids) /\ Len(queue') <= Len(queue) /\ Len(queue') \in Nat
        /\ Distinct(queue)' /\ Members(queue)' \subseteq Members(queue)
    <3>1. /\ Append(rest, id) \in Seq(Ids) /\ Len(Append(rest, id)) = Len(rest) + 1
          /\ Members(Append(rest, id)) = Members(rest) \cup {id}
          /\ Distinct(Append(rest, id))
      <4>1. rest \in Seq(Ids) /\ id \in Ids /\ Distinct(rest) /\ id \notin Members(rest)
        BY <1>2
      <4> QED
        BY <4>1, AppendTask DEF Appended
    <3>2. CASE queue' = Append(rest, id)
      BY <1>2, <3>1, <3>2, SMT
    <3>3. CASE queue' = rest
      BY <1>2, <3>3, SMT
    <3> QED
      BY <2>1, <3>2, <3>3
  <2>3. shot' \in [Clients -> Outcomes \cup {"closed", "open"}]
    BY <2>1 DEF TypeOK
  <2>4. \A d \in Clients : shot'[d] \in Outcomes => shot'[d] = shot[d]
    BY <1>4, <2>1 DEF TypeOK, Outcomes
  <2>5. TypeOK'
    BY <1>1, <2>1, <2>2, <2>3, QueueAssumption, SMT DEF TypeOK, tasksd
  <2>6. Custody'
    <3>1. \A m \in Members(queue)' : verdict'[m] = "none" /\ m # inhand'
      BY <1>1, <2>1, <2>2 DEF Custody
    <3>2. \A d \in Clients, j \in 1..5 :
             Ahead(d, j)' => /\ verdict'[<<d, j>>] = "none"
                             /\ <<d, j>> # inhand'
                             /\ <<d, j>> \notin Members(queue)'
      BY <1>1, <1>3, <2>1, <2>2 DEF Custody
    <3> QED
      BY <2>2, <3>1, <3>2 DEF Custody
  <2>7. Connection'
    BY <1>1, <2>1 DEF Connection, tasksd
  <2>8. OutcomeIsOwn'
    BY <1>1, <2>4 DEF OutcomeIsOwn
  <2> QED
    BY <1>5, <2>5, <2>6, <2>7, <2>8
<1> QED
  BY <1>6, <1>7

\* The answer is about the request in hand, so that its connection, if it still
\* waits, gets its own outcome.
LEMMA TakeAnswerIInv ==
    ASSUME IInv, TakeAnswer
    PROVE  IInv'
<1> USE DEF IInv
<1>1. /\ answer # "none" /\ inhand \in Ids /\ verdict[inhand] = answer /\ wire = NoTask
      /\ tphase # "reply" /\ hand' = "recv" /\ inhand' = NoTask /\ answer' = "none"
      /\ UNCHANGED <<kind, prog, pos, phase, resp, queue, accepted, tasksd, wire, verdict>>
  BY DEF TakeAnswer, Connection, TypeOK
<1>2. TaskOutcome(answer) \in Outcomes
  BY <1>1 DEF TypeOK, TaskOutcome, Outcomes
<1>3. inhand = <<inhand[1], inhand[2]>> /\ inhand[1] \in Clients
  BY <1>1, PairsAreIds
<1>4. \/ shot' = shot
      \/ /\ shot' = [shot EXCEPT ![inhand[1]] = TaskOutcome(answer)]
         /\ pos[inhand[1]] = inhand[2]
  BY DEF TakeAnswer, Resolve, Waits
<1>5. TypeOK'
  <2>1. shot' \in [Clients -> Outcomes \cup {"closed", "open"}]
    BY <1>2, <1>4 DEF TypeOK
  <2> QED
    BY <1>1, <2>1 DEF TypeOK, tasksd
<1>6. OutcomeIsOwn'
  <2>1. CASE shot' = shot
    BY <1>1, <2>1 DEF OutcomeIsOwn
  <2>2. CASE /\ shot' = [shot EXCEPT ![inhand[1]] = TaskOutcome(answer)]
             /\ pos[inhand[1]] = inhand[2]
    <3>1. \A d \in Clients \ {inhand[1]} : shot'[d] = shot[d]
      BY <2>2 DEF TypeOK
    <3>2. shot'[inhand[1]] = TaskOutcome(verdict[<<inhand[1], pos[inhand[1]]>>])
          /\ verdict[<<inhand[1], pos[inhand[1]]>>] # "none"
      BY <1>1, <1>3, <2>2 DEF TypeOK
    <3> QED
      BY <1>1, <3>1, <3>2 DEF OutcomeIsOwn
  <2> QED
    BY <1>4, <2>1, <2>2
<1>7. AtTask' /\ Served'
  BY <1>1 DEF AtTask, Served, tasksd
<1>8. Custody'
  BY <1>1, HandEmptied DEF TypeOK
<1>9. Connection'
  BY <1>1 DEF Connection, tasksd
<1> QED
  BY <1>5, <1>6, <1>7, <1>8, <1>9

\* The request in hand is dropped: it is nowhere any more.
LEMMA LoseConnectionIInv ==
    ASSUME IInv, LoseConnection
    PROVE  IInv'
<1> USE DEF IInv
<1>1. /\ inhand \in Ids /\ answer = "none" /\ tphase # "reply"
      /\ wire' = NoTask /\ hand' = "accept" /\ inhand' = NoTask
      /\ UNCHANGED <<kind, prog, pos, phase, resp, queue, accepted, tasksd, answer, verdict>>
  BY DEF LoseConnection, Connection, TypeOK, Live
<1>2. inhand[1] \in Clients
  BY <1>1, PairsAreIds
<1>3. shot' = shot \/ shot' = [shot EXCEPT ![inhand[1]] = "closed"]
  BY DEF LoseConnection, Resolve
<1>4. TypeOK'
  <2>1. shot' \in [Clients -> Outcomes \cup {"closed", "open"}]
    BY <1>3 DEF TypeOK
  <2> QED
    BY <1>1, <2>1 DEF TypeOK, tasksd
<1>5. OutcomeIsOwn'
  <2>1. \A d \in Clients : shot'[d] \in Outcomes => shot'[d] = shot[d]
    BY <1>2, <1>3 DEF TypeOK, Outcomes
  <2> QED
    BY <1>1, <2>1 DEF OutcomeIsOwn
<1>6. AtTask' /\ Served'
  BY <1>1 DEF AtTask, Served, tasksd
<1>7. Custody'
  BY <1>1, HandEmptied DEF TypeOK
<1>8. Connection'
  BY <1>1 DEF Connection, tasksd
<1> QED
  BY <1>4, <1>5, <1>6, <1>7, <1>8

\* The tasks daemon connects, and is not in the middle of a task.
LEMMA ConnectIInv ==
    ASSUME IInv, Connect
    PROVE  IInv'
<1> USE DEF IInv
<1>1. TypeOK'
  BY QueueAssumption, SMT DEF Connect, TypeOK, AtTask, clients, connector
<1>2. AtTask' /\ Connection' /\ OutcomeIsOwn' /\ Served'
  BY DEF Connect, AtTask, Connection, OutcomeIsOwn, Served, clients, connector
<1>3. Custody'
  <2>1. \A d \in Clients, j \in 1..5 : Ahead(d, j)' => Ahead(d, j)
    BY DEF Connect, clients, Ahead
  <2> QED
    BY <2>1, CustodySame DEF Connect, connector
<1> QED
  BY <1>1, <1>2, <1>3

\* Only the request in hand is executed, and it has no verdict yet.
LEMMA ExecuteTaskIInv ==
    ASSUME IInv, ExecuteTask
    PROVE  IInv'
<1> USE DEF IInv
<1>1. /\ wire \in Ids /\ wire = inhand /\ answer = "none" /\ verdict[wire] = "none"
      /\ accepted = connected /\ tphase = "idle"
      /\ tcur' = wire /\ wire' = NoTask /\ tphase' = "reply"
      /\ UNCHANGED <<clients, queue, connector, connected, answer>>
  BY DEF ExecuteTask, Connection, Live, TypeOK
<1>2. PICK a \in Answers(prog[wire[1]][wire[2]]) : verdict' = [verdict EXCEPT ![wire] = a]
  BY DEF ExecuteTask
<1>3. a \in {"0", "1", "2", "error", "noncompliant"}
  BY <1>2 DEF Answers
<1>4. /\ verdict' \in [Ids -> {"none", "0", "1", "2", "error", "noncompliant"}]
      /\ \A id \in Ids \ {wire} : verdict'[id] = verdict[id]
      /\ verdict'[wire] # "none"
  BY <1>1, <1>2, <1>3 DEF TypeOK
<1>5. TypeOK'
  BY <1>1, <1>4 DEF TypeOK, clients, connector
<1>6. AtTask'
  BY <1>1 DEF AtTask, clients
<1>7. Custody'
  <2>1. Distinct(queue)' /\ Members(queue)' = Members(queue)
    BY <1>1 DEF Custody, Distinct, Members
  <2>2. \A d \in Clients, j \in 1..5 : (Ahead(d, j)' <=> Ahead(d, j)) /\ <<d, j>> \in Ids
    BY <1>1, PairsAreIds DEF Ahead, clients
  <2>3. \A m \in Members(queue) : m \in Ids /\ m # wire
    <3>1. \A i \in 1..Len(queue) : queue[i] \in Ids
      BY SMT DEF TypeOK
    <3> QED
      BY <1>1, <3>1 DEF Members, Custody
  <2>4. \A m \in Members(queue)' : verdict'[m] = "none" /\ m # inhand'
    BY <1>1, <1>4, <2>1, <2>3 DEF Custody, connector
  <2>5. \A d \in Clients, j \in 1..5 :
           Ahead(d, j)' => /\ verdict'[<<d, j>>] = "none"
                           /\ <<d, j>> # inhand'
                           /\ <<d, j>> \notin Members(queue)'
    BY <1>1, <1>4, <2>1, <2>2 DEF Custody, connector
  <2> QED
    BY <2>1, <2>4, <2>5 DEF Custody
<1>8. Connection'
  BY <1>1, <1>4, PairsAreIds DEF Connection, connector
<1>9. OutcomeIsOwn'
  <2>1. \A d \in Clients : <<d, pos[d]>> \in Ids
    BY PairsAreIds DEF TypeOK
  <2> QED
    BY <1>1, <1>4, <2>1 DEF OutcomeIsOwn, clients
<1>10. Served'
  <2>1. \A d \in Clients, j \in 1..2 : verdict[<<d, j>>] # "none" => verdict'[<<d, j>>] # "none"
    <3>1. \A d \in Clients, j \in 1..2 : <<d, j>> \in Ids
      BY SMT DEF Ids
    <3> QED
      BY <1>1, <1>4, <3>1
  <2> QED
    BY <1>1, <2>1 DEF Served, clients
<1> QED
  BY <1>5, <1>6, <1>7, <1>8, <1>9, <1>10

LEMMA ReplyTaskIInv ==
    ASSUME IInv, ReplyTask
    PROVE  IInv'
<1> USE DEF IInv
<1>1. TypeOK'
  BY DEF ReplyTask, TypeOK, Connection, clients, connector
<1>2. AtTask' /\ OutcomeIsOwn' /\ Served'
  BY DEF ReplyTask, AtTask, OutcomeIsOwn, Served, clients
<1>3. Connection'
  BY DEF ReplyTask, Connection, connector
<1>4. Custody'
  <2>1. \A d \in Clients, j \in 1..5 : Ahead(d, j)' => Ahead(d, j)
    BY DEF ReplyTask, clients, Ahead
  <2> QED
    BY <2>1, CustodySame DEF ReplyTask, connector
<1> QED
  BY <1>1, <1>2, <1>3, <1>4

LEMMA CrashIInv ==
    ASSUME IInv, Crash
    PROVE  IInv'
<1> USE DEF IInv
<1>1. TypeOK'
  BY DEF Crash, TypeOK, clients, connector
<1>2. AtTask' /\ Connection' /\ OutcomeIsOwn' /\ Served'
  BY DEF Crash, AtTask, Connection, OutcomeIsOwn, Served, clients, connector
<1>3. Custody'
  <2>1. \A d \in Clients, j \in 1..5 : Ahead(d, j)' => Ahead(d, j)
    BY DEF Crash, clients, Ahead
  <2> QED
    BY <2>1, CustodySame DEF Crash, connector
<1> QED
  BY <1>1, <1>2, <1>3

LEMMA StutterIInv ==
    ASSUME IInv, UNCHANGED vars
    PROVE  IInv'
<1> USE DEF IInv, vars, clients, connector, tasksd
<1>1. TypeOK'
  BY DEF TypeOK
<1>2. AtTask' /\ Connection' /\ OutcomeIsOwn' /\ Served'
  BY DEF AtTask, Connection, OutcomeIsOwn, Served
<1>3. Custody'
  <2>1. \A d \in Clients, j \in 1..5 : Ahead(d, j)' => Ahead(d, j)
    BY DEF Ahead
  <2> QED
    BY <2>1, CustodySame
<1> QED
  BY <1>1, <1>2, <1>3

LEMMA NextIInv == IInv /\ [Next]_vars => IInv'
<1> SUFFICES ASSUME IInv, [Next]_vars PROVE IInv'
  OBVIOUS
<1>1. ASSUME NEW c \in Clients, Arrive(c) \/ Submit(c) \/ Await(c) PROVE IInv'
  BY <1>1, ArriveIInv, SubmitIInv, AwaitIInv
<1>2. CASE Connector
  BY <1>2, AcceptIInv, SendTaskIInv, TakeAnswerIInv, LoseConnectionIInv DEF Connector
<1>3. CASE TasksDaemon
  BY <1>3, ConnectIInv, ExecuteTaskIInv, ReplyTaskIInv DEF TasksDaemon
<1>4. CASE Crash
  BY <1>4, CrashIInv
<1>5. CASE UNCHANGED vars
  BY <1>5, StutterIInv
<1> QED
  BY <1>1, <1>2, <1>3, <1>4, <1>5 DEF Next

----------------------------------------------------------------------------
(* The theorems.                                                           *)

\* The inductive invariant holds in every behaviour of the daemons.
THEOREM Invariance == Spec => []IInv
BY InitIInv, NextIInv, PTL DEF Spec

\* The state stays within its types: the channel of himmelblaud never holds more
\* requests than its capacity, and no request goes past the end of its tasks.
THEOREM TypeCorrect == Spec => []TypeOK
<1>1. IInv => TypeOK
  BY DEF IInv
<1> QED
  BY <1>1, Invariance, PTL

\* handle_task_client gives a request the outcome of its own task and of no other.
THEOREM OutcomesAreOwn == Spec => []OutcomeIsOwn
<1>1. IInv => OutcomeIsOwn
  BY DEF IInv
<1> QED
  BY <1>1, Invariance, PTL

\* No task that handle_task_client sends has been executed before.
THEOREM SentAtMostOnce == Spec => []AtMostOnce
<1>1. IInv => AtMostOnce
  BY DEF IInv, Connection, AtMostOnce
<1> QED
  BY <1>1, Invariance, PTL

\* The tasks daemon never executes a task again: what a task answered stays.
THEOREM ExecutedOnce ==
    Spec => [][\A id \in Ids : verdict[id] # "none" => verdict'[id] = verdict[id]]_vars
<1> DEFINE Kept == \A id \in Ids : verdict[id] # "none" => verdict'[id] = verdict[id]
<1>1. IInv /\ [Next]_vars => [Kept]_vars
  <2> SUFFICES ASSUME IInv, Next PROVE Kept
    OBVIOUS
  <2>1. CASE ExecuteTask
    <3>1. wire \in Ids /\ verdict[wire] = "none"
      BY <2>1 DEF ExecuteTask, IInv, TypeOK, Connection
    <3>2. \E a \in Answers(prog[wire[1]][wire[2]]) : verdict' = [verdict EXCEPT ![wire] = a]
      BY <2>1 DEF ExecuteTask
    <3> QED
      BY <3>1, <3>2 DEF IInv, TypeOK
  <2>2. CASE ~ExecuteTask
    <3>1. UNCHANGED verdict
      BY <2>2 DEF Next, Arrive, Submit, Await, Connector, Accept, SendTask, TakeAnswer, LoseConnection,
                  TasksDaemon, Connect, ReplyTask, Crash
    <3> QED
      BY <3>1
  <2> QED
    BY <2>1, <2>2
<1> QED
  BY <1>1, Invariance, PTL DEF Spec

\* PamAccountBeginSession is answered with Ok only after the tasks daemon has dealt
\* with the home directory and the local groups.
THEOREM SessionsWereServed == Spec => []SessionWasServed
<1>1. IInv => SessionWasServed
  <2> SUFFICES ASSUME IInv, NEW c \in Clients, phase[c] = "done", kind[c] = "begin", resp[c] = "Ok"
               PROVE  verdict[<<c, 1>>] # "none" /\ verdict[<<c, 2>>] # "none"
    BY DEF SessionWasServed
  <2>1. pos[c] = 3 /\ \A j \in 1..2 : j < pos[c] => verdict[<<c, j>>] # "none"
    BY DEF IInv, Served
  <2> QED
    BY <2>1, SMT
<1> QED
  BY <1>1, Invariance, PTL

----------------------------------------------------------------------------
(* The queue implements TaskService.                                       *)

Serves == [S!ServiceNext]_(S!service)

\* One task changes its state.
LEMMA TaskBecomes ==
    ASSUME NEW x \in Ids, NEW v, TaskState(x)' = v,
           \A y \in Ids \ {x} : TaskState(y)' = TaskState(y)
    PROVE  Task' = [Task EXCEPT ![x] = v]
BY DEF Task

\* Tasks keep their state when neither the requests nor the places of tasks change.
LEMMA TasksSame ==
    ASSUME UNCHANGED <<pos, phase, queue, wire, verdict>>
    PROVE  Task' = Task /\ At' = At
<1>1. \A y \in Ids : TaskState(y)' = TaskState(y)
  BY DEF TaskState, Ahead, Members
<1> QED
  BY <1>1 DEF Task, At

\* Requests, channel and socket are as before: nothing that the service shows.
LEMMA SameServes ==
    ASSUME UNCHANGED <<pos, phase, shot, queue, wire, verdict>>
    PROVE  Serves
<1>1. Told' = Told
  BY DEF Told
<1> QED
  BY <1>1, TasksSame DEF Serves, S!service

\* A task that has not been submitted is new, and only that.
LEMMA NewTask ==
    ASSUME IInv, NEW c \in Clients, NEW j \in 1..5
    PROVE  /\ <<c, j>> \in Ids
           /\ TaskState(<<c, j>>) = "new" <=> Ahead(c, j)
           /\ Ahead(c, j) => /\ <<c, j>> # wire /\ <<c, j>> \notin Members(queue)
                             /\ verdict[<<c, j>>] = "none"
<1>1. <<c, j>> \in Ids /\ <<c, j>> # NoTask /\ <<c, j>>[1] = c /\ <<c, j>>[2] = j
  BY PairsAreIds
<1>2. verdict[<<c, j>>] # "new"
  BY <1>1 DEF IInv, TypeOK
<1>3. TaskState(<<c, j>>) = "new" <=> Ahead(c, j)
  BY <1>1, <1>2 DEF TaskState
<1>4. Ahead(c, j) => <<c, j>> # wire
  BY <1>1 DEF IInv, Custody, Connection
<1> QED
  BY <1>1, <1>3, <1>4 DEF IInv, Custody

\* The request goes on from its task, whether that was submitted or not.
LEMMA GoesOn ==
    ASSUME IInv, NEW c \in Clients, phase[c] \in {"idle", "submit", "await"},
           At' = [At EXCEPT ![c] = pos[c] + 1], Told' = [Told EXCEPT ![c] = "none"],
           shot[c] \in Outcomes => phase[c] = "await",
           UNCHANGED <<queue, wire, verdict>>,
           \A d \in Clients, j \in 1..5 : Ahead(d, j)' <=> Ahead(d, j) /\ <<d, j>> # <<c, pos[c]>>
    PROVE  Serves
<1>1. pos[c] \in 1..5 /\ At[c] = pos[c] /\ <<c, pos[c]>> \in Ids
  BY PairsAreIds DEF IInv, TypeOK, At
<1>2. PICK id \in Ids : id = <<c, pos[c]>> /\ id[1] = c /\ id[2] = pos[c]
  BY <1>1
<1>3. Members(queue)' = Members(queue)
  BY DEF Members
<1>4. \A y \in Ids : Ahead(y[1], y[2])' <=> Ahead(y[1], y[2]) /\ y # id
  BY <1>2, PairsAreIds
<1>5. \A y \in Ids \ {id} : TaskState(y)' = TaskState(y)
  BY <1>3, <1>4 DEF TaskState
<1>6. Task[id] = TaskState(id) /\ (TaskState(id) = "new" <=> Ahead(c, pos[c]))
  BY <1>1, <1>2, NewTask DEF Task
<1>7. CASE phase[c] = "await"
  <2>1. ~Ahead(c, pos[c])
    BY <1>1, <1>7, SMT DEF Ahead
  <2>2. TaskState(id)' = TaskState(id)
    BY <1>2, <1>3, <1>4, <2>1 DEF TaskState
  <2>3. Task' = Task
    BY <1>5, <2>2 DEF Task
  <2>4. S!GoOn(c)
    BY <1>1, <1>2, <1>6, <2>1, <2>3 DEF S!GoOn
  <2> QED
    BY <2>4 DEF Serves, S!ServiceNext
<1>8. CASE phase[c] # "await"
  <2>1. Ahead(c, pos[c])
    BY <1>8 DEF Ahead
  <2>2. id # wire /\ id \notin Members(queue) /\ verdict[id] = "none"
    BY <1>1, <1>2, <2>1, NewTask
  <2>3. TaskState(id)' = "dropped"
    BY <1>3, <1>4, <2>2 DEF TaskState
  <2>4. Told' = Told
    BY <1>8 DEF Told
  <2>5. Task' = [Task EXCEPT ![id] = "dropped"]
    BY <1>5, <2>3, TaskBecomes
  <2>6. S!Refuse(c)
    BY <1>1, <1>2, <1>6, <2>1, <2>4, <2>5 DEF S!Refuse
  <2> QED
    BY <2>6 DEF Serves, S!ServiceNext
<1> QED
  BY <1>7, <1>8

\* A request that is not waiting has no outcome.
NoneEarly == \A c \in Clients : phase[c] # "await" => shot[c] = "closed"
\* A oneshot exists only while its request waits: Submit opens it, Proceed and a
\* dropped sender close it, and an outcome goes to a request that waits.
LEMMA NoneEarlyStep == ASSUME IInv, NoneEarly, [Next]_vars PROVE NoneEarly'
<1>1. CASE UNCHANGED <<phase, shot>>
  BY <1>1 DEF NoneEarly
<1>2. ASSUME NEW c \in Clients, Arrive(c) PROVE NoneEarly'
  BY <1>2 DEF Arrive, NoneEarly, IInv, TypeOK
<1>3. ASSUME NEW c \in Clients, NEW outcome, Proceed(c, outcome) PROVE NoneEarly'
  <2>1. \A d \in Clients \ {c} : phase'[d] = phase[d] /\ shot'[d] = shot[d]
    BY <1>3 DEF Proceed, IInv, TypeOK
  <2>2. shot'[c] = "closed"
    BY <1>3 DEF Proceed, IInv, TypeOK
  <2> QED
    BY <2>1, <2>2 DEF NoneEarly
<1>4. ASSUME NEW c \in Clients, Submit(c) PROVE NoneEarly'
  <2>1. CASE shot' = [shot EXCEPT ![c] = "open"] /\ phase' = [phase EXCEPT ![c] = "await"]
    BY <2>1 DEF NoneEarly, IInv, TypeOK
  <2> QED
    BY <1>3, <1>4, <2>1 DEF Submit
<1>5. ASSUME NEW c \in Clients, Await(c) PROVE NoneEarly'
  BY <1>3, <1>5 DEF Await
<1>6. ASSUME NEW id \in Ids, NEW value, Resolve(id, value), UNCHANGED phase PROVE NoneEarly'
  <2>1. id[1] \in Clients
    BY PairsAreIds
  <2> QED
    BY <1>6, <2>1 DEF Resolve, Waits, NoneEarly, IInv, TypeOK
<1>7. CASE SendTask
  <2>1. Head(queue) \in Ids
    BY <1>7, TailMembers DEF SendTask, IInv, TypeOK
  <2> QED
    BY <1>1, <1>6, <1>7, <2>1 DEF SendTask
<1>8. CASE TakeAnswer \/ LoseConnection
  <2>1. inhand \in Ids
    BY <1>8 DEF TakeAnswer, LoseConnection, IInv, TypeOK, Connection
  <2> QED
    BY <1>6, <1>8, <2>1 DEF TakeAnswer, LoseConnection
<1>9. CASE Accept \/ TasksDaemon \/ Crash \/ UNCHANGED vars
  <2>1. UNCHANGED <<phase, shot>>
    BY <1>9 DEF Accept, TasksDaemon, Connect, ExecuteTask, ReplyTask, Crash, vars, clients
  <2> QED
    BY <1>1, <2>1
<1> QED
  BY <1>2, <1>4, <1>5, <1>7, <1>8, <1>9 DEF Next, Connector

\* A request that has nothing to submit is done without a task; otherwise it is
\* at its first task, which is still new.
LEMMA ArriveServes == ASSUME IInv, NoneEarly, NEW c \in Clients, Arrive(c) PROVE Serves
<1>1. /\ phase[c] = "idle" /\ pos[c] = 1
      /\ UNCHANGED <<pos, shot, queue, wire, verdict>>
      /\ phase' = [phase EXCEPT ![c] = IF prog'[c] = << >> THEN "done" ELSE "submit"]
  BY DEF Arrive, IInv, AtTask
<1>2. Told' = Told /\ Told = [Told EXCEPT ![c] = "none"] /\ shot[c] = "closed"
  BY <1>1 DEF Told, NoneEarly, Outcomes
<1>3. CASE phase'[c] = "done"
  <2>1. phase' = [phase EXCEPT ![c] = "done"]
    BY <1>1, <1>3 DEF IInv, TypeOK
  <2>2. At' = [At EXCEPT ![c] = pos[c] + 1]
    BY <1>1, <2>1 DEF At, IInv, TypeOK
  <2>3. \A d \in Clients, j \in 1..5 : Ahead(d, j)' <=> Ahead(d, j) /\ <<d, j>> # <<c, pos[c]>>
    BY <1>1, <2>1, SMT DEF Ahead, IInv, TypeOK
  <2> QED
    BY <1>1, <1>2, <2>2, <2>3, GoesOn DEF Outcomes
<1>4. CASE phase'[c] = "submit"
  <2>1. phase' = [phase EXCEPT ![c] = "submit"]
    BY <1>1, <1>4 DEF IInv, TypeOK
  <2>2. At' = At
    BY <1>1, <2>1 DEF At, IInv, TypeOK
  <2>3. \A d \in Clients, j \in 1..5 : Ahead(d, j)' <=> Ahead(d, j)
    BY <1>1, <2>1, SMT DEF Ahead, IInv, TypeOK
  <2>4. \A y \in Ids : TaskState(y)' = TaskState(y)
    BY <1>1, <2>3, PairsAreIds DEF TaskState, Members
  <2>5. Task' = Task
    BY <2>4 DEF Task
  <2> QED
    BY <1>2, <2>2, <2>5 DEF Serves, S!service
<1> QED
  BY <1>1, <1>3, <1>4 DEF IInv, TypeOK

\* What Proceed does to a request is a step of the service.
LEMMA ProceedServes ==
    ASSUME IInv, NoneEarly, NEW c \in Clients, NEW outcome \in Outcomes \cup {"none"},
           phase[c] \in {"submit", "await"}, Proceed(c, outcome), UNCHANGED <<queue, wire, verdict>>
    PROVE  Serves
<1>1. pos[c] \in 1..5 /\ (shot[c] \in Outcomes => phase[c] = "await")
  BY DEF IInv, TypeOK, NoneEarly, Outcomes
<1>2. shot' = [shot EXCEPT ![c] = "closed"]
  BY DEF Proceed
<1>3. Told' = [Told EXCEPT ![c] = "none"]
  BY <1>2 DEF Told, IInv, TypeOK, Outcomes
<1>4. \/ phase' = [phase EXCEPT ![c] = "done"] /\ pos' = pos
      \/ phase' = [phase EXCEPT ![c] = "submit"] /\ pos' = [pos EXCEPT ![c] = pos[c] + 1]
  BY DEF Proceed
<1>5. At' = [At EXCEPT ![c] = pos[c] + 1]
  <2>1. \A d \in Clients : At'[d] = IF d = c THEN pos[c] + 1 ELSE At[d]
    BY <1>4 DEF At, IInv, TypeOK
  <2> QED
    BY <2>1 DEF At
<1>6. \A d \in Clients, j \in 1..5 : Ahead(d, j)' <=> Ahead(d, j) /\ <<d, j>> # <<c, pos[c]>>
  <2>1. ASSUME NEW d \in Clients, NEW j \in 1..5, d # c PROVE Ahead(d, j)' <=> Ahead(d, j)
    BY <1>4, <2>1 DEF Ahead, IInv, TypeOK
  <2>2. ASSUME NEW j \in 1..5 PROVE Ahead(c, j)' <=> Ahead(c, j) /\ j # pos[c]
    BY <1>1, <1>4, SMT DEF Ahead, IInv, TypeOK
  <2> QED
    BY <2>1, <2>2
<1> QED
  BY <1>1, <1>3, <1>5, <1>6, GoesOn

\* A task that finds room is handed over; one that does not is refused.
LEMMA SubmitServes == ASSUME IInv, NoneEarly, NEW c \in Clients, Submit(c) PROVE Serves
<1>1. phase[c] = "submit" /\ UNCHANGED <<wire, verdict>> /\ pos[c] \in 1..5
  BY DEF Submit, IInv, TypeOK
<1>2. CASE Proceed(c, "none") /\ UNCHANGED queue
  <2>1. phase[c] \in {"submit", "await"} /\ UNCHANGED <<queue, wire, verdict>>
    BY <1>1, <1>2
  <2> QED
    BY <1>2, <2>1, ProceedServes
<1>3. CASE /\ queue' = Append(queue, <<c, pos[c]>>) /\ shot' = [shot EXCEPT ![c] = "open"]
           /\ phase' = [phase EXCEPT ![c] = "await"] /\ UNCHANGED pos
  <2>1. Ahead(c, pos[c]) /\ At[c] = pos[c]
    BY <1>1 DEF Ahead, At
  <2>2. PICK id \in Ids : id = <<c, pos[c]>> /\ id[1] = c /\ id[2] = pos[c]
    BY <1>1, PairsAreIds
  <2>3. id # wire /\ id \notin Members(queue) /\ Task[id] = "new"
    BY <1>1, <2>1, <2>2, NewTask DEF Task
  <2>4. Members(queue)' = Members(queue) \cup {id}
    <3>1. queue \in Seq(Ids) /\ Distinct(queue)
      BY DEF IInv, TypeOK, Custody
    <3> QED
      BY <1>3, <2>2, <2>3, <3>1, AppendTask DEF Appended
  <2>5. \A d \in Clients, j \in 1..5 : Ahead(d, j)' <=> Ahead(d, j) /\ <<d, j>> # <<c, pos[c]>>
    <3>1. ASSUME NEW d \in Clients, NEW j \in 1..5, d # c PROVE Ahead(d, j)' <=> Ahead(d, j)
      BY <1>3, <3>1 DEF Ahead, IInv, TypeOK
    <3>2. ASSUME NEW j \in 1..5 PROVE Ahead(c, j)' <=> Ahead(c, j) /\ j # pos[c]
      BY <1>1, <1>3, SMT DEF Ahead, IInv, TypeOK
    <3> QED
      BY <3>1, <3>2
  <2>6. \A y \in Ids : Ahead(y[1], y[2])' <=> Ahead(y[1], y[2]) /\ y # id
    BY <2>2, <2>5, PairsAreIds
  <2>7. \A y \in Ids \ {id} : TaskState(y)' = TaskState(y)
    BY <1>1, <2>4, <2>6 DEF TaskState
  <2>8. TaskState(id)' = "queued"
    BY <2>4, <2>6 DEF TaskState
  <2>9. Task' = [Task EXCEPT ![id] = "queued"]
    BY <2>7, <2>8, TaskBecomes
  <2>10. At' = At
    BY <1>1, <1>3 DEF At, IInv, TypeOK
  <2>11. Told' = Told
    BY <1>1, <1>3 DEF Told, NoneEarly, Outcomes, IInv, TypeOK
  <2>12. S!HandOver(c)
    BY <1>1, <2>1, <2>2, <2>3, <2>9, <2>10, <2>11 DEF S!HandOver
  <2> QED
    BY <2>12 DEF Serves, S!ServiceNext
<1> QED
  BY <1>2, <1>3 DEF Submit

\* The outcome is taken, or nobody waits for it any more.
LEMMA AwaitServes == ASSUME IInv, NoneEarly, NEW c \in Clients, Await(c) PROVE Serves
<1> DEFINE outcome == IF shot[c] \in Outcomes THEN shot[c] ELSE "none"
<1>1. /\ phase[c] \in {"submit", "await"} /\ outcome \in Outcomes \cup {"none"}
      /\ Proceed(c, outcome) /\ UNCHANGED <<queue, wire, verdict>>
  BY DEF Await
<1> HIDE DEF outcome
<1> QED
  BY <1>1, ProceedServes

\* What was in the channel, or on the socket, and is not any more, is dropped.
LEMMA DropServes ==
    ASSUME IInv, NEW id \in Ids, id = wire \/ id \in Members(queue),
           id # wire', id \notin Members(queue)',
           \A y \in Ids \ {id} : y = wire' \/ y \in Members(queue)' <=> y = wire \/ y \in Members(queue),
           UNCHANGED <<pos, phase, verdict>>, Told' = Told
    PROVE  Serves
<1>1. \A y \in Ids : Ahead(y[1], y[2])' <=> Ahead(y[1], y[2])
  BY DEF Ahead
<1>2. id = <<id[1], id[2]>> /\ id[1] \in Clients /\ id[2] \in 1..5
  BY PairsAreIds
<1>3. ~Ahead(id[1], id[2])
  BY <1>2, NewTask
<1>4. verdict[id] = "none"
  BY PairsAreIds DEF IInv, Custody, Connection
<1>5. TaskState(id) = "queued" /\ TaskState(id)' = "dropped"
  BY <1>1, <1>3, <1>4 DEF TaskState
<1>6. \A y \in Ids \ {id} : TaskState(y)' = TaskState(y)
  BY <1>1 DEF TaskState
<1>7. Task' = [Task EXCEPT ![id] = "dropped"] /\ Task[id] = "queued"
  BY <1>5, <1>6, TaskBecomes DEF Task
<1>8. At' = At
  BY DEF At
<1>9. S!Drop(id) /\ id \in Clients \X (1..5)
  BY <1>7, <1>8 DEF S!Drop, Ids
<1> QED
  BY <1>9 DEF Serves, S!ServiceNext

\* A task moves from the channel to the socket or to the end of the channel, or
\* is dropped.
LEMMA SendTaskServes == ASSUME IInv, SendTask PROVE Serves
<1>1. PICK id \in Ids : id = Head(queue)
  BY TailMembers DEF SendTask, IInv, TypeOK
<1>2. /\ id \notin Members(Tail(queue)) /\ Members(queue) = Members(Tail(queue)) \cup {id}
      /\ Tail(queue) \in Seq(Ids) /\ Distinct(Tail(queue))
  BY <1>1, TailMembers DEF SendTask, IInv, TypeOK, Custody
<1>3. wire = NoTask /\ id # NoTask /\ UNCHANGED <<pos, phase, verdict>>
  BY PairsAreIds DEF SendTask, IInv, Connection
<1>4. ASSUME \A y \in Ids : y = wire' \/ y \in Members(queue)' <=> y = wire \/ y \in Members(queue),
             shot' = shot
      PROVE  Serves
  <2>1. \A y \in Ids : Ahead(y[1], y[2])' <=> Ahead(y[1], y[2])
    BY <1>3 DEF Ahead
  <2>2. \A y \in Ids : TaskState(y)' = TaskState(y)
    BY <1>3, <1>4, <2>1 DEF TaskState
  <2>3. Task' = Task /\ At' = At /\ Told' = Told
    BY <1>3, <1>4, <2>2 DEF Task, At, Told
  <2> QED
    BY <2>3 DEF Serves, S!service
<1>5. CASE queue' = Tail(queue) /\ wire' = id /\ shot' = shot
  <2>1. Members(queue)' = Members(Tail(queue))
    BY <1>5
  <2>2. \A y \in Ids : y # NoTask
    BY PairsAreIds
  <2> QED
    BY <1>2, <1>3, <1>4, <1>5, <2>1, <2>2
<1>6. CASE queue' = Append(Tail(queue), id) /\ UNCHANGED <<shot, wire>>
  <2>1. Members(Append(Tail(queue), id)) = Members(queue)
    BY <1>2, AppendTask DEF Appended
  <2>2. Members(queue)' = Members(queue)
    BY <1>6, <2>1
  <2> QED
    BY <1>4, <1>6, <2>2
<1>7. CASE queue' = Tail(queue) /\ Resolve(id, "closed") /\ UNCHANGED wire
  <2>1. Told' = Told
    BY <1>7, PairsAreIds DEF Told, Resolve, Waits, Outcomes, IInv, TypeOK
  <2>2. Members(queue)' = Members(Tail(queue))
    BY <1>7
  <2>3. /\ id # wire' /\ id \notin Members(queue)'
        /\ \A y \in Ids \ {id} : y = wire' \/ y \in Members(queue)' <=> y = wire \/ y \in Members(queue)
    BY <1>2, <1>3, <1>7, <2>2
  <2> QED
    BY <1>2, <1>3, <2>1, <2>3, DropServes
<1> QED
  BY <1>1, <1>5, <1>6, <1>7 DEF SendTask

\* The answer is the result of the request in hand: who waits for it is told the
\* outcome of the task it is at.
LEMMA TakeAnswerServes == ASSUME IInv, TakeAnswer PROVE Serves
<1>1. /\ answer # "none" /\ inhand \in Ids /\ verdict[inhand] = answer /\ wire = NoTask
      /\ UNCHANGED <<pos, phase, queue, wire, verdict>>
  BY DEF TakeAnswer, IInv, Connection, TypeOK
<1>2. PICK c \in Clients, j \in 1..5 : inhand = <<c, j>> /\ inhand[1] = c /\ inhand[2] = j
  BY <1>1, PairsAreIds
<1>3. Task' = Task /\ At' = At
  BY <1>1, TasksSame
<1>4. CASE ~Waits(inhand)
  BY <1>1, <1>4, SameServes DEF TakeAnswer, Resolve
<1>5. CASE Waits(inhand)
  <2>1. phase[c] = "await" /\ pos[c] = j /\ shot[c] = "open" /\ At[c] = j
    BY <1>2, <1>5 DEF Waits, At
  <2>2. shot' = [shot EXCEPT ![c] = TaskOutcome(answer)] /\ TaskOutcome(answer) \in Outcomes
    BY <1>1, <1>2, <1>5 DEF TakeAnswer, Resolve, TaskOutcome, Outcomes, IInv, TypeOK
  <2>3. ~Ahead(c, j) /\ inhand \notin Members(queue) /\ inhand # wire
    BY <1>1, <1>2, PairsAreIds DEF IInv, Custody
  <2>4. TaskState(inhand) = answer
    BY <1>1, <1>2, <2>3 DEF TaskState
  <2>5. Task[<<c, At[c]>>] = answer /\ answer \in Results
    BY <1>1, <1>2, <2>1, <2>4 DEF Task, Results, IInv, TypeOK
  <2>6. Told[c] = "none" /\ Told' = [Told EXCEPT ![c] = TaskOutcome(answer)]
    BY <2>1, <2>2 DEF Told, Outcomes, IInv, TypeOK
  <2>7. S!Tell(c)
    BY <1>3, <2>1, <2>5, <2>6 DEF S!Tell, S!Outcome, TaskOutcome
  <2> QED
    BY <2>7 DEF Serves, S!ServiceNext
<1> QED
  BY <1>4, <1>5

\* The request in hand is dropped unless it was executed before.
LEMMA LoseConnectionServes == ASSUME IInv, LoseConnection PROVE Serves
<1>1. inhand \in Ids /\ wire' = NoTask /\ UNCHANGED <<pos, phase, queue, verdict>>
  BY DEF LoseConnection, IInv, Connection, TypeOK
<1>2. Told' = Told
  BY <1>1, PairsAreIds DEF LoseConnection, Told, Resolve, Waits, Outcomes, IInv, TypeOK
<1>3. CASE wire = NoTask
  <2>1. Task' = Task /\ At' = At
    BY <1>1, <1>3, TasksSame
  <2> QED
    BY <1>2, <2>1 DEF Serves, S!service
<1>4. CASE wire # NoTask
  <2>1. PICK id \in Ids : id = wire /\ id = inhand
    BY <1>1, <1>4 DEF IInv, Connection
  <2>2. id \notin Members(queue) /\ Members(queue)' = Members(queue)
    BY <1>1, <2>1 DEF IInv, Custody, Members
  <2>3. \A y \in Ids : y # NoTask
    BY PairsAreIds
  <2> QED
    BY <1>1, <1>2, <2>1, <2>2, <2>3, DropServes
<1> QED
  BY <1>3, <1>4

\* The request on the socket is executed, for the first time.
LEMMA ExecuteTaskServes == ASSUME IInv, ExecuteTask PROVE Serves
<1>1. PICK id \in Ids : id = wire /\ id = inhand
  BY DEF ExecuteTask, IInv, Connection, TypeOK
<1>2. PICK a : a \in Results /\ verdict' = [verdict EXCEPT ![id] = a]
  BY <1>1 DEF ExecuteTask, Answers, Results
<1>3. wire' = NoTask /\ UNCHANGED <<pos, phase, shot, queue>>
  BY DEF ExecuteTask, clients
<1>4. /\ verdict'[id] = a /\ a # "none"
      /\ \A y \in Ids \ {id} : verdict'[y] = verdict[y]
  BY <1>2 DEF IInv, TypeOK, Results
<1>5. id \notin Members(queue) /\ Members(queue)' = Members(queue)
  BY <1>1, <1>3 DEF IInv, Custody, Members
<1>6. \A y \in Ids : (Ahead(y[1], y[2])' <=> Ahead(y[1], y[2])) /\ y # NoTask
  BY <1>3, PairsAreIds DEF Ahead
<1>7. ~Ahead(id[1], id[2])
  BY <1>1, PairsAreIds DEF IInv, Custody
<1>8. TaskState(id) = "queued" /\ TaskState(id)' = a
  BY <1>1, <1>3, <1>4, <1>5, <1>6, <1>7 DEF TaskState
<1>9. \A y \in Ids \ {id} : TaskState(y)' = TaskState(y)
  BY <1>1, <1>3, <1>4, <1>5, <1>6 DEF TaskState
<1>10. Task' = [Task EXCEPT ![id] = a] /\ Task[id] = "queued"
  BY <1>8, <1>9, TaskBecomes DEF Task
<1>11. At' = At /\ Told' = Told
  BY <1>3 DEF At, Told
<1>12. S!Execute(id) /\ id \in Clients \X (1..5)
  BY <1>2, <1>10, <1>11 DEF S!Execute, Ids
<1> QED
  BY <1>12 DEF Serves, S!ServiceNext

\* Connections, crashes and replies are not seen by requests.
LEMMA OthersServe ==
    ASSUME IInv, Accept \/ Connect \/ ReplyTask \/ Crash \/ UNCHANGED vars
    PROVE  Serves
<1>1. wire' = wire
  BY DEF Accept, Connect, ReplyTask, Crash, vars, IInv, Connection
<1>2. UNCHANGED <<pos, phase, shot, queue, verdict>>
  BY DEF Accept, Connect, ReplyTask, Crash, vars, clients
<1> QED
  BY <1>1, <1>2, SameServes

\* Every step of the daemons is a step of the service or is not seen.
LEMMA NextServes == ASSUME IInv, NoneEarly, [Next]_vars PROVE Serves
BY ArriveServes, SubmitServes, AwaitServes, SendTaskServes, TakeAnswerServes,
   LoseConnectionServes, ExecuteTaskServes, OthersServe DEF Next, Connector, TasksDaemon

\* At first all tasks are new.
LEMMA InitServes == Init => S!ServiceInit /\ NoneEarly
<1> SUFFICES ASSUME Init PROVE S!ServiceInit /\ NoneEarly
  OBVIOUS
<1>1. At = [c \in Clients |-> 1] /\ Told = [c \in Clients |-> "none"] /\ NoneEarly
  BY DEF Init, At, Told, NoneEarly, Outcomes
<1>2. \A id \in Ids : TaskState(id) = "new"
  <2>1. \A id \in Ids : id[1] \in Clients /\ id[2] \in 1..5
    BY PairsAreIds
  <2>2. \A c \in Clients, j \in 1..5 : Ahead(c, j)
    BY SMT DEF Init, Ahead
  <2> QED
    BY <2>1, <2>2 DEF TaskState
<1>3. Task = [id \in Clients \X (1..5) |-> "new"]
  BY <1>2 DEF Task, Ids
<1> QED
  BY <1>1, <1>3 DEF S!ServiceInit

\* The channel, the connector and the tasks daemon implement TaskService for any
\* number of requests, any capacity and any number of crashes.
THEOREM QueueImplementsService == Spec => ImplementsService
<1>1. IInv /\ NoneEarly /\ [Next]_vars => IInv' /\ NoneEarly' /\ [S!ServiceNext]_(S!service)
  BY NextIInv, NoneEarlyStep, NextServes DEF Serves
<1> QED
  BY InitIInv, InitServes, <1>1, PTL DEF Spec, ImplementsService, S!Service
=============================================================================
