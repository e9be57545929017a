----------------------------- MODULE TaskQueue -----------------------------
(***************************************************************************)
(* The tasks himmelblaud hands to the tasks daemon, which runs as root:    *)
(* the bounded channel between connections and the task connector, the     *)
(* connector (daemon.rs, handle_task_client and the accept loop of main),  *)
(* the requests that submit tasks and wait for them with a time-out        *)
(* (handle_client, apply_intune_policy_for_account), and the tasks daemon  *)
(* (tasks_daemon.rs), which may crash or be restarted at any moment.       *)
(***************************************************************************)
EXTENDS Integers, Sequences

CONSTANTS
    Clients,        \* connections, one request each
    Capacity,       \* of the channel (16 in the code)
    MaxCrashes,     \* bound on the crashes of the tasks daemon
    Configs,        \* what a sign-in has: a script, tickets, a photo, policies
    None

ASSUME QueueAssumption ==
    /\ Capacity \in Nat \ {0}
    /\ MaxCrashes \in Nat
    /\ Configs \subseteq [script : BOOLEAN, tgts : BOOLEAN, photo : BOOLEAN, policy : BOOLEAN]
    /\ None \notin Clients

----------------------------------------------------------------------------
(* The tasks of each request, in the order in which it submits them.       *)

BeginSession == <<"HomeDirectory", "LocalGroups", "SubordinateIds">>

\* The tasks of a successful sign-in.  A logon script, tickets, a token for the
\* photo and the policies are there or not.
LogonScript(cfg) == IF cfg.script THEN <<"LogonScript">> ELSE << >>
Kerberos(cfg) == IF cfg.tgts THEN <<"KerberosConfig", "KerberosTGTs">> ELSE << >>
ProfilePhoto(cfg) == IF cfg.photo THEN <<"LoadProfilePhoto">> ELSE << >>
Policies(cfg) == IF cfg.policy THEN <<"ApplyPolicy">> ELSE << >>

SignIn(cfg) == LogonScript(cfg) \o Kerberos(cfg) \o ProfilePhoto(cfg) \o Policies(cfg)

ComplianceCheck == <<"ApplyPolicy">>

\* What the tasks daemon may answer; "error" stands for TaskResponse::Error and
\* a number for TaskResponse::Success.  Local groups and photos never fail; the
\* failures of tickets and subordinate ids are only logged and left out.
Answers(task) ==
    CASE task = "LogonScript" -> {"0", "1", "2"}
      [] task = "ApplyPolicy" -> {"0", "error", "noncompliant"}
      [] task = "HomeDirectory" -> {"0", "error"}
      [] OTHER -> {"0"}

\* handle_task_client turns an answer into a TaskOutcome.
TaskOutcome(answer) == IF answer = "error" THEN "1" ELSE answer

VARIABLES
    kind,       \* the request of a connection: none so far, or one of Kinds
    prog,       \* the tasks it submits
    pos,        \* the task it is at
    phase,      \* "idle", "submit", "await" or "done"
    resp,       \* what it will answer
    shot,       \* its oneshot channel: "closed", "open" or an outcome
    queue,      \* the channel: requests <<client, position>>
    hand,       \* the task connector: "accept", "recv" or "wait"
    inhand,     \* the request it waits for
    accepted,   \* the connection it serves: connections are numbered
    connected,  \* connections made by the tasks daemon so far
    tphase,     \* the tasks daemon: "down", "idle" or "reply"
    tcur,       \* the request it works on
    wire,       \* a request sent and not read, or None
    answer,     \* an answer sent and not read, or None
    verdict     \* history: the answer of each task that was executed

clients == <<kind, prog, pos, phase, resp, shot>>
connector == <<hand, inhand, accepted>>
tasksd == <<connected, tphase, tcur>>
vars == <<clients, queue, connector, tasksd, wire, answer, verdict>>

Kinds == {"begin", "signin", "compliance"}
Ids == Clients \X (1..5)
NoTask == <<None, 0>>
Outcomes == {"0", "1", "2", "noncompliant"}

\* The accepted connection is the one the running tasks daemon has open.
Live == hand # "accept" /\ accepted = connected /\ tphase # "down"

Init ==
    /\ kind = [c \in Clients |-> "none"]
    /\ prog = [c \in Clients |-> << >>]
    /\ pos = [c \in Clients |-> 1]
    /\ phase = [c \in Clients |-> "idle"]
    /\ resp = [c \in Clients |-> "none"]
    /\ shot = [c \in Clients |-> "closed"]
    /\ queue = << >>
    /\ hand = "accept" /\ inhand = NoTask /\ accepted = 0
    /\ connected = 0 /\ tphase = "down" /\ tcur = NoTask
    /\ wire = NoTask
    /\ answer = "none"
    /\ verdict = [i \in Ids |-> "none"]

----------------------------------------------------------------------------
(* The requests.                                                           *)

\* A request arrives.  A session of an unknown account, and a compliance check
\* without a known user, a token or the option, are answered at once.
Arrive(c) ==
    /\ phase[c] = "idle"
    /\ \/ /\ kind' = [kind EXCEPT ![c] = "begin"]
          /\ prog' = [prog EXCEPT ![c] = BeginSession]
          /\ resp' = [resp EXCEPT ![c] = "Ok"]
       \/ /\ kind' = [kind EXCEPT ![c] = "signin"]
          /\ \E cfg \in Configs : prog' = [prog EXCEPT ![c] = SignIn(cfg)]
          /\ resp' = [resp EXCEPT ![c] = "Success"]
       \/ /\ kind' = [kind EXCEPT ![c] = "compliance"]
          /\ prog' = [prog EXCEPT ![c] = ComplianceCheck]
          /\ resp' = [resp EXCEPT ![c] = "Error"]
       \/ /\ \E k \in {"begin", "compliance"} : kind' = [kind EXCEPT ![c] = k]
          /\ resp' = [resp EXCEPT ![c] = "Error"]
          /\ UNCHANGED prog
    /\ phase' = [phase EXCEPT ![c] = IF prog'[c] = << >> THEN "done" ELSE "submit"]
    /\ UNCHANGED <<pos, shot, queue, connector, tasksd, wire, answer, verdict>>

\* Mutant of SessionResponse: local groups that were not set do not matter.
SessionResponseHomeOnly(task, outcome, r) ==
    IF task = "HomeDirectory" /\ outcome = "none" THEN "Error" ELSE r

\* What an outcome, or "none" for a time-out or a dropped channel, makes of the
\* response.  An unanswered critical task fails a session; one that failed does
\* not.
SessionResponse(task, outcome, r) ==
    IF task \in {"HomeDirectory", "LocalGroups"} /\ outcome = "none" THEN "Error" ELSE r

\* A script that returns 2 denies a sign-in, other failures are only logged.
SignInResponse(task, outcome, r) ==
    IF task = "LogonScript" /\ outcome = "2" THEN "Denied" ELSE r

\* apply_intune_policy_for_account, and what a compliance check makes of it.
ComplianceResponse(outcome, r) ==
    IF outcome = "0" THEN "Ok" ELSE IF outcome = "noncompliant" THEN "NonCompliant" ELSE r

Response(c, outcome) ==
    LET task == prog[c][pos[c]] IN
    CASE kind[c] = "begin" -> SessionResponse(task, outcome, resp[c])
      [] kind[c] = "signin" -> SignInResponse(task, outcome, resp[c])
      [] kind[c] = "compliance" -> ComplianceResponse(outcome, resp[c])

\* The request goes on to its next task, or is answered.
Proceed(c, outcome) ==
    /\ resp' = [resp EXCEPT ![c] = Response(c, outcome)]
    /\ shot' = [shot EXCEPT ![c] = "closed"]
    /\ IF pos[c] = Len(prog[c])
       THEN phase' = [phase EXCEPT ![c] = "done"] /\ UNCHANGED pos
       ELSE phase' = [phase EXCEPT ![c] = "submit"] /\ pos' = [pos EXCEPT ![c] = @ + 1]
    /\ UNCHANGED <<kind, prog>>

\* Mutant of Submit: the channel has no limit.
SubmitUnbounded(c) ==
    /\ phase[c] = "submit"
    /\ queue' = Append(queue, <<c, pos[c]>>)
    /\ shot' = [shot EXCEPT ![c] = "open"]
    /\ phase' = [phase EXCEPT ![c] = "await"]
    /\ UNCHANGED <<kind, prog, pos, resp, connector, tasksd, wire, answer, verdict>>

\* send_timeout: there is room in the channel within the time allowed, or not.
Submit(c) ==
    /\ phase[c] = "submit"
    /\ \/ /\ Len(queue) < Capacity
          /\ queue' = Append(queue, <<c, pos[c]>>)
          /\ shot' = [shot EXCEPT ![c] = "open"]
          /\ phase' = [phase EXCEPT ![c] = "await"]
          /\ UNCHANGED <<kind, prog, pos, resp>>
       \/ /\ Len(queue) = Capacity
          /\ Proceed(c, "none")
          /\ UNCHANGED queue
    /\ UNCHANGED <<connector, tasksd, wire, answer, verdict>>

\* Mutant of Await: there is no time limit.
AwaitOutcome(c) ==
    /\ phase[c] = "await" /\ shot[c] # "open"
    /\ Proceed(c, IF shot[c] \in Outcomes THEN shot[c] ELSE "none")
    /\ UNCHANGED <<queue, connector, tasksd, wire, answer, verdict>>

\* timeout_at: the outcome arrives, the sender is dropped, or time is up.  The
\* task of a request that no longer waits stays where it is.
Await(c) ==
    /\ phase[c] = "await"
    /\ Proceed(c, IF shot[c] \in Outcomes THEN shot[c] ELSE "none")
    /\ UNCHANGED <<queue, connector, tasksd, wire, answer, verdict>>

----------------------------------------------------------------------------
(* The task connector.                                                     *)

\* The oneshot of a request is open: its connection still waits for this task.
Waits(id) == phase[id[1]] = "await" /\ pos[id[1]] = id[2] /\ shot[id[1]] = "open"

\* The sender of a request is dropped, or sends an outcome.
Resolve(id, value) ==
    shot' = IF Waits(id) THEN [shot EXCEPT ![id[1]] = value] ELSE shot

Accept ==
    /\ hand = "accept"
    /\ accepted < connected
    /\ accepted' = accepted + 1
    /\ hand' = "recv"
    /\ wire' = NoTask /\ answer' = "none"
    /\ UNCHANGED <<clients, queue, inhand, tasksd, verdict>>

\* Mutant of SendTask: a failed send does not end the connection.
SendTaskStays ==
    /\ hand = "recv" /\ queue # << >>
    /\ LET id == Head(queue) IN
       IF Live
       THEN /\ queue' = Tail(queue)
            /\ wire' = id /\ inhand' = id
            /\ hand' = "wait"
       ELSE /\ queue' = Append(Tail(queue), id)
            /\ UNCHANGED <<hand, wire, inhand>>
    /\ UNCHANGED <<clients, accepted, tasksd, answer, verdict>>

\* handle_task_client: the next request is written to the socket.  If that fails
\* it goes to the end of the channel, unless its connection gave up or there is
\* no room, and the connection is given up.
SendTask ==
    /\ hand = "recv" /\ queue # << >>
    /\ LET id == Head(queue) IN
       IF Live
       THEN /\ queue' = Tail(queue)
            /\ wire' = id /\ inhand' = id
            /\ hand' = "wait"
            /\ UNCHANGED shot
       ELSE /\ hand' = "accept"
            /\ \/ /\ Waits(id)
                  /\ queue' = Append(Tail(queue), id)
                  /\ UNCHANGED shot
               \/ /\ ~Waits(id) \/ Len(queue) = Capacity
                  /\ queue' = Tail(queue)
                  /\ Resolve(id, "closed")
            /\ UNCHANGED <<wire, inhand>>
    /\ UNCHANGED <<kind, prog, pos, phase, resp, accepted, tasksd, answer, verdict>>

\* handle_task_client: the answer is passed on, whether or not anybody waits.
TakeAnswer ==
    /\ hand = "wait" /\ answer # "none"
    /\ Resolve(inhand, TaskOutcome(answer))
    /\ answer' = "none"
    /\ hand' = "recv" /\ inhand' = NoTask
    /\ UNCHANGED <<kind, prog, pos, phase, resp, queue, accepted, tasksd, wire, verdict>>

\* Mutants of LoseConnection: an answer that takes too long is not waited for;
\* a task that got no answer is put back.
LoseConnectionImpatient ==
    /\ hand = "wait" /\ answer = "none"
    /\ Resolve(inhand, "closed")
    /\ hand' = (IF Live THEN "recv" ELSE "accept") /\ inhand' = NoTask
    /\ UNCHANGED <<kind, prog, pos, phase, resp, queue, accepted, tasksd, wire, answer, verdict>>

LoseConnectionRequeue ==
    /\ hand = "wait" /\ answer = "none" /\ ~Live
    /\ queue' = IF Len(queue) < Capacity /\ Waits(inhand)
                THEN Append(queue, inhand) ELSE queue
    /\ wire' = NoTask
    /\ hand' = "accept" /\ inhand' = NoTask
    /\ UNCHANGED <<clients, accepted, tasksd, answer, verdict>>

\* handle_task_client: the connection ends without an answer; the request is
\* lost.
LoseConnection ==
    /\ hand = "wait" /\ answer = "none" /\ ~Live
    /\ Resolve(inhand, "closed")
    /\ wire' = NoTask
    /\ hand' = "accept" /\ inhand' = NoTask
    /\ UNCHANGED <<kind, prog, pos, phase, resp, queue, accepted, tasksd, answer, verdict>>

----------------------------------------------------------------------------
(* The tasks daemon.                                                       *)

Connect ==
    /\ tphase = "down"
    /\ connected' = connected + 1
    /\ tphase' = "idle"
    /\ UNCHANGED <<clients, queue, connector, tcur, wire, answer, verdict>>

\* Mutant of ExecuteTask: the request is not taken off the socket.
ExecuteTaskUnread ==
    /\ tphase = "idle" /\ Live /\ wire # NoTask
    /\ \E a \in Answers(prog[wire[1]][wire[2]]) : verdict' = [verdict EXCEPT ![wire] = a]
    /\ tcur' = wire
    /\ tphase' = "reply"
    /\ UNCHANGED <<clients, queue, connector, connected, wire, answer>>

\* handle_tasks reads a request and executes it: whatever it does is reported
\* by one answer.
ExecuteTask ==
    /\ tphase = "idle" /\ Live /\ wire # NoTask
    /\ \E a \in Answers(prog[wire[1]][wire[2]]) : verdict' = [verdict EXCEPT ![wire] = a]
    /\ tcur' = wire /\ wire' = NoTask
    /\ tphase' = "reply"
    /\ UNCHANGED <<clients, queue, connector, connected, answer>>

\* handle_tasks sends the answer.
ReplyTask ==
    /\ tphase = "reply"
    /\ answer' = verdict[tcur]
    /\ tphase' = "idle" /\ tcur' = NoTask
    /\ UNCHANGED <<clients, queue, connector, connected, wire, verdict>>

\* The tasks daemon crashes or is restarted.  What it wrote can still be read.
Crash ==
    /\ tphase # "down"
    /\ connected <= MaxCrashes
    /\ tphase' = "down" /\ tcur' = NoTask
    /\ UNCHANGED <<clients, queue, connector, connected, wire, answer, verdict>>

----------------------------------------------------------------------------

Connector == Accept \/ SendTask \/ TakeAnswer \/ LoseConnection

TasksDaemon == Connect \/ ExecuteTask \/ ReplyTask

Next ==
    \/ \E c \in Clients : Arrive(c) \/ Submit(c) \/ Await(c)
    \/ Connector
    \/ TasksDaemon
    \/ Crash

Spec == Init /\ [][Next]_vars

\* Time-outs expire and the runtime of himmelblaud polls ready tasks.  Nothing
\* is assumed of the tasks daemon: it may hang or stay down.
FairSpec ==
    /\ Spec
    /\ \A c \in Clients : WF_vars(Submit(c) \/ Await(c))
    /\ WF_vars(Connector)

----------------------------------------------------------------------------
(* Properties.                                                             *)

TypeOK ==
    /\ kind \in [Clients -> Kinds \cup {"none"}]
    /\ prog \in [Clients -> {SignIn(cfg) : cfg \in Configs}
                             \cup {<< >>, BeginSession, ComplianceCheck}]
    /\ pos \in [Clients -> 1..5]
    /\ phase \in [Clients -> {"idle", "submit", "await", "done"}]
    /\ resp \in [Clients -> {"none", "Ok", "Error", "NonCompliant", "Success", "Denied"}]
    /\ shot \in [Clients -> Outcomes \cup {"closed", "open"}]
    /\ queue \in Seq(Ids) /\ Len(queue) <= Capacity
    /\ hand \in {"accept", "recv", "wait"}
    /\ inhand \in Ids \cup {NoTask}
    /\ accepted \in 0..connected
    /\ connected \in 0 .. MaxCrashes + 1
    /\ tphase \in {"down", "idle", "reply"}
    /\ tcur \in Ids \cup {NoTask}
    /\ wire \in Ids \cup {NoTask}
    /\ answer \in {"none", "0", "1", "2", "error", "noncompliant"}
    /\ verdict \in [Ids -> {"none", "0", "1", "2", "error", "noncompliant"}]

\* A request gets the outcome of its own task, never that of another request,
\* although time-outs, lost connections and requeued tasks leave answers that
\* nobody waits for: the connector reads an answer for every task it sent before
\* it sends another.
OutcomeIsOwn ==
    \A c \in Clients :
        shot[c] \in Outcomes => /\ verdict[<<c, pos[c]>>] # "none"
                                /\ shot[c] = TaskOutcome(verdict[<<c, pos[c]>>])

\* A task is executed at most once, although tasks are put back when a
\* connection fails: a task is put back only if it was not sent.
AtMostOnce == wire # NoTask => verdict[wire] = "none"

\* PAM is told that a session was opened only if the tasks daemon has dealt
\* with the home directory and the local groups of this very request.
SessionWasServed ==
    \A c \in Clients :
        phase[c] = "done" /\ kind[c] = "begin" /\ resp[c] = "Ok"
            => verdict[<<c, 1>>] # "none" /\ verdict[<<c, 2>>] # "none"

\* Every request is answered, whatever happens to the tasks daemon.
Responded == \A c \in Clients : phase[c] = "submit" ~> phase[c] = "done"

\* If tasks end and the tasks daemon is started again after a crash, tasks do
\* not stay in the channel: a connection that is dead is found out by the next
\* task, and the next connection of the tasks daemon is served.
QueueDrains == WF_vars(TasksDaemon) => (queue # << >> ~> queue = << >>)

\* "2 is a hard failure causing authentication to fail" (himmelblau.conf.5,
\* logon_script): no sign-in succeeds whose logon script returned 2.
ScriptDenies ==
    \A c \in Clients :
        phase[c] = "done" /\ kind[c] = "signin" /\ resp[c] = "Success"
            => verdict[<<c, 1>>] # "2"

----------------------------------------------------------------------------
(* The queue implements TaskService: the refinement mapping.               *)

Members(q) == {q[i] : i \in 1..Len(q)}

\* The task j of a request that has not been submitted.
Ahead(c, j) == j > pos[c] \/ (j = pos[c] /\ phase[c] \in {"idle", "submit"})

\* A task is queued while it is in the channel or on the socket, unread.
TaskState(id) ==
    IF Ahead(id[1], id[2]) THEN "new"
    ELSE IF id = wire \/ id \in Members(queue) THEN "queued"
    ELSE IF verdict[id] = "none" THEN "dropped"
    ELSE verdict[id]

Task == [id \in Ids |-> TaskState(id)]
At == [c \in Clients |-> IF phase[c] = "done" THEN pos[c] + 1 ELSE pos[c]]
Told == [c \in Clients |-> IF shot[c] \in Outcomes THEN shot[c] ELSE "none"]
Results == {"0", "1", "2", "error", "noncompliant"}

S == INSTANCE TaskService WITH Steps <- 1..5, at <- At, task <- Task, told <- Told

\* Requests see a service that does their tasks in order, each at most once, and
\* tells them of the task they are at, although the channel overflows, tasks are
\* put back, connections break and the tasks daemon crashes.
ImplementsService == S!Service
=============================================================================
