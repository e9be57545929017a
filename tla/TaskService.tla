---------------------------- MODULE TaskService ----------------------------
(***************************************************************************)
(* What himmelblaud promises a request about the tasks it hands over to be *)
(* done as root.  They are done one after another and each at most once,   *)
(* or not at all; the request is told the outcome of the task it is at, or *)
(* goes on without one.  A task that nobody waits for any more may still   *)
(* be done.  Channel, connections and crashes do not appear.               *)
(***************************************************************************)
EXTENDS Integers

CONSTANTS
    Clients,        \* requests
    Steps,          \* the places of tasks in a request, from 1
    Results         \* what a task may come to

VARIABLES
    at,             \* the task a request is at
    task,           \* a task: "new", "queued", "dropped" or its result
    told            \* the outcome a request was told of the task it is at

service == <<at, task, told>>

\* An error counts as a failed script.
Outcome(result) == IF result = "error" THEN "1" ELSE result

ServiceInit ==
    /\ at = [c \in Clients |-> 1]
    /\ task = [id \in Clients \X Steps |-> "new"]
    /\ told = [c \in Clients |-> "none"]

HandOver(c) ==
    /\ at[c] \in Steps /\ task[<<c, at[c]>>] = "new"
    /\ task' = [task EXCEPT ![<<c, at[c]>>] = "queued"]
    /\ UNCHANGED <<at, told>>

\* The task is not even taken over.
Refuse(c) ==
    /\ at[c] \in Steps /\ task[<<c, at[c]>>] = "new"
    /\ at' = [at EXCEPT ![c] = at[c] + 1]
    /\ task' = [task EXCEPT ![<<c, at[c]>>] = "dropped"]
    /\ UNCHANGED told

Execute(id) ==
    /\ task[id] = "queued"
    /\ \E result \in Results : task' = [task EXCEPT ![id] = result]
    /\ UNCHANGED <<at, told>>

Drop(id) ==
    /\ task[id] = "queued"
    /\ task' = [task EXCEPT ![id] = "dropped"]
    /\ UNCHANGED <<at, told>>

Tell(c) ==
    /\ at[c] \in Steps /\ task[<<c, at[c]>>] \in Results
    /\ told[c] = "none"
    /\ told' = [told EXCEPT ![c] = Outcome(task[<<c, at[c]>>])]
    /\ UNCHANGED <<at, task>>

\* The outcome is taken, or no longer waited for.
GoOn(c) ==
    /\ at[c] \in Steps /\ task[<<c, at[c]>>] # "new"
    /\ at' = [at EXCEPT ![c] = at[c] + 1]
    /\ told' = [told EXCEPT ![c] = "none"]
    /\ UNCHANGED task

ServiceNext ==
    \/ \E c \in Clients : HandOver(c) \/ Refuse(c) \/ Tell(c) \/ GoOn(c)
    \/ \E id \in Clients \X Steps : Execute(id) \/ Drop(id)

Service == ServiceInit /\ [][ServiceNext]_service
=============================================================================
