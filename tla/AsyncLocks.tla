----------------------------- MODULE AsyncLocks -----------------------------
(***************************************************************************)
(* The lock behaviour of himmelblaud: tasks of a tokio current_thread      *)
(* runtime that take and drop tokio mutexes.                               *)
(*                                                                         *)
(* One OS thread polls the tasks.  A task runs until an await is pending:  *)
(* a lock() on a mutex that is taken, or network I/O.  A tokio mutex is    *)
(* fair and not reentrant: lock() on a taken mutex joins a FIFO queue,     *)
(* whoever holds it, and dropping the guard gives the mutex straight to    *)
(* the first waiter, which becomes runnable.                               *)
(*                                                                         *)
(* A program is one critical section of the daemon: the locks, unlocks and *)
(* I/O awaits between two points at which a task holds no guard.  Between  *)
(* sections a task only computes, so a request is a sequence of sections   *)
(* and nothing that can be held is held between them.                      *)
(***************************************************************************)
EXTENDS Naturals, Sequences

CONSTANTS Tasks,     \* the connections handle_client serves, and background loops
          Locks,     \* the mutexes
          Rank,      \* the order in which the code means to take them
          MaxRank,   \* a bound on Rank
          Programs,  \* the critical sections in use
          NoTask     \* the holder of a free mutex, the task polled by an idle runtime

ASSUME LocksAssumption ==
    /\ NoTask \notin Tasks
    /\ MaxRank \in Nat
    /\ Rank \in [Locks -> 0..MaxRank]

Lock(l) == [op |-> "lock", on |-> l]
Unlock(l) == [op |-> "unlock", on |-> l]
IO == [op |-> "io", on |-> "network"]

Instruction == {Lock(l) : l \in Locks} \union {Unlock(l) : l \in Locks} \union {IO}

\* The mutexes a task that runs p holds when it is about to execute p[i].
HeldAt(p, i) ==
    {l \in Locks : \E j \in 1..(i-1) :
                      /\ p[j] = Lock(l)
                      /\ \A k \in (j+1)..(i-1) : p[k] # Unlock(l)}

\* Guards are dropped only while held, and all of them before the section ends.
Scoped(p) ==
    /\ \A i \in 1..Len(p) : \A l \in Locks : p[i] = Unlock(l) => l \in HeldAt(p, i)
    /\ HeldAt(p, Len(p) + 1) = {}

ASSUME ProgramsAssumption ==
    /\ Programs \subseteq Seq(Instruction)
    /\ \A p \in Programs : Scoped(p)

\* The section of a task that is between two requests.
NoSection == << >>

VARIABLES prog,    \* the section each task runs
          pc,      \* its next instruction
          status,  \* idle, ready to be polled (or being polled), waiting for a mutex, in I/O
          cpu,     \* the task being polled
          owner,   \* the holder of each mutex
          queue    \* the tasks waiting for each mutex, first come first served

vars == <<prog, pc, status, cpu, owner, queue>>

TypeOK ==
    /\ prog \in [Tasks -> Programs \union {NoSection}]
    /\ pc \in [Tasks -> Nat \ {0}]
    /\ status \in [Tasks -> {"idle", "ready", "waiting", "io"}]
    /\ cpu \in Tasks \union {NoTask}
    /\ owner \in [Locks -> Tasks \union {NoTask}]
    /\ queue \in [Locks -> Seq(Tasks)]

Init ==
    /\ prog = [t \in Tasks |-> NoSection]
    /\ pc = [t \in Tasks |-> 1]
    /\ status = [t \in Tasks |-> "idle"]
    /\ cpu = NoTask
    /\ owner = [l \in Locks |-> NoTask]
    /\ queue = [l \in Locks |-> << >>]

\* The instruction that task t is at.
At(t, instr) == pc[t] <= Len(prog[t]) /\ prog[t][pc[t]] = instr

\* A request reaches an idle task and enters section p.
Begin(t, p) ==
    /\ cpu = NoTask
    /\ status[t] = "idle"
    /\ prog' = [prog EXCEPT ![t] = p]
    /\ pc' = [pc EXCEPT ![t] = 1]
    /\ status' = [status EXCEPT ![t] = "ready"]
    /\ cpu' = t
    /\ UNCHANGED <<owner, queue>>

\* The runtime polls a woken task.
Poll(t) ==
    /\ cpu = NoTask
    /\ status[t] = "ready"
    /\ cpu' = t
    /\ UNCHANGED <<prog, pc, status, owner, queue>>

\* lock().await on a free mutex does not yield.
Acquire(t, l) ==
    /\ cpu = t
    /\ At(t, Lock(l))
    /\ owner[l] = NoTask
    /\ owner' = [owner EXCEPT ![l] = t]
    /\ pc' = [pc EXCEPT ![t] = @ + 1]
    /\ UNCHANGED <<prog, status, cpu, queue>>

\* lock().await on a taken mutex, by this task or by another, is pending.
Block(t, l) ==
    /\ cpu = t
    /\ At(t, Lock(l))
    /\ owner[l] # NoTask
    /\ queue' = [queue EXCEPT ![l] = Append(@, t)]
    /\ status' = [status EXCEPT ![t] = "waiting"]
    /\ cpu' = NoTask
    /\ UNCHANGED <<prog, pc, owner>>

\* Dropping a guard nobody waits for.
Release(t, l) ==
    /\ cpu = t
    /\ At(t, Unlock(l))
    /\ queue[l] = << >>
    /\ owner' = [owner EXCEPT ![l] = NoTask]
    /\ pc' = [pc EXCEPT ![t] = @ + 1]
    /\ UNCHANGED <<prog, status, cpu, queue>>

\* Dropping a guard gives the mutex to the first waiter and wakes it.
HandOver(t, l) ==
    /\ cpu = t
    /\ At(t, Unlock(l))
    /\ queue[l] # << >>
    /\ LET w == Head(queue[l])
       IN /\ owner' = [owner EXCEPT ![l] = w]
          /\ queue' = [queue EXCEPT ![l] = Tail(@)]
          /\ status' = [status EXCEPT ![w] = "ready"]
          /\ pc' = [u \in Tasks |-> IF u = t \/ u = w THEN pc[u] + 1 ELSE pc[u]]
    /\ UNCHANGED <<prog, cpu>>

\* The network request is sent; the runtime is free for other tasks.
StartIO(t) ==
    /\ cpu = t
    /\ At(t, IO)
    /\ status' = [status EXCEPT ![t] = "io"]
    /\ cpu' = NoTask
    /\ UNCHANGED <<prog, pc, owner, queue>>

\* The answer, the error or the request timeout arrives.
EndIO(t) ==
    /\ status[t] = "io"
    /\ status' = [status EXCEPT ![t] = "ready"]
    /\ pc' = [pc EXCEPT ![t] = @ + 1]
    /\ UNCHANGED <<prog, cpu, owner, queue>>

\* A section that leaves the program counter before the first instruction.
FinishAtZero(t) ==
    /\ cpu = t
    /\ pc[t] > Len(prog[t])
    /\ prog' = [prog EXCEPT ![t] = NoSection]
    /\ pc' = [pc EXCEPT ![t] = 0]
    /\ status' = [status EXCEPT ![t] = "idle"]
    /\ cpu' = NoTask
    /\ UNCHANGED <<owner, queue>>

\* The section is over.
Finish(t) ==
    /\ cpu = t
    /\ pc[t] > Len(prog[t])
    /\ prog' = [prog EXCEPT ![t] = NoSection]
    /\ pc' = [pc EXCEPT ![t] = 1]
    /\ status' = [status EXCEPT ![t] = "idle"]
    /\ cpu' = NoTask
    /\ UNCHANGED <<owner, queue>>

Step(t) ==
    \/ \E l \in Locks : Acquire(t, l) \/ Block(t, l) \/ Release(t, l) \/ HandOver(t, l)
    \/ StartIO(t)
    \/ Finish(t)

Next ==
    \E t \in Tasks :
        \/ \E p \in Programs : Begin(t, p)
        \/ Poll(t)
        \/ Step(t)
        \/ EndIO(t)

Spec == Init /\ [][Next]_vars

\* The runtime polls runnable tasks in the order of its run queue, and every
\* network request ends, with an answer or at its timeout.
Fairness ==
    \A t \in Tasks : WF_vars(Step(t)) /\ SF_vars(Poll(t)) /\ WF_vars(EndIO(t))

FairSpec == Spec /\ Fairness

-----------------------------------------------------------------------------
\* Task t waits for the mutex l.
WaitsFor(t, l) == status[t] = "waiting" /\ At(t, Lock(l))

\* Every task of S waits for a mutex that a task of S holds; a task that awaits a
\* mutex it holds itself is such a group.
Stuck(S) ==
    S # {} /\ \A t \in S : \E l \in Locks : WaitsFor(t, l) /\ owner[l] \in S

\* A section of P that holds l while it locks a mutex holds g too.
Gates(P, g, l) ==
    \A q \in P : \A j \in 1..Len(q) :
        q[j].op = "lock" /\ l \in HeldAt(q, j) => g \in HeldAt(q, j)

(***************************************************************************)
(* The discipline of a section p of P that keeps it out of deadlocks: it   *)
(* locks nothing that it holds, and what it locks is ranked above all that *)
(* it holds, unless it holds a gate of the mutex.                          *)
(***************************************************************************)
Disciplined(P, p) ==
    \A i \in 1..Len(p) : \A l \in Locks :
        p[i] = Lock(l) =>
            /\ l \notin HeldAt(p, i)
            /\ \/ \A h \in HeldAt(p, i) : Rank[h] < Rank[l]
               \/ \E g \in HeldAt(p, i) : Gates(P, g, l)
=============================================================================
