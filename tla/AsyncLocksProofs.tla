-------------------------- MODULE AsyncLocksProofs --------------------------
(***************************************************************************)
(* If every critical section takes its mutexes in the order of Rank, then  *)
(* no group of tasks is ever deadlocked, for any number of tasks, any set  *)
(* of mutexes and any set of sections; and if hsm comes before db in that  *)
(* order, a refresh stores its outcome before the next provider call.      *)
(***************************************************************************)
EXTENDS ResolverLocks, TLAPS, SequenceTheorems, WellFoundedInduction

\* The mutexes that task t holds.
Held(t) == {l \in Locks : owner[l] = t}

\* What a task holds is what its section says it holds at its instruction.
HeldInv == \A t \in Tasks : Held(t) = HeldAt(prog[t], pc[t])

\* A task stays inside its section, and a task between sections has none.
PcInv ==
    \A t \in Tasks :
        /\ pc[t] <= Len(prog[t]) + 1
        /\ status[t] = "idle" => prog[t] = NoSection /\ pc[t] = 1
        /\ status[t] = "io" => At(t, IO)
        /\ cpu = t => status[t] = "ready"

\* The tasks queued on a mutex are distinct and wait to lock it.
QueueInv ==
    \A l \in Locks :
        /\ \A u \in Tasks : \A i \in 1..Len(queue[l]) : queue[l][i] = u => WaitsFor(u, l)
        /\ \A i, j \in 1..Len(queue[l]) : queue[l][i] = queue[l][j] => i = j

IInv == TypeOK /\ HeldInv /\ PcInv /\ QueueInv

-----------------------------------------------------------------------------
\* The three kinds of instruction, and the instructions of different mutexes,
\* are different.
LEMMA InstructionsDiffer ==
    ASSUME NEW l, NEW m
    PROVE  /\ Lock(l) # Unlock(m)
           /\ Lock(l) # IO
           /\ Unlock(l) # IO
           /\ Lock(l) = Lock(m) => l = m
           /\ Unlock(l) = Unlock(m) => l = m
BY DEF Lock, Unlock, IO

\* lock() adds its mutex to those held.
LEMMA HeldAfterLock ==
    ASSUME NEW p, NEW i \in Nat \ {0}, NEW l \in Locks, p[i] = Lock(l)
    PROVE  HeldAt(p, i + 1) = HeldAt(p, i) \union {l}
<1>1. ASSUME NEW m \in HeldAt(p, i + 1), m # l PROVE m \in HeldAt(p, i)
  <2>1. PICK j \in 1..((i+1)-1) : p[j] = Lock(m) /\ \A k \in (j+1)..((i+1)-1) : p[k] # Unlock(m)
    BY <1>1 DEF HeldAt
  <2>2. j # i
    BY <1>1, <2>1, InstructionsDiffer
  <2>3. j \in 1..(i-1) /\ \A k \in (j+1)..(i-1) : k \in (j+1)..((i+1)-1)
    BY <2>1, <2>2
  <2> QED BY <1>1, <2>1, <2>3 DEF HeldAt
<1>2. ASSUME NEW m \in HeldAt(p, i) PROVE m \in HeldAt(p, i + 1)
  <2>1. PICK j \in 1..(i-1) : p[j] = Lock(m) /\ \A k \in (j+1)..(i-1) : p[k] # Unlock(m)
    BY <1>2 DEF HeldAt
  <2>2. p[i] # Unlock(m)
    BY InstructionsDiffer
  <2>3. \A k \in (j+1)..((i+1)-1) : k \in (j+1)..(i-1) \/ k = i
    BY <2>1
  <2>4. j \in 1..((i+1)-1)
    BY <2>1
  <2> QED BY <1>2, <2>1, <2>2, <2>3, <2>4 DEF HeldAt
<1>3. l \in HeldAt(p, i + 1)
  <2>1. i \in 1..((i+1)-1) /\ \A k \in (i+1)..((i+1)-1) : FALSE
    OBVIOUS
  <2> QED BY <2>1 DEF HeldAt
<1> QED BY <1>1, <1>2, <1>3

\* Dropping a guard removes its mutex from those held.
LEMMA HeldAfterUnlock ==
    ASSUME NEW p, NEW i \in Nat \ {0}, NEW l \in Locks, p[i] = Unlock(l)
    PROVE  HeldAt(p, i + 1) = HeldAt(p, i) \ {l}
<1>1. ASSUME NEW m \in HeldAt(p, i + 1) PROVE m \in HeldAt(p, i) \ {l}
  <2>1. PICK j \in 1..((i+1)-1) : p[j] = Lock(m) /\ \A k \in (j+1)..((i+1)-1) : p[k] # Unlock(m)
    BY <1>1 DEF HeldAt
  <2>2. j # i
    BY <2>1, InstructionsDiffer
  <2>3. j \in 1..(i-1) /\ i \in (j+1)..((i+1)-1) /\ \A k \in (j+1)..(i-1) : k \in (j+1)..((i+1)-1)
    BY <2>1, <2>2
  <2>4. m # l
    BY <2>1, <2>3
  <2> QED BY <1>1, <2>1, <2>3, <2>4 DEF HeldAt
<1>2. ASSUME NEW m \in HeldAt(p, i), m # l PROVE m \in HeldAt(p, i + 1)
  <2>1. PICK j \in 1..(i-1) : p[j] = Lock(m) /\ \A k \in (j+1)..(i-1) : p[k] # Unlock(m)
    BY <1>2 DEF HeldAt
  <2>2. p[i] # Unlock(m)
    BY <1>2, InstructionsDiffer
  <2>3. \A k \in (j+1)..((i+1)-1) : k \in (j+1)..(i-1) \/ k = i
    BY <2>1
  <2>4. j \in 1..((i+1)-1)
    BY <2>1
  <2> QED BY <1>2, <2>1, <2>2, <2>3, <2>4 DEF HeldAt
<1> QED BY <1>1, <1>2

\* I/O changes nothing.
LEMMA HeldAfterIO ==
    ASSUME NEW p, NEW i \in Nat \ {0}, p[i] = IO
    PROVE  HeldAt(p, i + 1) = HeldAt(p, i)
<1>1. ASSUME NEW m \in HeldAt(p, i + 1) PROVE m \in HeldAt(p, i)
  <2>1. PICK j \in 1..((i+1)-1) : p[j] = Lock(m) /\ \A k \in (j+1)..((i+1)-1) : p[k] # Unlock(m)
    BY <1>1 DEF HeldAt
  <2>2. j # i
    BY <2>1, InstructionsDiffer
  <2>3. j \in 1..(i-1) /\ \A k \in (j+1)..(i-1) : k \in (j+1)..((i+1)-1)
    BY <2>1, <2>2
  <2> QED BY <1>1, <2>1, <2>3 DEF HeldAt
<1>2. ASSUME NEW m \in HeldAt(p, i) PROVE m \in HeldAt(p, i + 1)
  <2>1. PICK j \in 1..(i-1) : p[j] = Lock(m) /\ \A k \in (j+1)..(i-1) : p[k] # Unlock(m)
    BY <1>2 DEF HeldAt
  <2>2. p[i] # Unlock(m)
    BY InstructionsDiffer
  <2>3. \A k \in (j+1)..((i+1)-1) : k \in (j+1)..(i-1) \/ k = i
    BY <2>1
  <2>4. j \in 1..((i+1)-1)
    BY <2>1
  <2> QED BY <1>2, <2>1, <2>2, <2>3, <2>4 DEF HeldAt
<1> QED BY <1>1, <1>2

\* A section starts with no mutex held.
LEMMA HeldAtStart == ASSUME NEW p PROVE HeldAt(p, 1) = {}
BY DEF HeldAt

\* The empty section of an idle task is a section like the others.
LEMMA NoSectionFacts ==
    NoSection \in Seq(Instruction) /\ Len(NoSection) = 0 /\ Scoped(NoSection)
<1>1. NoSection \in Seq(Instruction) /\ Len(NoSection) = 0
  BY EmptySeq DEF NoSection
<1>2. HeldAt(NoSection, 1) = {}
  BY HeldAtStart
<1> QED BY <1>1, <1>2 DEF Scoped

\* Whatever a task runs is a scoped section.
LEMMA ProgFacts ==
    ASSUME TypeOK, NEW t \in Tasks
    PROVE  prog[t] \in Seq(Instruction) /\ Len(prog[t]) \in Nat /\ Scoped(prog[t])
<1>1. prog[t] \in Seq(Instruction) /\ Scoped(prog[t])
  BY NoSectionFacts, ProgramsAssumption DEF TypeOK
<1> QED BY <1>1, LenProperties

\* A task waits for one mutex at a time.
LEMMA WaitsForOne ==
    ASSUME NEW t \in Tasks, NEW l \in Locks, NEW m \in Locks, WaitsFor(t, l), WaitsFor(t, m)
    PROVE  l = m
<1>1. Lock(l) = Lock(m)
  BY DEF WaitsFor, At
<1> QED BY <1>1, InstructionsDiffer

\* A guard is dropped by the task that holds the mutex.
LEMMA UnlockByOwner ==
    ASSUME TypeOK, HeldInv, NEW t \in Tasks, NEW l \in Locks, At(t, Unlock(l))
    PROVE  owner[l] = t
<1>1. pc[t] \in 1..Len(prog[t]) /\ prog[t][pc[t]] = Unlock(l)
  BY ProgFacts DEF At, TypeOK
<1>2. l \in HeldAt(prog[t], pc[t])
  BY <1>1, ProgFacts DEF Scoped
<1> QED BY <1>2 DEF HeldInv, Held

\* A step that leaves the queues alone, and leaves the waiting tasks waiting,
\* keeps the queue invariant.
LEMMA QueuesKept ==
    ASSUME TypeOK, QueueInv, queue' = queue,
           \A u \in Tasks : \A m \in Locks : WaitsFor(u, m) => WaitsFor(u, m)'
    PROVE  QueueInv'
BY DEF QueueInv

-----------------------------------------------------------------------------
\* The inductive invariant holds initially.
LEMMA InitIInv == Init => IInv
<1> SUFFICES ASSUME Init PROVE IInv
  OBVIOUS
<1>1. \A t \in Tasks : prog[t] = NoSection /\ pc[t] = 1 /\ status[t] = "idle" /\ cpu # t
  BY LocksAssumption DEF Init
<1>2. TypeOK
  <2>1. queue \in [Locks -> Seq(Tasks)]
    BY EmptySeq DEF Init
  <2> QED BY <2>1 DEF Init, TypeOK
<1>3. HeldInv
  <2>1. \A t \in Tasks : Held(t) = {}
    BY LocksAssumption DEF Init, Held
  <2> QED BY <1>1, <2>1, HeldAtStart DEF HeldInv
<1>4. PcInv
  <2>1. \A t \in Tasks : Len(prog[t]) = 0
    BY <1>1, NoSectionFacts, Zenon
  <2>2. ASSUME NEW t \in Tasks PROVE pc[t] <= Len(prog[t]) + 1
    <3>1. pc[t] = 1
      BY <1>1
    <3> QED BY <2>1, <3>1
  <2> QED BY <1>1, <2>2, Zenon DEF PcInv
<1>5. QueueInv
  <2>1. \A l \in Locks : Len(queue[l]) = 0
    BY EmptySeq DEF Init
  <2> QED BY <2>1 DEF QueueInv
<1> QED BY <1>2, <1>3, <1>4, <1>5 DEF IInv

\* Every step of a task or of the runtime preserves it.
LEMMA NextIInv == IInv /\ [Next]_vars => IInv'
<1> SUFFICES ASSUME IInv, [Next]_vars PROVE IInv'
  OBVIOUS
<1> USE LocksAssumption DEF IInv
<1>1. ASSUME NEW t \in Tasks, NEW p \in Programs, Begin(t, p) PROVE IInv'
  <2>0. prog'[t] = p /\ pc'[t] = 1 /\ status'[t] = "ready" /\ cpu' = t
    BY <1>1 DEF Begin, TypeOK
  <2>1. \A u \in Tasks \ {t} : prog'[u] = prog[u] /\ pc'[u] = pc[u] /\ status'[u] = status[u] /\ cpu # u
    BY <1>1 DEF Begin, TypeOK
  <2>2. TypeOK'
    BY <1>1 DEF Begin, TypeOK
  <2>3. HeldInv'
    <3>1. Held(t) = {} /\ HeldAt(p, 1) = {}
      BY <1>1, HeldAtStart DEF Begin, HeldInv, PcInv
    <3> QED BY <1>1, <2>0, <2>1, <3>1 DEF Begin, HeldInv, Held
  <2>4. PcInv'
    <3>1. Len(p) \in Nat
      BY LenProperties, ProgramsAssumption
    <3> QED BY <2>0, <2>1, <3>1 DEF PcInv, At
  <2>5. QueueInv'
    <3>1. \A u \in Tasks : \A m \in Locks : WaitsFor(u, m) => WaitsFor(u, m)'
      BY <1>1, <2>1 DEF Begin, WaitsFor, At
    <3> QED BY <1>1, <3>1, QueuesKept DEF Begin
  <2> QED BY <2>2, <2>3, <2>4, <2>5
<1>2. ASSUME NEW t \in Tasks, Poll(t) PROVE IInv'
  <2>1. TypeOK'
    BY <1>2 DEF Poll, TypeOK
  <2>2. HeldInv'
    BY <1>2 DEF Poll, HeldInv, Held
  <2>3. PcInv'
    BY <1>2 DEF Poll, PcInv, At
  <2>4. QueueInv'
    <3>1. \A u \in Tasks : \A m \in Locks : WaitsFor(u, m) => WaitsFor(u, m)'
      BY <1>2 DEF Poll, WaitsFor, At
    <3> QED BY <1>2, <3>1, QueuesKept DEF Poll
  <2> QED BY <2>1, <2>2, <2>3, <2>4
<1>3. ASSUME NEW t \in Tasks, NEW l \in Locks, Acquire(t, l) PROVE IInv'
  <2>1. TypeOK'
    BY <1>3 DEF Acquire, TypeOK
  <2>2. HeldInv'
    <3>1. HeldAt(prog[t], pc[t] + 1) = HeldAt(prog[t], pc[t]) \union {l}
      BY <1>3, HeldAfterLock DEF Acquire, At, TypeOK
    <3>2. Held(t)' = Held(t) \union {l}
      BY <1>3 DEF Acquire, Held, TypeOK
    <3>3. \A u \in Tasks \ {t} : Held(u)' = Held(u)
      BY <1>3 DEF Acquire, Held, TypeOK
    <3> QED BY <1>3, <3>1, <3>2, <3>3 DEF Acquire, HeldInv, TypeOK
  <2>3. PcInv'
    <3>1. pc[t] + 1 <= Len(prog[t]) + 1
      BY <1>3, ProgFacts DEF Acquire, At, TypeOK
    <3> QED BY <1>3, <3>1 DEF Acquire, PcInv, TypeOK, At
  <2>4. QueueInv'
    <3>1. \A u \in Tasks : \A m \in Locks : WaitsFor(u, m) => WaitsFor(u, m)'
      BY <1>3 DEF Acquire, WaitsFor, At, PcInv, TypeOK
    <3> QED BY <1>3, <3>1, QueuesKept DEF Acquire
  <2> QED BY <2>1, <2>2, <2>3, <2>4
<1>4. ASSUME NEW t \in Tasks, NEW l \in Locks, Block(t, l) PROVE IInv'
  <2>1. TypeOK'
    BY <1>4 DEF Block, TypeOK
  <2>2. HeldInv'
    BY <1>4 DEF Block, HeldInv, Held
  <2>3. PcInv'
    BY <1>4 DEF Block, PcInv, TypeOK, At
  <2>4. QueueInv'
    <3>1. \A u \in Tasks : \A m \in Locks : WaitsFor(u, m) => u # t /\ WaitsFor(u, m)'
      BY <1>4 DEF Block, WaitsFor, At, PcInv, TypeOK
    <3>2. WaitsFor(t, l)'
      BY <1>4 DEF Block, WaitsFor, At, TypeOK
    <3>3. \A m \in Locks : queue[m] \in Seq(Tasks) /\ queue'[m] = IF m = l THEN Append(queue[m], t) ELSE queue[m]
      BY <1>4 DEF Block, TypeOK
    <3>4. \A m \in Locks : \A i \in 1..Len(queue[m]) : queue[m][i] \in Tasks /\ queue[m][i] # t
      <4>1. \A m \in Locks : \A i \in 1..Len(queue[m]) : queue[m][i] \in Tasks
        BY <3>3, ElementOfSeq
      <4> QED BY <3>1, <4>1 DEF QueueInv
    <3>5. /\ Len(queue'[l]) = Len(queue[l]) + 1
          /\ queue'[l][Len(queue[l]) + 1] = t
          /\ \A i \in 1..Len(queue[l]) : queue'[l][i] = queue[l][i]
      <4>1. queue'[l] = Append(queue[l], t) /\ queue[l] \in Seq(Tasks)
        BY <3>3
      <4> QED BY <4>1, AppendProperties
    <3>6. /\ Len(queue[l]) \in Nat
          /\ \A i \in 1..Len(queue'[l]) : i \in 1..Len(queue[l]) \/ i = Len(queue[l]) + 1
      BY <3>3, <3>5, LenProperties
    <3>7. ASSUME NEW m \in Locks, NEW u \in Tasks, NEW i \in 1..Len(queue'[m]), queue'[m][i] = u
          PROVE  WaitsFor(u, m)'
      <4>1. CASE m # l
        BY <4>1, <3>1, <3>3, <3>7 DEF QueueInv
      <4>2. CASE m = l /\ i \in 1..Len(queue[l])
        BY <4>2, <3>1, <3>5, <3>7 DEF QueueInv
      <4>3. CASE m = l /\ i = Len(queue[l]) + 1
        BY <4>3, <3>2, <3>5, <3>7
      <4> QED BY <3>6, <4>1, <4>2, <4>3
    <3>8. ASSUME NEW m \in Locks, NEW i \in 1..Len(queue'[m]), NEW j \in 1..Len(queue'[m]),
                 queue'[m][i] = queue'[m][j]
          PROVE  i = j
      <4>1. CASE m # l
        BY <4>1, <3>3, <3>8 DEF QueueInv
      <4>2. CASE m = l
        <5>1. CASE i \in 1..Len(queue[l]) /\ j \in 1..Len(queue[l])
          BY <4>2, <5>1, <3>5, <3>8 DEF QueueInv
        <5>2. CASE i = Len(queue[l]) + 1 /\ j \in 1..Len(queue[l])
          BY <4>2, <5>2, <3>4, <3>5, <3>8
        <5>3. CASE i \in 1..Len(queue[l]) /\ j = Len(queue[l]) + 1
          BY <4>2, <5>3, <3>4, <3>5, <3>8
        <5> QED BY <4>2, <3>6, <5>1, <5>2, <5>3
      <4> QED BY <4>1, <4>2
    <3> QED BY <3>7, <3>8 DEF QueueInv
  <2> QED BY <2>1, <2>2, <2>3, <2>4
<1>5. ASSUME NEW t \in Tasks, NEW l \in Locks, Release(t, l) PROVE IInv'
  <2>1. TypeOK'
    BY <1>5 DEF Release, TypeOK
  <2>2. HeldInv'
    <3>1. HeldAt(prog[t], pc[t] + 1) = HeldAt(prog[t], pc[t]) \ {l}
      BY <1>5, HeldAfterUnlock DEF Release, At, TypeOK
    <3>2. owner[l] = t
      BY <1>5, UnlockByOwner DEF Release
    <3>3. Held(t)' = Held(t) \ {l}
      BY <1>5 DEF Release, Held, TypeOK
    <3>4. \A u \in Tasks \ {t} : Held(u)' = Held(u)
      BY <1>5, <3>2 DEF Release, Held, TypeOK
    <3> QED BY <1>5, <3>1, <3>3, <3>4 DEF Release, HeldInv, TypeOK
  <2>3. PcInv'
    <3>1. pc[t] + 1 <= Len(prog[t]) + 1
      BY <1>5, ProgFacts DEF Release, At, TypeOK
    <3> QED BY <1>5, <3>1 DEF Release, PcInv, TypeOK, At
  <2>4. QueueInv'
    <3>1. \A u \in Tasks : \A m \in Locks : WaitsFor(u, m) => WaitsFor(u, m)'
      BY <1>5 DEF Release, WaitsFor, At, PcInv, TypeOK
    <3> QED BY <1>5, <3>1, QueuesKept DEF Release
  <2> QED BY <2>1, <2>2, <2>3, <2>4
<1>6. ASSUME NEW t \in Tasks, NEW l \in Locks, HandOver(t, l) PROVE IInv'
  <2> DEFINE w == Head(queue[l])
  <2>0. queue[l] \in Seq(Tasks) /\ queue[l] # << >>
    BY <1>6 DEF HandOver, TypeOK
  <2>1. w \in Tasks /\ w = queue[l][1] /\ Len(queue[l]) \in Nat \ {0}
    BY <2>0, HeadTailProperties, EmptySeq, LenProperties, ElementOfSeq
  <2>2. WaitsFor(w, l) /\ w # t
    BY <1>6, <2>1 DEF QueueInv, HandOver, WaitsFor, PcInv
  <2>3. /\ pc'[t] = pc[t] + 1 /\ pc'[w] = pc[w] + 1
        /\ status'[w] = "ready" /\ prog' = prog /\ cpu' = cpu
        /\ \A u \in Tasks \ {w} : status'[u] = status[u]
        /\ \A u \in Tasks \ {t, w} : pc'[u] = pc[u]
    BY <1>6, <2>1 DEF HandOver, TypeOK
  <2>4. TypeOK'
    <3>1. Tail(queue[l]) \in Seq(Tasks)
      BY <2>0, HeadTailProperties
    <3>2. queue' \in [Locks -> Seq(Tasks)]
      BY <1>6, <3>1 DEF HandOver, TypeOK
    <3>3. pc' \in [Tasks -> Nat \ {0}]
      BY <1>6 DEF HandOver, TypeOK
    <3> QED BY <1>6, <2>1, <3>2, <3>3 DEF HandOver, TypeOK
  <2>5. HeldInv'
    <3>1. HeldAt(prog[t], pc[t] + 1) = HeldAt(prog[t], pc[t]) \ {l}
      BY <1>6, HeldAfterUnlock DEF HandOver, At, TypeOK
    <3>2. HeldAt(prog[w], pc[w] + 1) = HeldAt(prog[w], pc[w]) \union {l}
      BY <2>1, <2>2, HeldAfterLock DEF WaitsFor, At, TypeOK
    <3>3. owner[l] = t
      BY <1>6, UnlockByOwner DEF HandOver
    <3>4. owner' = [owner EXCEPT ![l] = w]
      BY <1>6 DEF HandOver
    <3>5. Held(t)' = Held(t) \ {l}
      BY <2>2, <3>4 DEF Held, TypeOK
    <3>6. \A u \in Tasks : u = w => Held(u)' = Held(u) \union {l}
      BY <2>1, <3>4 DEF Held, TypeOK
    <3>7. \A u \in Tasks \ {t, w} : Held(u)' = Held(u)
      BY <3>3, <3>4 DEF Held, TypeOK
    <3> HIDE DEF w
    <3>8. ASSUME NEW u \in Tasks PROVE Held(u)' = HeldAt(prog'[u], pc'[u])
      <4>1. CASE u = t
        BY <4>1, <2>3, <3>1, <3>5 DEF HeldInv
      <4>2. CASE u = w
        BY <4>2, <2>3, <3>2, <3>6 DEF HeldInv
      <4>3. CASE u \notin {t, w}
        BY <4>3, <2>3, <3>7 DEF HeldInv
      <4> QED BY <4>1, <4>2, <4>3
    <3> QED BY <3>8 DEF HeldInv
  <2>6. PcInv'
    <3>1. pc[t] + 1 <= Len(prog[t]) + 1
      BY <1>6, ProgFacts DEF HandOver, At, TypeOK
    <3>2. pc[w] + 1 <= Len(prog[w]) + 1
      BY <2>1, <2>2, ProgFacts DEF WaitsFor, At, TypeOK
    <3>3. cpu = t
      BY <1>6 DEF HandOver
    <3> HIDE DEF w
    <3>4. status[t] = "ready" /\ w # t
      BY <2>2, <3>3, Zenon DEF PcInv
    <3>5. ASSUME NEW u \in Tasks
          PROVE  /\ pc'[u] <= Len(prog'[u]) + 1
                 /\ status'[u] = "idle" => prog'[u] = NoSection /\ pc'[u] = 1
                 /\ status'[u] = "io" => At(u, IO)'
                 /\ cpu' = u => status'[u] = "ready"
      <4>1. CASE u = t
        <5>1. status'[u] = "ready" /\ pc'[u] <= Len(prog'[u]) + 1
          BY <4>1, <2>3, <3>1, <3>4, Zenon
        <5> QED BY <5>1
      <4>2. CASE u = w
        <5>1. status'[u] = "ready" /\ pc'[u] <= Len(prog'[u]) + 1
          BY <4>2, <2>3, <3>2, Zenon
        <5> QED BY <5>1
      <4>3. CASE u \notin {t, w}
        BY <4>3, <2>3, Zenon DEF PcInv, At
      <4> QED BY <4>1, <4>2, <4>3, Zenon
    <3> QED BY <3>5, Zenon DEF PcInv
  <2>7. QueueInv'
    <3>1. \A u \in Tasks : \A m \in Locks : WaitsFor(u, m) /\ u # w => WaitsFor(u, m)'
      BY <1>6, <2>3 DEF HandOver, WaitsFor, At, PcInv
    <3>2. \A m \in Locks \ {l} : queue'[m] = queue[m]
      BY <1>6 DEF HandOver, TypeOK
    <3>3. queue'[l] = Tail(queue[l])
      BY <1>6 DEF HandOver, TypeOK
    <3>4. /\ Len(queue'[l]) = Len(queue[l]) - 1
          /\ \A i \in 1..Len(queue'[l]) : queue'[l][i] = queue[l][i + 1]
      BY <2>0, <3>3, HeadTailProperties
    <3>5. \A i \in 1..Len(queue'[l]) : i + 1 \in 1..Len(queue[l]) /\ i + 1 # 1
      BY <2>1, <3>4
    <3>6. \A m \in Locks \ {l} : \A i \in 1..Len(queue[m]) : queue[m][i] # w
      BY <2>1, <2>2, WaitsForOne DEF QueueInv
    <3> HIDE DEF w
    <3>7. ASSUME NEW m \in Locks, NEW u \in Tasks, NEW i \in 1..Len(queue'[m]), queue'[m][i] = u
          PROVE  WaitsFor(u, m)'
      <4>1. CASE m # l
        BY <4>1, <3>1, <3>2, <3>6, <3>7 DEF QueueInv
      <4>2. CASE m = l
        <5>1. queue[l][i + 1] = u /\ i + 1 \in 1..Len(queue[l]) /\ i + 1 # 1 /\ 1 \in 1..Len(queue[l])
          BY <4>2, <2>1, <3>4, <3>5, <3>7
        <5>2. u # w
          BY <2>1, <5>1 DEF QueueInv
        <5> QED BY <4>2, <5>1, <5>2, <3>1 DEF QueueInv
      <4> QED BY <4>1, <4>2
    <3>8. ASSUME NEW m \in Locks, NEW i \in 1..Len(queue'[m]), NEW j \in 1..Len(queue'[m]),
                 queue'[m][i] = queue'[m][j]
          PROVE  i = j
      <4>1. CASE m # l
        BY <4>1, <3>2, <3>8 DEF QueueInv
      <4>2. CASE m = l
        <5>1. i + 1 = j + 1
          BY <4>2, <3>4, <3>5, <3>8 DEF QueueInv
        <5> QED BY <4>2, <5>1, <2>1, <3>4
      <4> QED BY <4>1, <4>2
    <3> QED BY <3>7, <3>8 DEF QueueInv
  <2> QED BY <2>4, <2>5, <2>6, <2>7
<1>7. ASSUME NEW t \in Tasks, StartIO(t) PROVE IInv'
  <2>1. TypeOK'
    BY <1>7 DEF StartIO, TypeOK
  <2>2. HeldInv'
    BY <1>7 DEF StartIO, HeldInv, Held
  <2>3. PcInv'
    BY <1>7 DEF StartIO, PcInv, At, TypeOK
  <2>4. QueueInv'
    <3>1. \A u \in Tasks : \A m \in Locks : WaitsFor(u, m) => WaitsFor(u, m)'
      BY <1>7 DEF StartIO, WaitsFor, At, PcInv, TypeOK
    <3> QED BY <1>7, <3>1, QueuesKept DEF StartIO
  <2> QED BY <2>1, <2>2, <2>3, <2>4
<1>8. ASSUME NEW t \in Tasks, EndIO(t) PROVE IInv'
  <2>1. TypeOK'
    BY <1>8 DEF EndIO, TypeOK
  <2>2. At(t, IO)
    BY <1>8 DEF EndIO, PcInv
  <2>3. HeldInv'
    <3>1. HeldAt(prog[t], pc[t] + 1) = HeldAt(prog[t], pc[t])
      BY <2>2, HeldAfterIO DEF At, TypeOK
    <3> QED BY <1>8, <3>1 DEF EndIO, HeldInv, Held, TypeOK
  <2>4. PcInv'
    <3>1. pc[t] + 1 <= Len(prog[t]) + 1
      BY <2>2, ProgFacts DEF At, TypeOK
    <3> QED BY <1>8, <3>1 DEF EndIO, PcInv, At, TypeOK
  <2>5. QueueInv'
    <3>1. \A u \in Tasks : \A m \in Locks : WaitsFor(u, m) => WaitsFor(u, m)'
      BY <1>8 DEF EndIO, WaitsFor, At, TypeOK
    <3> QED BY <1>8, <3>1, QueuesKept DEF EndIO
  <2> QED BY <2>1, <2>3, <2>4, <2>5
<1>9. ASSUME NEW t \in Tasks, Finish(t) PROVE IInv'
  <2>0. prog'[t] = NoSection /\ pc'[t] = 1 /\ status'[t] = "idle" /\ cpu' = NoTask
    BY <1>9 DEF Finish, TypeOK
  <2>1. \A u \in Tasks \ {t} : prog'[u] = prog[u] /\ pc'[u] = pc[u] /\ status'[u] = status[u]
    BY <1>9 DEF Finish, TypeOK
  <2>2. TypeOK'
    BY <1>9 DEF Finish, TypeOK
  <2>3. HeldInv'
    <3>1. pc[t] = Len(prog[t]) + 1
      BY <1>9, ProgFacts DEF Finish, PcInv, TypeOK
    <3>2. Held(t) = {} /\ HeldAt(NoSection, 1) = {}
      BY <3>1, ProgFacts, HeldAtStart DEF HeldInv, Scoped
    <3>3. \A u \in Tasks : Held(u)' = Held(u)
      BY <1>9 DEF Finish, Held
    <3> QED BY <2>0, <2>1, <3>2, <3>3 DEF HeldInv
  <2>4. PcInv'
    <3>1. pc'[t] <= Len(prog'[t]) + 1
      <4>1. Len(prog'[t]) = 0
        BY <2>0, NoSectionFacts
      <4>2. pc'[t] = 1
        BY <2>0
      <4> QED BY <4>1, <4>2
    <3>2. \A u \in Tasks : cpu' # u
      BY <2>0
    <3> QED BY <2>0, <2>1, <3>1, <3>2 DEF PcInv, At
  <2>5. QueueInv'
    <3>1. \A u \in Tasks : \A m \in Locks : WaitsFor(u, m) => WaitsFor(u, m)'
      BY <1>9, <2>1 DEF Finish, WaitsFor, At, PcInv
    <3> QED BY <1>9, <3>1, QueuesKept DEF Finish
  <2> QED BY <2>2, <2>3, <2>4, <2>5
<1>10. CASE UNCHANGED vars
  BY <1>10 DEF vars, TypeOK, HeldInv, Held, PcInv, QueueInv, WaitsFor, At
<1> QED BY <1>1, <1>2, <1>3, <1>4, <1>5, <1>6, <1>7, <1>8, <1>9, <1>10 DEF Next, Step

\* What every task holds, where it is and where it queues, in every run of the
\* daemon: in particular its types.
THEOREM Invariance == Spec => []IInv
BY InitIInv, NextIInv, PTL DEF Spec

\* The variables of the runtime and of the mutexes keep their types.
THEOREM TypeCorrect == Spec => []TypeOK
<1>1. IInv => TypeOK
  BY DEF IInv
<1> QED BY <1>1, Invariance, PTL

-----------------------------------------------------------------------------
\* What a task that is about to lock l runs and holds.
LEMMA LockingFacts ==
    ASSUME IInv, NEW t \in Tasks, NEW l \in Locks, At(t, Lock(l))
    PROVE  /\ prog[t] \in Programs /\ pc[t] \in 1..Len(prog[t])
           /\ prog[t][pc[t]] = Lock(l)
           /\ \A h \in Locks : owner[h] = t <=> h \in HeldAt(prog[t], pc[t])
<1>1. prog[t] \in Programs
  <2>1. Len(NoSection) = 0 /\ pc[t] <= Len(prog[t]) /\ pc[t] \in Nat \ {0}
    BY NoSectionFacts DEF IInv, TypeOK, At
  <2>2. prog[t] # NoSection
    BY <2>1
  <2> QED BY <2>2 DEF IInv, TypeOK
<1>2. pc[t] \in 1..Len(prog[t]) /\ prog[t][pc[t]] = Lock(l)
  BY ProgFacts DEF IInv, TypeOK, At
<1>3. \A h \in Locks : owner[h] = t <=> h \in HeldAt(prog[t], pc[t])
  BY DEF IInv, HeldInv, Held
<1> QED BY <1>1, <1>2, <1>3

\* A disciplined task of a stuck group that waits for m while it holds l: either
\* m is ranked above l, or the task also holds a gate of m, which the holder of
\* m would have to hold too.
LEMMA WaitsUpward ==
    ASSUME IInv, NEW u \in Tasks, NEW v \in Tasks, NEW l \in Locks, NEW m \in Locks, NEW k \in Locks,
           Disciplined(Programs, prog[u]), At(u, Lock(m)), owner[l] = u,
           owner[m] = v, At(v, Lock(k))
    PROVE  Rank[l] < Rank[m]
<1> DEFINE H == HeldAt(prog[u], pc[u])
<1>1. /\ prog[u] \in Programs /\ pc[u] \in 1..Len(prog[u]) /\ prog[u][pc[u]] = Lock(m)
      /\ \A h \in Locks : owner[h] = u <=> h \in H
  BY LockingFacts
<1>2. /\ prog[v] \in Programs /\ pc[v] \in 1..Len(prog[v]) /\ prog[v][pc[v]] = Lock(k)
      /\ \A h \in Locks : owner[h] = v <=> h \in HeldAt(prog[v], pc[v])
  BY LockingFacts
<1>3. m \notin H /\ ((\A h \in H : Rank[h] < Rank[m]) \/ \E g \in H : Gates(Programs, g, m))
  BY <1>1 DEF Disciplined
<1>4. u # v
  BY <1>1, <1>3
<1>5. ASSUME NEW g \in H, Gates(Programs, g, m) PROVE FALSE
  <2>1. prog[v][pc[v]].op = "lock" /\ m \in HeldAt(prog[v], pc[v])
    BY <1>2 DEF Lock
  <2>2. g \in HeldAt(prog[v], pc[v])
    BY <1>2, <1>5, <2>1 DEF Gates
  <2>3. g \in Locks
    BY <1>5 DEF HeldAt
  <2> QED BY <1>1, <1>2, <1>4, <1>5, <2>2, <2>3
<1> QED BY <1>1, <1>3, <1>5

\* In a state of the invariant a group of disciplined tasks is not stuck: the
\* holder of the highest mutex that is waited for would wait for a higher one.
LEMMA DisciplineExcludesDeadlock ==
    ASSUME IInv, NEW S \in SUBSET Tasks, Stuck(S)
    PROVE  \E t \in S : ~Disciplined(Programs, prog[t])
<1> SUFFICES ASSUME \A t \in S : Disciplined(Programs, prog[t])
             PROVE  FALSE
  OBVIOUS
<1>0. S # {} /\ \A t \in S : \E l \in Locks : WaitsFor(t, l) /\ owner[l] \in S
  BY DEF Stuck
<1> DEFINE Awaited == {MaxRank - Rank[l] : l \in {m \in Locks : \E t \in S : WaitsFor(t, m) /\ owner[m] \in S}}
<1>1. Awaited \subseteq Nat /\ Awaited # {}
  BY <1>0, LocksAssumption
<1>2. PICK n \in Awaited : \A k \in Awaited : ~(k < n)
  <2>1. IsWellFoundedOn(OpToRel(<, Nat), Nat)
    BY NatLessThanWellFounded
  <2>2. \E x \in Awaited : \A y \in Awaited : ~(<<y, x>> \in OpToRel(<, Nat))
    BY <1>1, <2>1, WFMin
  <2> QED BY <1>1, <2>2 DEF OpToRel
<1>3. PICK l \in Locks, t \in S : n = MaxRank - Rank[l] /\ WaitsFor(t, l) /\ owner[l] \in S
  BY <1>2
<1>4. PICK m \in Locks : WaitsFor(owner[l], m) /\ owner[m] \in S
  BY <1>0, <1>3
<1>5. PICK k \in Locks : WaitsFor(owner[m], k)
  BY <1>0, <1>4
<1>6. Rank[l] < Rank[m]
  <2>1. owner[l] \in Tasks /\ owner[m] \in Tasks /\ Disciplined(Programs, prog[owner[l]])
    BY <1>3, <1>4
  <2>2. At(owner[l], Lock(m)) /\ At(owner[m], Lock(k))
    BY <1>4, <1>5 DEF WaitsFor
  <2> QED BY <2>1, <2>2, WaitsUpward
<1>7. MaxRank - Rank[m] \in Awaited
  BY <1>3, <1>4
<1>8. Rank[l] \in 0..MaxRank /\ Rank[m] \in 0..MaxRank /\ MaxRank \in Nat
  BY LocksAssumption
<1> HIDE DEF Awaited
<1>9. ~(MaxRank - Rank[m] < MaxRank - Rank[l])
  BY <1>2, <1>3, <1>7
<1> QED BY <1>6, <1>8, <1>9

\* If the sections that break the discipline are among Offenders, then every
\* deadlock of the daemon involves one of these, however many connections it
\* serves and however their requests interleave.
THEOREM DeadlocksNeedOffender ==
    ASSUME OffendersNamed(Programs)
    PROVE  Spec => []DeadlockNeedsOffender
<1>1. ASSUME IInv PROVE DeadlockNeedsOffender
  <2> SUFFICES ASSUME NEW S \in SUBSET Tasks, Stuck(S)
               PROVE  \E t \in S : prog[t] \in Offenders
    BY DEF DeadlockNeedsOffender
  <2>1. PICK t \in S : ~Disciplined(Programs, prog[t])
    BY <1>1, DisciplineExcludesDeadlock
  <2>2. PICK l \in Locks : At(t, Lock(l))
    BY <2>1 DEF Stuck, WaitsFor
  <2>3. prog[t] \in Programs
    BY <1>1, <2>2, LockingFacts
  <2> QED BY <2>1, <2>3 DEF OffendersNamed
<1>2. IInv => DeadlockNeedsOffender
  BY <1>1
<1> QED BY <1>2, Invariance, PTL

-----------------------------------------------------------------------------
(***************************************************************************)
(* A refresh stores its outcome before the next provider call.  Nothing is *)
(* held in between: the argument is about who stands where in the queue of *)
(* db.  While the task that stores drops its guards it is not preempted,   *)
(* so that no holder of hsm that is to call the provider is in that queue  *)
(* when it joins it, and every later one queues behind it.                 *)
(***************************************************************************)

\* The task is dropping the second guard of its provider call.
Dropping(t) == StoresAfterCall(prog[t]) /\ pc[t] = Len(prog[t]) - 2

\* The task is locking db to store the outcome.
Storing(t) == StoresAfterCall(prog[t]) /\ pc[t] = Len(prog[t]) - 1

Queued(t) == \E i \in 1..Len(queue["db"]) : queue["db"][i] = t

\* If u is in the queue of db at all, then t is ahead of it.
Behind(u, t) ==
    \A j \in 1..Len(queue["db"]) :
        queue["db"][j] = u => \E i \in 1..(j-1) : queue["db"][i] = t

\* A mutex that somebody waits for is taken.
TakenInv == \A l \in Locks : queue[l] # << >> => owner[l] # NoTask

\* No task that holds hsm for a provider call gets db before the store.
StoreAhead(t) ==
    \A u \in Tasks :
        owner["hsm"] = u /\ CallsProvider(prog[u]) => owner["db"] # u /\ Behind(u, t)

StoreKept(t) ==
    /\ Dropping(t) => cpu = t
    /\ Storing(t) => cpu = t \/ Queued(t)
    /\ Dropping(t) \/ Storing(t) => StoreAhead(t)

StoreInv == TakenInv /\ \A t \in Tasks : StoreKept(t)

-----------------------------------------------------------------------------
\* The last four instructions of a section that stores after its provider call.
LEMMA StoreTail ==
    ASSUME NEW p \in Seq(Instruction), StoresAfterCall(p)
    PROVE  /\ Len(p) \in Nat /\ Len(p) >= 4
           /\ p[Len(p) - 3] = Unlock("hsm")
           /\ p[Len(p) - 2] = Unlock("db")
           /\ p[Len(p) - 1] = Lock("db")
           /\ p[Len(p)] = Unlock("db")
<1> DEFINE n == Len(p)
           tail == SubSeq(p, n - 3, n)
<1>1. n \in Nat /\ n >= 4
  BY LenProperties, SMT DEF StoresAfterCall
<1>2. tail = <<Unlock("hsm"), Unlock("db"), Lock("db"), Unlock("db")>>
  BY DEF StoresAfterCall
<1>3. \A i \in 1..(n - (n - 3) + 1) : tail[i] = p[(n - 3) + i - 1]
  BY <1>1, SubSeqProperties, SMT
<1> HIDE DEF n, tail
<1>4. /\ tail[1] = Unlock("hsm") /\ tail[2] = Unlock("db")
      /\ tail[3] = Lock("db") /\ tail[4] = Unlock("db")
  BY <1>2, SMT
<1>5. tail[1] = p[n - 3] /\ tail[2] = p[n - 2] /\ tail[3] = p[n - 1] /\ tail[4] = p[n]
  <2>1. ASSUME NEW k \in Nat, k >= 4
        PROVE  /\ {1, 2, 3, 4} \subseteq 1..(k - (k - 3) + 1)
               /\ (k - 3) + 1 - 1 = k - 3 /\ (k - 3) + 2 - 1 = k - 2
               /\ (k - 3) + 3 - 1 = k - 1 /\ (k - 3) + 4 - 1 = k
    BY <2>1, SMT
  <2>2. /\ {1, 2, 3, 4} \subseteq 1..(n - (n - 3) + 1)
        /\ (n - 3) + 1 - 1 = n - 3 /\ (n - 3) + 2 - 1 = n - 2
        /\ (n - 3) + 3 - 1 = n - 1 /\ (n - 3) + 4 - 1 = n
    BY <1>1, <2>1
  <2> QED BY <1>3, <2>2, ZenonT(30)
<1> QED BY <1>1, <1>4, <1>5 DEF n

\* A section does not start with its store.
LEMMA StoreNotFirst ==
    ASSUME NEW p \in Seq(Instruction), StoresAfterCall(p)
    PROVE  1 # Len(p) - 2 /\ 1 # Len(p) - 1
<1>1. Len(p) \in Nat /\ Len(p) >= 4
  BY StoreTail
<1>2. \A n \in Nat : n >= 4 => 1 # n - 2 /\ 1 # n - 1
  OBVIOUS
<1> QED BY <1>1, <1>2, Zenon

\* Such a section holds both mutexes when it drops the first guard, and not hsm
\* once it has dropped both.
LEMMA StoreHolds ==
    ASSUME GuardsExist, NEW p \in Seq(Instruction), Scoped(p), StoresAfterCall(p)
    PROVE  /\ {"hsm", "db"} \subseteq HeldAt(p, Len(p) - 3)
           /\ "hsm" \notin HeldAt(p, Len(p) - 1)
           /\ "hsm" \notin HeldAt(p, Len(p))
           /\ "db" \in HeldAt(p, Len(p))
<1> DEFINE n == Len(p)
<1>0. "hsm" \in Locks /\ "db" \in Locks
  BY DEF GuardsExist, CallLocks
<1>1. /\ n \in Nat /\ n >= 4
      /\ p[n - 3] = Unlock("hsm") /\ p[n - 2] = Unlock("db")
      /\ p[n - 1] = Lock("db") /\ p[n] = Unlock("db")
  BY StoreTail
<1> HIDE DEF n
<1>2. /\ n - 3 \in 1..n /\ n - 2 \in 1..n /\ n \in 1..n
      /\ n - 3 \in Nat \ {0} /\ n - 2 \in Nat \ {0} /\ n - 1 \in Nat \ {0} /\ n \in Nat \ {0}
      /\ (n - 3) + 1 = n - 2 /\ (n - 2) + 1 = n - 1 /\ (n - 1) + 1 = n
  BY <1>1, SMT
<1>3. "hsm" \in HeldAt(p, n - 3) /\ "db" \in HeldAt(p, n - 2) /\ "db" \in HeldAt(p, n)
  BY <1>0, <1>1, <1>2 DEF Scoped, n
<1>4. HeldAt(p, n - 2) = HeldAt(p, n - 3) \ {"hsm"}
  BY <1>0, <1>1, <1>2, HeldAfterUnlock
<1>5. HeldAt(p, n - 1) = HeldAt(p, n - 2) \ {"db"}
  BY <1>0, <1>1, <1>2, HeldAfterUnlock
<1>6. HeldAt(p, n) = HeldAt(p, n - 1) \union {"db"}
  BY <1>0, <1>1, <1>2, HeldAfterLock
<1>7. "hsm" # "db"
  OBVIOUS
<1> QED BY <1>3, <1>4, <1>5, <1>6, <1>7 DEF n

\* Most leaves below are first-order; those that count say so (SMT).
USE ZenonT(30)

\* What a task that is about to store is doing.
LEMMA PhaseFacts ==
    ASSUME GuardsExist, IInv, NEW t \in Tasks
    PROVE  /\ Dropping(t) => At(t, Unlock("db"))
           /\ Storing(t) => At(t, Lock("db")) /\ owner["hsm"] # t
<1>0. prog[t] \in Seq(Instruction) /\ Scoped(prog[t]) /\ Held(t) = HeldAt(prog[t], pc[t])
  BY ProgFacts DEF IInv, HeldInv
<1>1. ASSUME Dropping(t) PROVE At(t, Unlock("db"))
  <2>1. /\ Len(prog[t]) \in Nat /\ prog[t][Len(prog[t]) - 2] = Unlock("db")
        /\ pc[t] = Len(prog[t]) - 2
    BY <1>0, <1>1, StoreTail DEF Dropping
  <2>2. pc[t] <= Len(prog[t])
    BY <2>1, SMT
  <2> QED BY <2>1, <2>2 DEF At
<1>2. ASSUME Storing(t) PROVE At(t, Lock("db")) /\ owner["hsm"] # t
  <2>1. /\ Len(prog[t]) \in Nat /\ prog[t][Len(prog[t]) - 1] = Lock("db")
        /\ pc[t] = Len(prog[t]) - 1
    BY <1>0, <1>2, StoreTail DEF Storing
  <2>2. pc[t] <= Len(prog[t])
    BY <2>1, SMT
  <2>3. "hsm" \notin Held(t)
    BY <1>0, <1>2, StoreHolds DEF Storing
  <2> QED BY <2>1, <2>2, <2>3 DEF At, Held, GuardsExist, CallLocks
<1> QED BY <1>1, <1>2

\* How a task gets to the store: it drops hsm while it holds both guards, then
\* db.
LEMMA PhaseAfter ==
    ASSUME GuardsExist, IInv, NEW t \in Tasks, prog'[t] = prog[t], pc'[t] = pc[t] + 1
    PROVE  /\ Dropping(t)' => At(t, Unlock("hsm")) /\ owner["db"] = t
           /\ Storing(t)' => Dropping(t)
<1>0. /\ prog[t] \in Seq(Instruction) /\ Scoped(prog[t]) /\ Held(t) = HeldAt(prog[t], pc[t])
      /\ pc[t] \in Nat
  BY ProgFacts DEF IInv, HeldInv, TypeOK
<1>1. ASSUME Dropping(t)' PROVE At(t, Unlock("hsm")) /\ owner["db"] = t
  <2>1. StoresAfterCall(prog[t]) /\ pc[t] + 1 = Len(prog[t]) - 2
    BY <1>1 DEF Dropping
  <2>2. Len(prog[t]) \in Nat /\ prog[t][Len(prog[t]) - 3] = Unlock("hsm")
    BY <1>0, <2>1, StoreTail
  <2>3. pc[t] = Len(prog[t]) - 3 /\ pc[t] <= Len(prog[t])
    BY <1>0, <2>1, <2>2, SMT
  <2>4. "db" \in Held(t)
    BY <1>0, <2>1, <2>3, StoreHolds
  <2> QED BY <2>2, <2>3, <2>4 DEF At, Held
<1>2. ASSUME Storing(t)' PROVE Dropping(t)
  <2>1. StoresAfterCall(prog[t]) /\ pc[t] + 1 = Len(prog[t]) - 1
    BY <1>2 DEF Storing
  <2>2. Len(prog[t]) \in Nat
    BY <1>0, <2>1, StoreTail
  <2>3. pc[t] = Len(prog[t]) - 2
    BY <1>0, <2>1, <2>2, SMT
  <2> QED BY <2>1, <2>3 DEF Dropping
<1> QED BY <1>1, <1>2

\* A task that is in the queue of db waits for db.
LEMMA QueuedWaits ==
    ASSUME GuardsExist, IInv, NEW t \in Tasks, Queued(t)
    PROVE  WaitsFor(t, "db")
BY DEF GuardsExist, CallLocks, IInv, QueueInv, Queued

\* A task being polled is in no queue.
LEMMA PolledNotQueued ==
    ASSUME GuardsExist, IInv, NEW t \in Tasks, cpu = t
    PROVE  ~Queued(t)
<1>1. status[t] = "ready"
  BY DEF IInv, PcInv
<1>2. "ready" # "waiting"
  OBVIOUS
<1> QED BY <1>1, <1>2, QueuedWaits DEF WaitsFor

\* A task that takes hsm does not wait for db, nor hold it if it is to call the
\* provider.
LEMMA NewHolder ==
    ASSUME CallsTakeHsmFirst, GuardsExist, IInv, NEW x \in Tasks, At(x, Lock("hsm"))
    PROVE  (CallsProvider(prog[x]) => owner["db"] # x) /\ ~Queued(x)
<1>1. "hsm" \in Locks /\ "db" \in Locks /\ "hsm" # "db"
  BY DEF GuardsExist, CallLocks
<1>2. CallsProvider(prog[x]) => owner["db"] # x
  <2>1. /\ prog[x] \in Programs /\ pc[x] \in 1..Len(prog[x]) /\ prog[x][pc[x]] = Lock("hsm")
        /\ owner["db"] = x => "db" \in HeldAt(prog[x], pc[x])
    BY <1>1, LockingFacts
  <2> QED BY <2>1 DEF CallsTakeHsmFirst, TakesHsmFirst
<1>3. ASSUME Queued(x) PROVE ~TRUE
  <2>1. At(x, Lock("db"))
    BY <1>3, QueuedWaits DEF WaitsFor
  <2>2. Lock("db") = Lock("hsm")
    BY <2>1 DEF At
  <2> QED BY <1>1, <2>2, InstructionsDiffer
<1> QED BY <1>2, <1>3

\* While another task runs, a task about to store is in the queue of db.
LEMMA OthersQueue ==
    ASSUME NEW t \in Tasks, StoreKept(t), Dropping(t) \/ Storing(t), cpu # t
    PROVE  Storing(t) /\ Queued(t) /\ StoreAhead(t)
BY DEF StoreKept

\* A step that does not concern a task about to store, nor hsm and db.
LEMMA StoreUndisturbed ==
    ASSUME NEW t \in Tasks, StoreKept(t), prog'[t] = prog[t], pc'[t] = pc[t],
           owner'["hsm"] = owner["hsm"], owner'["db"] = owner["db"], queue'["db"] = queue["db"],
           \A u \in Tasks : owner["hsm"] = u => prog'[u] = prog[u],
           Dropping(t) \/ Storing(t) => (cpu = t => cpu' = t)
    PROVE  StoreKept(t)'
<1>1. (Dropping(t)' <=> Dropping(t)) /\ (Storing(t)' <=> Storing(t))
  BY DEF Dropping, Storing
<1>2. Queued(t)' <=> Queued(t)
  BY DEF Queued
<1>3. StoreAhead(t)' <=> StoreAhead(t)
  BY DEF StoreAhead, Behind
<1> QED BY <1>1, <1>2, <1>3 DEF StoreKept

\* The mutex db is taken while somebody is in its queue.
LEMMA QueuedTaken ==
    ASSUME GuardsExist, TakenInv, NEW t \in Tasks, Queued(t)
    PROVE  queue["db"] # << >> /\ owner["db"] # NoTask
<1>1. queue["db"] # << >>
  <2>1. PICK i \in 1..Len(queue["db"]) : queue["db"][i] = t
    BY DEF Queued
  <2>2. Len(queue["db"]) # 0
    BY <2>1, SMT
  <2> QED BY <2>2, EmptySeq, SMT
<1> QED BY <1>1 DEF TakenInv, GuardsExist, CallLocks

\* Locking db for the store and dropping the guard of the call are different.
LEMMA PhasesDiffer ==
    ASSUME GuardsExist, IInv, NEW t \in Tasks, Storing(t)
    PROVE  ~Dropping(t)
BY PhaseFacts, InstructionsDiffer DEF At

\* A task that waits its turn for the store stays there.
LEMMA StillQueued ==
    ASSUME GuardsExist, IInv, NEW t \in Tasks, Storing(t), prog'[t] = prog[t], pc'[t] = pc[t],
           Queued(t)', StoreAhead(t)'
    PROVE  StoreKept(t)'
<1>1. ~Dropping(t)'
  BY PhasesDiffer DEF Dropping
<1> QED BY <1>1 DEF StoreKept

\* With hsm free nobody can be in the way of a store.
LEMMA NoHolder ==
    ASSUME NEW t \in Tasks, owner'["hsm"] = NoTask
    PROVE  StoreAhead(t)'
BY LocksAssumption DEF StoreAhead

\* Nor can a new holder of hsm that is not in the queue of db.
LEMMA HolderNotQueued ==
    ASSUME NEW t \in Tasks, NEW x \in Tasks, owner'["hsm"] = x,
           CallsProvider(prog'[x]) => owner'["db"] # x, ~Queued(x), queue'["db"] = queue["db"]
    PROVE  StoreAhead(t)'
BY DEF StoreAhead, Behind, Queued

\* A task about to take a mutex does not thereby come closer to a store.
LEMMA LockingNotStoring ==
    ASSUME GuardsExist, IInv, NEW x \in Tasks, NEW l \in Locks, At(x, Lock(l)),
           prog'[x] = prog[x], pc'[x] = pc[x] + 1
    PROVE  StoreKept(x)'
<1>1. ~Dropping(x)' /\ ~Storing(x)'
  BY PhaseAfter, PhaseFacts, InstructionsDiffer DEF At
<1> QED BY <1>1 DEF StoreKept

\* lock() on a free mutex.
LEMMA AcquireKeepsStore ==
    ASSUME CallsTakeHsmFirst, GuardsExist, IInv, StoreInv, NEW x \in Tasks, NEW l \in Locks, Acquire(x, l),
           NEW t \in Tasks
    PROVE  StoreKept(t)'
<1>1. "hsm" \in Locks /\ "db" \in Locks /\ "hsm" # "db" /\ StoreKept(t) /\ TakenInv
  BY DEF GuardsExist, CallLocks, StoreInv
<1>2. /\ cpu = x /\ cpu' = x /\ At(x, Lock(l)) /\ owner[l] = NoTask
      /\ prog' = prog /\ queue' = queue
  BY DEF Acquire
<1>3. /\ owner'[l] = x /\ \A m \in Locks \ {l} : owner'[m] = owner[m]
      /\ pc'[x] = pc[x] + 1 /\ \A u \in Tasks \ {x} : pc'[u] = pc[u]
  BY SMT DEF Acquire, IInv, TypeOK
<1>4. CASE t = x
  BY <1>2, <1>3, <1>4, LockingNotStoring
<1>5. CASE t # x /\ ~(Dropping(t) \/ Storing(t))
  BY <1>2, <1>3, <1>5 DEF StoreKept, Dropping, Storing
<1>6. CASE t # x /\ (Dropping(t) \/ Storing(t))
  <2>1. Storing(t) /\ Queued(t)
    BY <1>1, <1>2, <1>6, OthersQueue
  <2>2. l # "db"
    BY <1>1, <1>2, <2>1, QueuedTaken
  <2>3. CASE l = "hsm"
    <3>1. (CallsProvider(prog[x]) => owner["db"] # x) /\ ~Queued(x)
      BY <1>2, <2>3, NewHolder
    <3>2. StoreAhead(t)'
      BY <1>1, <1>2, <1>3, <2>3, <3>1, HolderNotQueued
    <3>3. Queued(t)'
      BY <1>2, <2>1 DEF Queued
    <3> QED BY <1>2, <1>3, <1>6, <2>1, <3>2, <3>3, StillQueued
  <2>4. CASE l # "hsm"
    BY <1>1, <1>2, <1>3, <1>6, <2>2, <2>4, StoreUndisturbed
  <2> QED BY <2>3, <2>4
<1> QED BY <1>4, <1>5, <1>6

\* lock() on a taken mutex: a task that wants to store joins the queue of db when
\* no holder of hsm is in it, and a holder of hsm joins it behind the others.
LEMMA BlockKeepsStore ==
    ASSUME GuardsExist, IInv, StoreInv, NEW x \in Tasks, NEW l \in Locks, Block(x, l),
           NEW t \in Tasks
    PROVE  StoreKept(t)'
<1>1. "hsm" \in Locks /\ "db" \in Locks /\ "hsm" # "db" /\ StoreKept(t)
  BY DEF GuardsExist, CallLocks, StoreInv
<1>2. /\ cpu = x /\ At(x, Lock(l)) /\ prog' = prog /\ pc' = pc /\ owner' = owner
  BY DEF Block
<1>3. queue'[l] = Append(queue[l], x) /\ \A m \in Locks \ {l} : queue'[m] = queue[m]
  BY SMT DEF Block, IInv, TypeOK
<1>4. CASE ~(Dropping(t) \/ Storing(t))
  BY <1>2, <1>4 DEF StoreKept, Dropping, Storing
<1>5. CASE (Dropping(t) \/ Storing(t)) /\ l # "db"
  <2>1. t # x
    BY <1>1, <1>2, <1>5, PhaseFacts, InstructionsDiffer DEF At
  <2> QED BY <1>1, <1>2, <1>3, <1>5, <2>1, StoreUndisturbed
<1>6. CASE (Dropping(t) \/ Storing(t)) /\ l = "db"
  <2> DEFINE q == queue["db"]
             n == Len(q)
  <2>1. /\ n \in Nat /\ Len(queue'["db"]) = n + 1 /\ queue'["db"][n + 1] = x
        /\ \A i \in 1..n : queue'["db"][i] = q[i]
    <3>1. q \in Seq(Tasks) /\ queue'["db"] = Append(q, x)
      BY <1>1, <1>3, <1>6 DEF IInv, TypeOK
    <3> QED BY <3>1, AppendProperties, LenProperties, SMT
  <2>2. /\ \A i \in 1..n : i \in 1..Len(queue'["db"])
        /\ n + 1 \in 1..Len(queue'["db"])
        /\ \A j \in 1..Len(queue'["db"]) : j \in 1..n \/ j = n + 1
        /\ \A j \in 1..n : \A i \in 1..(j - 1) : i \in 1..n
        /\ \A i \in 1..n : i \in 1..((n + 1) - 1)
    BY <2>1, SMT
  <2>3. Storing(t) /\ StoreAhead(t) /\ (t = x \/ Queued(t))
    <3>1. t = x => ~Dropping(t)
      BY <1>2, PhaseFacts, InstructionsDiffer DEF At
    <3> QED BY <1>1, <1>2, <1>6, <3>1 DEF StoreKept
  <2>4. owner["hsm"] # t
    BY <2>3, PhaseFacts
  <2>5. Queued(t)'
    <3>1. CASE t = x
      BY <2>1, <2>2, <3>1 DEF Queued
    <3>2. CASE t # x
      <4>1. PICK i \in 1..n : q[i] = t
        BY <2>3, <3>2 DEF Queued
      <4> QED BY <2>1, <2>2, <4>1 DEF Queued
    <3> QED BY <3>1, <3>2
  <2>6. StoreAhead(t)'
    <3>1. ASSUME NEW u \in Tasks, owner["hsm"] = u, CallsProvider(prog[u]), NEW j \in 1..Len(queue'["db"]), queue'["db"][j] = u
          PROVE  \E i \in 1..(j - 1) : queue'["db"][i] = t
      <4>1. CASE j \in 1..n
        <5>1. PICK i \in 1..(j - 1) : q[i] = t
          BY <2>1, <2>3, <3>1, <4>1 DEF StoreAhead, Behind
        <5> QED BY <2>1, <2>2, <4>1, <5>1
      <4>2. CASE j = n + 1
        <5>1. u = x /\ t # x
          BY <2>1, <2>4, <3>1, <4>2
        <5>2. PICK i \in 1..n : q[i] = t
          BY <2>3, <5>1 DEF Queued
        <5> QED BY <2>1, <2>2, <4>2, <5>2
      <4> QED BY <2>2, <4>1, <4>2
    <3> QED BY <1>2, <2>3, <3>1 DEF StoreAhead, Behind
  <2> QED BY <1>2, <2>3, <2>5, <2>6, StillQueued
<1> QED BY <1>4, <1>5, <1>6

\* Dropping a guard nobody waits for.
LEMMA ReleaseKeepsStore ==
    ASSUME GuardsExist, IInv, StoreInv, NEW x \in Tasks, NEW l \in Locks, Release(x, l),
           NEW t \in Tasks
    PROVE  StoreKept(t)'
<1>1. "hsm" \in Locks /\ "db" \in Locks /\ "hsm" # "db" /\ StoreKept(t) /\ TakenInv
  BY DEF GuardsExist, CallLocks, StoreInv
<1>2. /\ cpu = x /\ cpu' = x /\ At(x, Unlock(l)) /\ queue[l] = << >>
      /\ prog' = prog /\ queue' = queue
  BY DEF Release
<1>3. /\ owner'[l] = NoTask /\ \A m \in Locks \ {l} : owner'[m] = owner[m]
      /\ pc'[x] = pc[x] + 1 /\ \A u \in Tasks \ {x} : pc'[u] = pc[u]
  BY SMT DEF Release, IInv, TypeOK
<1>4. CASE t = x
  <2>1. Dropping(t)' => StoreAhead(t)'
    <3>1. Dropping(t)' => l = "hsm"
      BY <1>2, <1>3, <1>4, PhaseAfter, InstructionsDiffer DEF At
    <3> QED BY <1>3, <3>1, NoHolder
  <2>2. ASSUME Storing(t)' PROVE StoreAhead(t)'
    <3>1. Dropping(t)
      BY <1>2, <1>3, <1>4, <2>2, PhaseAfter
    <3>2. l = "db"
      BY <1>2, <1>4, <3>1, PhaseFacts, InstructionsDiffer DEF At
    <3>3. \A u \in Tasks : owner'["db"] # u
      BY <1>3, <3>2, LocksAssumption
    <3>4. \A j \in 1..Len(queue'["db"]) : ~TRUE
      BY <1>2, <3>2, EmptySeq, SMT
    <3> QED BY <3>3, <3>4 DEF StoreAhead, Behind
  <2> QED BY <1>2, <1>4, <2>1, <2>2 DEF StoreKept
<1>5. CASE t # x /\ ~(Dropping(t) \/ Storing(t))
  BY <1>2, <1>3, <1>5 DEF StoreKept, Dropping, Storing
<1>6. CASE t # x /\ (Dropping(t) \/ Storing(t))
  <2>1. Storing(t) /\ Queued(t)
    BY <1>1, <1>2, <1>6, OthersQueue
  <2>2. l # "db"
    BY <1>1, <1>2, <2>1, QueuedTaken
  <2>3. CASE l = "hsm"
    <3>1. StoreAhead(t)'
      BY <1>3, <2>3, NoHolder
    <3>2. Queued(t)'
      BY <1>2, <2>1 DEF Queued
    <3> QED BY <1>2, <1>3, <1>6, <2>1, <3>1, <3>2, StillQueued
  <2>4. CASE l # "hsm"
    BY <1>1, <1>2, <1>3, <1>6, <2>2, <2>4, StoreUndisturbed
  <2> QED BY <2>3, <2>4
<1> QED BY <1>4, <1>5, <1>6

\* Dropping a guard that goes to the first waiter: the first in the queue of db
\* does not hold hsm, or the store would be ahead of it.
LEMMA HandOverKeepsStore ==
    ASSUME CallsTakeHsmFirst, GuardsExist, IInv, StoreInv, NEW x \in Tasks, NEW l \in Locks, HandOver(x, l),
           NEW t \in Tasks
    PROVE  StoreKept(t)'
<1>1. "hsm" \in Locks /\ "db" \in Locks /\ "hsm" # "db" /\ StoreKept(t) /\ TakenInv
  BY DEF GuardsExist, CallLocks, StoreInv
<1>2. /\ cpu = x /\ cpu' = x /\ At(x, Unlock(l)) /\ prog' = prog
  BY DEF HandOver
<1>3. queue[l] \in Seq(Tasks) /\ queue[l] # << >>
  BY DEF HandOver, IInv, TypeOK
<1>4. PICK w \in Tasks : w = Head(queue[l]) /\ w = queue[l][1] /\ 1 \in 1..Len(queue[l])
  <2>1. Head(queue[l]) \in Tasks /\ Head(queue[l]) = queue[l][1] /\ Len(queue[l]) \in Nat \ {0}
    BY <1>3, HeadTailProperties, EmptySeq, LenProperties, SMT
  <2>2. 1 \in 1..Len(queue[l])
    BY <2>1, SMT
  <2> QED BY <2>1, <2>2
<1>5. WaitsFor(w, l) /\ At(w, Lock(l)) /\ w # x
  <2>1. WaitsFor(w, l)
    BY <1>4 DEF IInv, QueueInv
  <2>2. At(w, Lock(l))
    BY <2>1 DEF WaitsFor
  <2> QED BY <1>2, <2>1, <2>2, InstructionsDiffer DEF At
<1>6. /\ owner'[l] = w /\ \A m \in Locks \ {l} : owner'[m] = owner[m]
      /\ queue'[l] = Tail(queue[l]) /\ \A m \in Locks \ {l} : queue'[m] = queue[m]
  BY <1>4, SMT DEF HandOver, IInv, TypeOK
<1>7. pc'[x] = pc[x] + 1 /\ pc'[w] = pc[w] + 1 /\ \A u \in Tasks \ {x, w} : pc'[u] = pc[u]
  BY <1>4, SMT DEF HandOver
<1>8. l = "hsm" => (CallsProvider(prog[w]) => owner["db"] # w) /\ ~Queued(w)
  BY <1>5, NewHolder
<1>9. CASE t = w
  BY <1>2, <1>5, <1>7, <1>9, LockingNotStoring
<1>10. CASE t # w /\ l = "db"
  <2> DEFINE q == queue["db"]
  <2>1. /\ \A j \in 1..Len(queue'["db"]) : queue'["db"][j] = q[j + 1] /\ j + 1 \in 1..Len(q)
        /\ \A i \in 2..Len(q) : i - 1 \in 1..Len(queue'["db"]) /\ queue'["db"][i - 1] = q[i]
    <3>1. /\ Len(queue'["db"]) = Len(q) - 1 /\ Len(q) \in Nat
          /\ \A j \in 1..Len(queue'["db"]) : queue'["db"][j] = q[j + 1]
      <4>1. q \in Seq(Tasks) /\ q # << >> /\ queue'["db"] = Tail(q)
        BY <1>3, <1>6, <1>10
      <4> QED BY <4>1, HeadTailProperties, LenProperties, SMT
    <3> QED BY <3>1, SMT
  <2>2. \A i \in 1..Len(q) : q[i] = t => i \in 2..Len(q)
    <3>1. \A i \in 1..Len(q) : q[i] = t => i # 1
      BY <1>4, <1>10
    <3> QED BY <3>1, SMT
  <2>3. Queued(t) => Queued(t)'
    BY <2>1, <2>2 DEF Queued
  <2>4. ASSUME StoreAhead(t) PROVE StoreAhead(t)'
    <3> SUFFICES ASSUME NEW u \in Tasks, owner["hsm"] = u, CallsProvider(prog[u])
                 PROVE  owner'["db"] # u /\ Behind(u, t)'
      BY <1>1, <1>2, <1>6, <1>10 DEF StoreAhead
    <3>1. Behind(u, t)
      BY <2>4 DEF StoreAhead
    <3>2. u # w
      <4>1. \A i \in 1..(1 - 1) : ~TRUE
        BY SMT
      <4> QED BY <1>4, <1>10, <3>1, <4>1 DEF Behind
    <3>3. ASSUME NEW j \in 1..Len(queue'["db"]), queue'["db"][j] = u
          PROVE  \E i \in 1..(j - 1) : queue'["db"][i] = t
      <4>1. j + 1 \in 1..Len(q) /\ q[j + 1] = u
        BY <2>1, <3>3
      <4>2. PICK i \in 1..((j + 1) - 1) : q[i] = t
        BY <3>1, <4>1 DEF Behind
      <4>3. i \in 1..Len(q)
        BY <4>1, <4>2, SMT
      <4>4. i \in 2..Len(q)
        BY <2>2, <4>2, <4>3
      <4>5. i - 1 \in 1..(j - 1)
        BY <4>2, <4>4, SMT
      <4> QED BY <2>1, <4>2, <4>4, <4>5
    <3> QED BY <1>6, <1>10, <3>2, <3>3 DEF Behind
  <2>5. CASE t = x
    <3>1. Storing(t)' => StoreAhead(t)'
      BY <1>1, <1>2, <1>7, <2>4, <2>5, PhaseAfter DEF StoreKept
    <3>2. ~Dropping(t)'
      BY <1>1, <1>2, <1>7, <1>10, <2>5, PhaseAfter, InstructionsDiffer DEF At
    <3> QED BY <1>2, <2>5, <3>1, <3>2 DEF StoreKept
  <2>6. CASE t # x /\ ~(Dropping(t) \/ Storing(t))
    BY <1>2, <1>7, <1>10, <2>6 DEF StoreKept, Dropping, Storing
  <2>7. CASE t # x /\ (Dropping(t) \/ Storing(t))
    BY <1>1, <1>2, <1>7, <1>10, <2>3, <2>4, <2>7, OthersQueue, StillQueued
  <2> QED BY <2>5, <2>6, <2>7
<1>11. CASE t # w /\ l = "hsm"
  <2>1. StoreAhead(t)'
    BY <1>1, <1>2, <1>6, <1>8, <1>11, HolderNotQueued
  <2>2. CASE t = x
    <3>1. ~Storing(t)'
      BY <1>1, <1>2, <1>7, <1>11, <2>2, PhaseAfter, PhaseFacts, InstructionsDiffer DEF At
    <3> QED BY <1>2, <2>1, <2>2, <3>1 DEF StoreKept
  <2>3. CASE t # x /\ ~(Dropping(t) \/ Storing(t))
    BY <1>2, <1>7, <1>11, <2>3 DEF StoreKept, Dropping, Storing
  <2>4. CASE t # x /\ (Dropping(t) \/ Storing(t))
    <3>1. Storing(t) /\ Queued(t)
      BY <1>1, <1>2, <2>4, OthersQueue
    <3>2. Queued(t)'
      BY <1>1, <1>6, <1>11, <3>1 DEF Queued
    <3> QED BY <1>2, <1>7, <1>11, <2>1, <2>4, <3>1, <3>2, StillQueued
  <2> QED BY <2>2, <2>3, <2>4
<1>12. CASE t # w /\ l \notin {"hsm", "db"}
  <2>1. CASE t = x
    <3>1. ~Dropping(t)' /\ ~Storing(t)'
      BY <1>1, <1>2, <1>7, <1>12, <2>1, PhaseAfter, PhaseFacts, InstructionsDiffer DEF At
    <3> QED BY <3>1 DEF StoreKept
  <2>2. CASE t # x
    BY <1>1, <1>2, <1>6, <1>7, <1>12, <2>2, StoreUndisturbed
  <2> QED BY <2>1, <2>2
<1> QED BY <1>9, <1>10, <1>11, <1>12

\* A task at the end of its section holds nothing.
LEMMA EndHoldsNothing ==
    ASSUME IInv, NEW u \in Tasks, pc[u] > Len(prog[u])
    PROVE  HeldAt(prog[u], pc[u]) = {}
<1>1. Scoped(prog[u]) /\ prog[u] \in Seq(Instruction)
  BY ProgFacts DEF IInv
<1>2. pc[u] <= Len(prog[u]) + 1 /\ pc[u] \in Nat /\ Len(prog[u]) \in Nat
  BY <1>1, LenProperties DEF IInv, PcInv, TypeOK
<1>3. pc[u] = Len(prog[u]) + 1
  BY <1>2, SMT
<1> QED BY <1>1, <1>3 DEF Scoped

\* Steps that neither take nor drop a guard: polling, I/O, and the two ends of a
\* section.
LEMMA OtherStepsKeepStore ==
    ASSUME GuardsExist, IInv, StoreInv, NEW x \in Tasks, NEW t \in Tasks,
           \/ \E p \in Programs : Begin(x, p)
           \/ Poll(x) \/ StartIO(x) \/ EndIO(x) \/ Finish(x)
    PROVE  StoreKept(t)'
<1>1. StoreKept(t) /\ owner' = owner /\ queue' = queue
  BY DEF StoreInv, Begin, Poll, StartIO, EndIO, Finish
<1>2. ASSUME t # x PROVE prog'[t] = prog[t] /\ pc'[t] = pc[t]
  BY <1>2, SMT DEF IInv, TypeOK, Begin, Poll, StartIO, EndIO, Finish
<1>3. t # x => (cpu = t => cpu' = t)
  BY LocksAssumption DEF Begin, Poll, StartIO, EndIO, Finish
<1>0. \A u \in Tasks : owner["hsm"] = u => prog'[u] = prog[u]
  <2> SUFFICES ASSUME NEW u \in Tasks, owner["hsm"] = u PROVE prog'[u] = prog[u]
    OBVIOUS
  <2>1. HeldAt(prog[u], pc[u]) # {}
    BY DEF IInv, HeldInv, Held, GuardsExist, CallLocks
  <2>2. status[u] # "idle"
    BY <2>1, HeldAtStart DEF IInv, PcInv
  <2>3. ~(cpu = u /\ pc[u] > Len(prog[u]))
    BY <2>1, EndHoldsNothing
  <2> QED BY <2>2, <2>3, SMT DEF IInv, TypeOK, Begin, Poll, StartIO, EndIO, Finish
<1>4. CASE t # x
  BY <1>0, <1>1, <1>2, <1>3, <1>4, StoreUndisturbed
<1>5. CASE t = x /\ \E p \in Programs : Begin(x, p)
  <2>1. PICK p \in Programs : Begin(x, p)
    BY <1>5
  <2>2. prog'[t] = p /\ pc'[t] = 1
    BY <1>5, <2>1, SMT DEF Begin, IInv, TypeOK
  <2>3. p \in Seq(Instruction)
    BY ProgramsAssumption
  <2>4. ~Dropping(t)' /\ ~Storing(t)'
    BY <2>2, <2>3, StoreNotFirst DEF Dropping, Storing
  <2> QED BY <2>4 DEF StoreKept
<1>6. CASE t = x /\ Poll(x)
  <2>1. prog' = prog /\ pc' = pc /\ cpu' = x
    BY <1>6 DEF Poll
  <2> QED BY <1>0, <1>1, <1>6, <2>1, StoreUndisturbed
<1>7. CASE t = x /\ StartIO(x)
  <2>1. prog' = prog /\ pc' = pc /\ At(x, IO)
    BY <1>7 DEF StartIO
  <2>2. ~Dropping(t) /\ ~Storing(t)
    BY <1>7, <2>1, PhaseFacts, InstructionsDiffer DEF At
  <2> QED BY <1>0, <1>1, <2>1, <2>2, StoreUndisturbed
<1>8. CASE t = x /\ EndIO(x)
  <2>1. prog'[t] = prog[t] /\ pc'[t] = pc[t] + 1 /\ At(t, IO)
    <3>1. prog'[t] = prog[t] /\ pc'[t] = pc[t] + 1 /\ status[t] = "io"
      BY <1>8, SMT DEF EndIO, IInv, TypeOK
    <3> QED BY <3>1 DEF IInv, PcInv
  <2>2. ~Dropping(t)' /\ ~Storing(t)'
    BY <2>1, PhaseAfter, PhaseFacts, InstructionsDiffer DEF At
  <2> QED BY <2>2 DEF StoreKept
<1>9. CASE t = x /\ Finish(x)
  <2>1. prog'[t] = NoSection
    BY <1>9, SMT DEF Finish, IInv, TypeOK
  <2>2. ~StoresAfterCall(NoSection)
    BY NoSectionFacts, SMT DEF StoresAfterCall
  <2> QED BY <2>1, <2>2 DEF StoreKept, Dropping, Storing
<1> QED BY <1>4, <1>5, <1>6, <1>7, <1>8, <1>9

\* A mutex that is waited for stays taken: it is freed only with nobody waiting.
LEMMA TakenKept ==
    ASSUME IInv, TakenInv, NEW x \in Tasks,
           Step(x) \/ (\E p \in Programs : Begin(x, p)) \/ Poll(x) \/ EndIO(x)
    PROVE  TakenInv'
<1> SUFFICES ASSUME NEW m \in Locks, queue'[m] # << >> PROVE owner'[m] # NoTask
  BY DEF TakenInv
<1>1. CASE owner' = owner /\ queue' = queue
  BY <1>1 DEF TakenInv
<1>2. ASSUME NEW l \in Locks, Acquire(x, l) PROVE owner'[m] # NoTask
  <2>1. queue' = queue /\ owner'[m] \in {x, owner[m]}
    BY <1>2, SMT DEF Acquire, IInv, TypeOK
  <2> QED BY <2>1, LocksAssumption DEF TakenInv
<1>3. ASSUME NEW l \in Locks, Block(x, l) PROVE owner'[m] # NoTask
  <2>1. owner' = owner /\ owner[l] # NoTask /\ (m # l => queue'[m] = queue[m])
    BY <1>3, SMT DEF Block, IInv, TypeOK
  <2> QED BY <2>1 DEF TakenInv
<1>4. ASSUME NEW l \in Locks, Release(x, l) PROVE owner'[m] # NoTask
  <2>1. queue' = queue /\ queue[l] = << >> /\ (m # l => owner'[m] = owner[m])
    BY <1>4, SMT DEF Release, IInv, TypeOK
  <2> QED BY <2>1 DEF TakenInv
<1>5. ASSUME NEW l \in Locks, HandOver(x, l) PROVE owner'[m] # NoTask
  <2>1. Head(queue[l]) \in Tasks
    BY <1>5, HeadTailProperties DEF HandOver, IInv, TypeOK
  <2>2. m = l => owner'[m] = Head(queue[l])
    BY <1>5, SMT DEF HandOver, IInv, TypeOK
  <2>3. m # l => owner'[m] = owner[m] /\ queue'[m] = queue[m]
    BY <1>5, SMT DEF HandOver, IInv, TypeOK
  <2> QED BY <2>1, <2>2, <2>3, LocksAssumption DEF TakenInv
<1> QED BY <1>1, <1>2, <1>3, <1>4, <1>5 DEF Step, Begin, Poll, StartIO, EndIO, Finish

\* Initially nobody waits and no section is entered.
LEMMA InitStoreInv == Init => StoreInv
<1> SUFFICES ASSUME Init PROVE StoreInv
  OBVIOUS
<1>1. TakenInv
  <2>1. \A l \in Locks : queue[l] = << >>
    BY DEF Init
  <2> QED BY <2>1 DEF TakenInv
<1>2. \A t \in Tasks : prog[t] = NoSection
  BY DEF Init
<1>3. ~StoresAfterCall(NoSection)
  BY NoSectionFacts, SMT DEF StoresAfterCall
<1> QED BY <1>1, <1>2, <1>3 DEF StoreInv, StoreKept, Dropping, Storing

\* Every step of a task keeps the store ahead of the holders of hsm.
LEMMA NextStoreInv ==
    ASSUME CallsTakeHsmFirst, GuardsExist
    PROVE  IInv /\ StoreInv /\ [Next]_vars => StoreInv'
<1> SUFFICES ASSUME IInv, StoreInv, [Next]_vars PROVE StoreInv'
  OBVIOUS
<1>1. CASE UNCHANGED vars
  <2>1. prog' = prog /\ pc' = pc /\ cpu' = cpu /\ owner' = owner /\ queue' = queue
    BY <1>1 DEF vars
  <2>2. TakenInv'
    BY <2>1 DEF StoreInv, TakenInv
  <2>3. ASSUME NEW t \in Tasks PROVE StoreKept(t)'
    BY <2>1, StoreUndisturbed DEF StoreInv
  <2> QED BY <2>2, <2>3 DEF StoreInv
<1>2. CASE Next
  <2>1. PICK x \in Tasks : Step(x) \/ (\E p \in Programs : Begin(x, p)) \/ Poll(x) \/ EndIO(x)
    BY <1>2 DEF Next
  <2>2. TakenInv'
    BY <2>1, TakenKept DEF StoreInv
  <2>3. ASSUME NEW t \in Tasks PROVE StoreKept(t)'
    BY <2>1, AcquireKeepsStore, BlockKeepsStore, ReleaseKeepsStore, HandOverKeepsStore,
       OtherStepsKeepStore DEF Step
  <2> QED BY <2>2, <2>3 DEF StoreInv
<1> QED BY <1>1, <1>2

\* While an outcome waits to be stored, nobody holds both guards of a call.
LEMMA StoreInvSuffices ==
    ASSUME GuardsExist, IInv, StoreInv
    PROVE  StoredBeforeNextCall
<1> SUFFICES ASSUME NEW t \in Tasks, NEW u \in Tasks, StorePending(t), Calling(u) PROVE ~TRUE
  BY DEF StoredBeforeNextCall
<1>0. "hsm" \in CallLocks /\ "db" \in CallLocks
  BY DEF CallLocks
<1>1. CASE Storing(t)
  <2>1. CallLocks \subseteq HeldAt(prog[u], pc[u])
    BY DEF IInv, HeldInv, Held, GuardsExist, Calling
  <2>2. pc[u] <= Len(prog[u]) + 1 /\ pc[u] \in Nat \ {0} /\ Len(prog[u]) \in Nat
    BY ProgFacts, LenProperties DEF IInv, PcInv, TypeOK
  <2>3. pc[u] \in 1..(Len(prog[u]) + 1)
    BY <2>2, SMT
  <2>4. CallsProvider(prog[u])
    BY <2>1, <2>3 DEF CallsProvider
  <2> QED BY <1>0, <1>1, <2>4 DEF StoreInv, StoreKept, StoreAhead, Calling
<1>2. CASE pc[t] = Len(prog[t])
  <2>1. prog[t] \in Seq(Instruction) /\ Scoped(prog[t]) /\ Held(t) = HeldAt(prog[t], Len(prog[t]))
    BY <1>2, ProgFacts DEF IInv, HeldInv
  <2>2. "hsm" \notin Held(t) /\ "db" \in Held(t)
    BY <2>1, StoreHolds DEF StorePending
  <2> QED BY <2>2 DEF Held, GuardsExist, CallLocks, Calling
<1>3. pc[t] \in Nat /\ Len(prog[t]) \in Nat
  BY ProgFacts DEF IInv, TypeOK
<1>4. pc[t] = Len(prog[t]) - 1 \/ pc[t] = Len(prog[t])
  BY <1>3, SMT DEF StorePending
<1> QED BY <1>1, <1>2, <1>4 DEF Storing, StorePending

\* If the sections that call the provider lock hsm before they begin their
\* transaction, whatever the others do (cache_userpassword locks it afterwards),
\* then no provider call runs between the call of a refresh (refresh_usertoken) and the
\* transaction that stores its outcome (set_cache_usertoken), however many
\* connections the daemon serves.
THEOREM StoresBeforeNextCall ==
    ASSUME CallsTakeHsmFirst, GuardsExist
    PROVE  Spec => []StoredBeforeNextCall
<1>1. IInv /\ StoreInv => StoredBeforeNextCall
  BY StoreInvSuffices
<1> QED BY <1>1, InitIInv, NextIInv, InitStoreInv, NextStoreInv, PTL DEF Spec
=============================================================================
