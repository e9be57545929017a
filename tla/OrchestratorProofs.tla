------------------------- MODULE OrchestratorProofs -------------------------
(***************************************************************************)
(* The safety of the container pool and the table of sessions, for any     *)
(* number of handlers, warmers, sessions and containers.                   *)
(*                                                                         *)
(* The proof has two halves.  Owners is about where containers are; each    *)
(* lemma of the first part moves one from an owner to the next.  Control is *)
(* about the tasks: which of them hold a container at which point.  The     *)
(* actions then follow, one lemma each.                                     *)
(***************************************************************************)
EXTENDS Orchestrator, TLAPS

OwnerTypes ==
    /\ spare \in Containers \cup {None}
    /\ sessions \in [SessionIds -> Containers \cup {None}]
    /\ held \in [Procs -> SUBSET Containers]
    /\ running \in SUBSET Containers
    /\ unstarted \in SUBSET Containers
    /\ lost \in SUBSET Containers

\* A container that has an owner was started, and it runs and answers at its own
\* socket unless its id was used twice.
Fit(c) == c \notin unstarted /\ (Usable(c) \/ Shared(c))

OwnersFit ==
    /\ spare # None => Fit(spare)
    /\ \A c \in Table : Fit(c)
    /\ \A p \in Procs : \A c \in held[p] : Fit(c)

\* What a socket path leads to has the id of the path in its name, and a name is
\* given twice only if its id was used twice.
Names ==
    /\ name \in [Containers -> SessionIds \cup {None}]
    /\ bridge \in [SessionIds -> Containers \cup {None}]
    /\ creations \in [SessionIds -> Nat]
    /\ \A c \in unstarted : name[c] = None
    /\ \A s \in SessionIds : bridge[s] # None => name[bridge[s]] = s
    /\ \A c \in Containers : name[c] # None => creations[name[c]] > 0
    /\ \A c, d \in Containers : c # d /\ name[c] = name[d] => name[c] = None \/ Shared(c)

Owners ==
    /\ OwnerTypes
    /\ Names
    /\ OneOwner
    /\ OwnersFit
    /\ NoneForgotten
    /\ unstarted \cap running = {}

LocalTypes ==
    /\ permit \in BOOLEAN
    /\ checked \in Containers \cup {None}
    /\ sid \in [Handlers -> SessionIds \cup {None}]
    /\ drives \in [Handlers -> Containers \cup {None}]
    /\ seen \in SUBSET (SessionIds \X Containers)
    /\ stale \in SUBSET SessionIds

TaskTypes ==
    /\ replenish_in_progress \in BOOLEAN
    /\ shutting_down \in BOOLEAN
    /\ pc \in [Procs -> Labels]
    /\ LocalTypes

\* The points at which a handler has no container, and those at which it has an
\* id.
HandsFree == {"idle", "take", "renew", "create", "done", "flow", "stuck"}
Acquiring == {"take", "renew", "refill", "reject", "create", "ready", "insert"}

\* Where a task holds nothing, and what it has read.
Holding ==
    /\ \A p \in Procs \ {Main} : \A c, d \in held[p] : c = d
    /\ \A h \in Handlers : pc[h] \in HandsFree => held[h] = {}
    /\ \A h \in Handlers : pc[h] \in Acquiring => sid[h] \in SessionIds
    /\ \A w \in Warmers : pc[w] \in {"idle", "create"} => held[w] = {}
    /\ pc[Maint] \in {"idle", "ensure", "loop", "recheck", "wait", "notified", "stopped"}
          => held[Maint] = {}
    /\ pc[Maint] = "recheck" => checked # None
    /\ pc[Main] \in {"image", "run", "stopping"} => held[Main] = {}
    /\ pc[Main] = "image" => pc[Maint] = "idle"

\* After shutdown has taken the spare the flag stays set.
Stopping ==
    pc[Maint] \in {"drain", "wait", "notified", "last", "stopped"} => shutting_down

Control == TaskTypes /\ Holding /\ Stopping /\ AtMostOneSpare

IInv == Owners /\ Control

USE DEF requests, cleaning

----------------------------------------------------------------------------
(* Containers move.                                                        *)

\* Nothing changes for a container as long as podman is not called.
LEMMA FitSame ==
    ASSUME UNCHANGED podman
    PROVE  /\ \A c : Fit(c)' <=> Fit(c)
           /\ Names => Names'
BY DEF podman, Fit, Usable, Reach, Shared, Names

\* Steps that move no container.
LEMMA OwnersSame ==
    ASSUME Owners, UNCHANGED <<spare, sessions, held, podman>>
    PROVE  Owners'
<1>1. Table' = Table
  BY DEF Table
<1>2. OwnersFit'
  BY <1>1, FitSame DEF Owners, OwnersFit
<1> QED
  BY <1>1, <1>2, FitSame DEF Owners, OwnerTypes, OneOwner, NoneForgotten, podman

\* prepare_session_runtime and podman run with the id s: the containers of other
\* ids are left alone.
LEMMA FitCreate ==
    ASSUME Owners, NEW s \in SessionIds \cup {None},
           running \ {d \in running : s # None /\ name[d] = s} \subseteq running',
           unstarted' \subseteq unstarted,
           \A d \in Containers \ unstarted : name'[d] = name[d],
           \A t \in SessionIds \ {s} : bridge'[t] = bridge[t],
           creations' = IF s = None THEN creations ELSE [creations EXCEPT ![s] = @ + 1],
           NEW d \in Containers, Fit(d)
    PROVE  Fit(d)'
<1>1. d \notin unstarted' /\ name'[d] = name[d] /\ name[d] \in SessionIds \cup {None}
  BY DEF Fit, Owners, Names
<1>2. \A t \in SessionIds : creations[t] \in Nat /\ creations'[t] = IF t = s THEN creations[t] + 1 ELSE creations[t]
  BY ProcsAssumption DEF Owners, Names
<1>3. CASE name[d] = None
  BY <1>1, <1>3 DEF Fit, Usable, Reach, Shared
<1>4. CASE name[d] # None /\ name[d] = s
  <2>1. creations'[s] > 1
    <3>1. \A n \in Nat : n > 0 => n + 1 > 1
      BY SMT
    <3>2. creations[s] > 0 /\ s \in SessionIds
      BY <1>1, <1>4 DEF Owners, Names
    <3> QED
      BY <1>2, <3>1, <3>2
  <2> QED
    BY <1>1, <1>4, <2>1 DEF Fit, Shared
<1>5. CASE name[d] # None /\ name[d] # s
  <2>1. name[d] \in SessionIds \ {s}
    BY <1>1, <1>5
  <2>2. creations'[name[d]] = creations[name[d]] /\ bridge'[name[d]] = bridge[name[d]]
    BY <1>2, <2>1
  <2>3. d \in running => d \in running'
    BY <1>5
  <2> QED
    BY <1>1, <1>5, <2>2, <2>3 DEF Fit, Usable, Reach, Shared
<1> QED
  BY <1>3, <1>4, <1>5

\* A name that is given once more is marked as used twice.
LEMMA NamesCreate ==
    ASSUME Owners, NEW s \in SessionIds \cup {None}, NEW c \in unstarted,
           unstarted' = unstarted \ {c}, name' = [name EXCEPT ![c] = s], Bind(s, c),
           creations' = IF s = None THEN creations ELSE [creations EXCEPT ![s] = @ + 1]
    PROVE  Names'
<1>1. /\ c \in Containers /\ name[c] = None
      /\ \A d \in Containers : name'[d] = IF d = c THEN s ELSE name[d]
  BY DEF Owners, OwnerTypes, Names
<1>2. \A t \in SessionIds :
         /\ creations[t] \in Nat
         /\ creations'[t] = IF t = s THEN creations[t] + 1 ELSE creations[t]
         /\ bridge'[t] = IF t = s THEN c ELSE bridge[t]
  BY ProcsAssumption DEF Owners, Names, Bind
<1>3. \A n \in Nat : n + 1 \in Nat /\ n + 1 > 0 /\ (n > 0 => n + 1 > 1) /\ (n > 1 => n + 1 > 1)
  BY SMT
<1>4. /\ name' \in [Containers -> SessionIds \cup {None}]
      /\ bridge' \in [SessionIds -> Containers \cup {None}]
  BY <1>1 DEF Owners, Names, Bind
<1>5. creations' \in [SessionIds -> Nat]
  BY <1>3 DEF Owners, Names
<1>6. \A d \in unstarted' : name'[d] = None
  BY <1>1 DEF Owners, OwnerTypes, Names
<1>7. \A t \in SessionIds : bridge'[t] # None => name'[bridge'[t]] = t
  <2> SUFFICES ASSUME NEW t \in SessionIds, bridge'[t] # None PROVE name'[bridge'[t]] = t
    OBVIOUS
  <2>1. CASE t = s
    BY <1>1, <1>2, <2>1
  <2>2. CASE t # s
    <3>1. bridge'[t] = bridge[t] /\ bridge[t] \in Containers /\ name[bridge[t]] = t
      BY <1>2, <2>2 DEF Owners, Names
    <3>2. bridge[t] # c
      BY <1>1, <3>1, ProcsAssumption
    <3> QED
      BY <1>1, <3>1, <3>2
  <2> QED
    BY <2>1, <2>2
<1>8. \A d \in Containers : name'[d] # None => creations'[name'[d]] > 0
  <2> SUFFICES ASSUME NEW d \in Containers, name'[d] # None PROVE creations'[name'[d]] > 0
    OBVIOUS
  <2>1. name'[d] \in SessionIds
    BY <1>4
  <2>2. CASE name'[d] = s
    BY <1>2, <1>3, <2>1, <2>2
  <2>3. CASE name'[d] # s
    BY <1>1, <1>2, <2>1, <2>3 DEF Owners, Names
  <2> QED
    BY <2>2, <2>3
<1>9. \A d, e \in Containers : d # e /\ name'[d] = name'[e] => name'[d] = None \/ Shared(d)'
  <2> SUFFICES ASSUME NEW d \in Containers, NEW e \in Containers, d # e, name'[d] = name'[e],
                      name'[d] # None
               PROVE  creations'[name'[d]] > 1
    BY DEF Shared
  <2>1. name'[d] \in SessionIds
    BY <1>4
  <2>2. CASE d # c /\ e # c
    <3>1. name[d] = name'[d] /\ name[e] = name'[e]
      BY <1>1, <2>2
    <3>2. creations[name[d]] > 1
      BY <3>1 DEF Owners, Names, Shared
    <3> QED
      BY <1>2, <1>3, <2>1, <3>1, <3>2
  <2>3. CASE d = c \/ e = c
    <3>1. PICK f \in Containers : f # c /\ name'[f] = s /\ name'[d] = s
      BY <1>1, <2>3
    <3>2. name[f] = s /\ creations[s] > 0
      BY <1>1, <2>1, <3>1 DEF Owners, Names
    <3> QED
      BY <1>2, <1>3, <2>1, <3>1, <3>2
  <2> QED
    BY <2>2, <2>3
<1> QED
  BY <1>4, <1>5, <1>6, <1>7, <1>8, <1>9 DEF Names

\* podman run succeeds: the new container is the task's.
LEMMA OwnersCreate ==
    ASSUME Owners, NEW p \in Procs, held[p] = {}, NEW s \in SessionIds \cup {None}, NEW c \in unstarted,
           running' = (running \ {d \in running : s # None /\ name[d] = s}) \cup {c},
           unstarted' = unstarted \ {c}, name' = [name EXCEPT ![c] = s], Bind(s, c),
           creations' = IF s = None THEN creations ELSE [creations EXCEPT ![s] = @ + 1],
           held' = [held EXCEPT ![p] = {c}], UNCHANGED <<spare, sessions, lost>>
    PROVE  Owners'
<1>1. c \in Containers /\ c \notin running
  BY DEF Owners, OwnerTypes
<1>2. Table' = Table /\ Table \subseteq Containers
  BY DEF Table, Owners, OwnerTypes
<1>3. c # None /\ c \notin Table /\ \A q \in Procs : c \notin held[q] /\ c # spare
  BY <1>1, ProcsAssumption DEF Owners, OwnersFit, Fit
<1>4. \A q \in Procs : held'[q] = IF q = p THEN {c} ELSE held[q]
  BY DEF Owners, OwnerTypes
<1>5. OwnerTypes'
  BY <1>1 DEF Owners, OwnerTypes
<1>6. OneOwner'
  BY <1>2, <1>3, <1>4 DEF Owners, OneOwner
<1>7. /\ name'[c] = s
      /\ \A d \in Containers \ unstarted : name'[d] = name[d]
      /\ \A t \in SessionIds : bridge'[t] = IF t = s THEN c ELSE bridge[t]
  BY <1>1, ProcsAssumption DEF Owners, Names, Bind
<1>8. \A d \in Containers : Fit(d) => Fit(d)'
  <2> SUFFICES ASSUME NEW d \in Containers, Fit(d) PROVE Fit(d)'
    OBVIOUS
  <2>1. \A t \in SessionIds \ {s} : bridge'[t] = bridge[t]
    BY <1>7
  <2>2. /\ running \ {e \in running : s # None /\ name[e] = s} \subseteq running'
        /\ unstarted' \subseteq unstarted
    OBVIOUS
  <2> QED
    BY <1>7, <2>1, <2>2, FitCreate
<1>9. Fit(c)'
  BY <1>7 DEF Fit, Usable, Reach
<1>10. OwnersFit'
  BY <1>2, <1>4, <1>8, <1>9 DEF Owners, OwnerTypes, OwnersFit
<1>11. NoneForgotten'
  BY <1>2, <1>4 DEF Owners, NoneForgotten
<1>12. Names'
  BY NamesCreate
<1> QED
  BY <1>5, <1>6, <1>10, <1>11, <1>12 DEF Owners

\* podman run fails, and may have replaced a container of the same name before.
LEMMA OwnersCreateFails ==
    ASSUME Owners, NEW s \in SessionIds \cup {None},
           running' \in {running, running \ {d \in running : s # None /\ name[d] = s}},
           Bind(s, None) \/ UNCHANGED bridge,
           creations' = IF s = None THEN creations ELSE [creations EXCEPT ![s] = @ + 1],
           UNCHANGED <<spare, sessions, held, unstarted, name, lost>>
    PROVE  Owners'
<1>1. Table' = Table /\ Table \subseteq Containers
  BY DEF Table, Owners, OwnerTypes
<1>2. \A t \in SessionIds :
         /\ bridge'[t] = bridge[t] \/ (t = s /\ bridge'[t] = None)
         /\ creations[t] \in Nat
         /\ creations'[t] = IF t = s THEN creations[t] + 1 ELSE creations[t]
  BY ProcsAssumption DEF Owners, Names, Bind
<1>3. OwnerTypes' /\ OneOwner'
  BY <1>1 DEF Owners, OwnerTypes, OneOwner
<1>4. \A d \in Containers : Fit(d) => Fit(d)'
  <2> SUFFICES ASSUME NEW d \in Containers, Fit(d) PROVE Fit(d)'
    OBVIOUS
  <2>1. \A t \in SessionIds \ {s} : bridge'[t] = bridge[t]
    BY <1>2
  <2>2. /\ running \ {e \in running : s # None /\ name[e] = s} \subseteq running'
        /\ unstarted' \subseteq unstarted
        /\ \A e \in Containers \ unstarted : name'[e] = name[e]
    OBVIOUS
  <2> QED
    BY <2>1, <2>2, FitCreate
<1>5. OwnersFit'
  BY <1>1, <1>4 DEF Owners, OwnerTypes, OwnersFit
<1>6. NoneForgotten' /\ (unstarted \cap running = {})'
  BY <1>1 DEF Owners, NoneForgotten
<1>7. \A n \in Nat : n + 1 \in Nat /\ n + 1 > 0 /\ (n > 1 => n + 1 > 1)
  BY SMT
<1>8. Names'
  <2>1. /\ bridge' \in [SessionIds -> Containers \cup {None}]
        /\ name' \in [Containers -> SessionIds \cup {None}]
    BY DEF Owners, Names, Bind
  <2>2. creations' \in [SessionIds -> Nat]
    BY <1>7 DEF Owners, Names
  <2>3. \A t \in SessionIds : bridge'[t] # None => name'[bridge'[t]] = t
    BY <1>2 DEF Owners, Names
  <2>4. \A d \in Containers : name'[d] # None => creations'[name'[d]] > 0
    BY <1>2, <1>7, <2>1 DEF Owners, Names
  <2>5. \A d \in Containers : Shared(d) => Shared(d)'
    BY <1>2, <1>7, <2>1 DEF Shared
  <2> QED
    BY <2>1, <2>2, <2>3, <2>4, <2>5 DEF Owners, Names
<1> QED
  BY <1>3, <1>5, <1>6, <1>8 DEF Owners

\* destroy_session_container: a task gives up a container it holds.
LEMMA OwnersDestroy ==
    ASSUME Owners, NEW p \in Procs, NEW c, destroy_session_container(p, c),
           UNCHANGED <<spare, sessions>>
    PROVE  Owners'
<1>1. c \in held[p] /\ c \in Containers /\ c # None /\ c # spare /\ c \notin Table
  BY ProcsAssumption DEF destroy_session_container, Owners, OwnerTypes, OneOwner
<1>2. Table' = Table /\ Table \subseteq Containers
  BY DEF Table, Owners, OwnerTypes
<1>3. \A q \in Procs : held'[q] = IF q = p THEN held[p] \ {c} ELSE held[q]
  BY DEF destroy_session_container, Owners, OwnerTypes
<1>4. \A q \in Procs : q # p => c \notin held[q]
  BY <1>1 DEF Owners, OneOwner
<1>5. \A q \in Procs : c \notin held'[q] /\ held'[q] \subseteq held[q]
  BY <1>3, <1>4
<1>6. /\ unstarted' = unstarted /\ name' = name /\ creations' = creations
      /\ \/ running' = running \ {c} /\ lost' = lost
         \/ running' = running /\ lost' = lost \cup {c}
      /\ \A t \in SessionIds : bridge'[t] = IF t = name[c] THEN None ELSE bridge[t]
      /\ bridge' \in [SessionIds -> Containers \cup {None}]
  BY <1>1, ProcsAssumption DEF destroy_session_container, Bind, Owners, Names
<1>7. OwnerTypes'
  <2>1. held' \in [Procs -> SUBSET Containers]
    BY DEF destroy_session_container, Owners, OwnerTypes
  <2> QED
    BY <1>1, <1>6, <2>1 DEF Owners, OwnerTypes
<1>8. OneOwner'
  BY <1>2, <1>5 DEF Owners, OneOwner
<1>9. \A d \in Containers \ {c} : Fit(d) => Fit(d)'
  <2> SUFFICES ASSUME NEW d \in Containers \ {c}, Fit(d) PROVE Fit(d)'
    OBVIOUS
  <2>1. CASE Shared(d)
    BY <1>6, <2>1 DEF Fit, Shared
  <2>2. CASE Usable(d) /\ (name[d] = None \/ name[d] # name[c])
    BY <1>6, <2>2 DEF Fit, Usable, Reach, Owners, Names
  <2>3. CASE name[d] # None /\ name[d] = name[c]
    BY <1>1, <2>1, <2>3 DEF Owners, Names
  <2> QED
    BY <2>1, <2>2, <2>3 DEF Fit
<1>10. OwnersFit'
  BY <1>1, <1>2, <1>5, <1>9 DEF Owners, OwnerTypes, OwnersFit
<1>11. NoneForgotten'
  BY <1>2, <1>3, <1>6 DEF Owners, NoneForgotten
<1>12. (unstarted \cap running = {})'
  BY <1>6 DEF Owners
<1>13. Names'
  BY <1>6 DEF Owners, Names, Shared
<1> QED
  BY <1>7, <1>8, <1>10, <1>11, <1>12, <1>13 DEF Owners

\* A task takes the spare, as acquire_container and shutdown do.
LEMMA OwnersTakeSpare ==
    ASSUME Owners, NEW p \in Procs, held[p] = {},
           held' = [held EXCEPT ![p] = {spare} \ {None}], spare' = None,
           UNCHANGED <<sessions, podman>>
    PROVE  Owners'
<1>1. Table' = Table /\ None \notin Table
  BY DEF Table
<1>2. \A q \in Procs : held'[q] = IF q = p THEN {spare} \ {None} ELSE held[q]
  BY DEF Owners, OwnerTypes
<1>3. OwnerTypes'
  BY DEF Owners, OwnerTypes, podman
<1>4. \A q \in Procs : None \notin held'[q]
  BY <1>2, ProcsAssumption DEF Owners, OwnerTypes
<1>5. OneOwner'
  BY <1>1, <1>2, <1>4 DEF Owners, OneOwner
<1>6. OwnersFit'
  BY <1>1, <1>2, FitSame DEF Owners, OwnersFit
<1>7. NoneForgotten'
  BY <1>1, <1>2, ProcsAssumption DEF Owners, OwnerTypes, NoneForgotten, podman
<1> QED
  BY <1>3, <1>5, <1>6, <1>7, FitSame DEF Owners, podman

\* replenish_spare makes its container the spare.
LEMMA OwnersGiveSpare ==
    ASSUME Owners, NEW p \in Procs, spare = None, NEW c \in held[p],
           \A d \in held[p] : d = c,
           held' = [held EXCEPT ![p] = {}], spare' = c, UNCHANGED <<sessions, podman>>
    PROVE  Owners'
<1>1. Table' = Table /\ c \notin Table /\ c \in Containers /\ held[p] = {c}
  BY DEF Table, Owners, OwnerTypes, OneOwner
<1>2. \A q \in Procs : held'[q] = IF q = p THEN {} ELSE held[q]
  BY DEF Owners, OwnerTypes
<1>3. OwnerTypes'
  BY <1>1 DEF Owners, OwnerTypes, podman
<1>4. \A q \in Procs : c \notin held'[q]
  BY <1>1, <1>2 DEF Owners, OneOwner
<1>5. OneOwner'
  BY <1>1, <1>2, <1>4 DEF Owners, OneOwner
<1>6. OwnersFit'
  BY <1>1, <1>2, FitSame DEF Owners, OwnersFit
<1>7. NoneForgotten'
  BY <1>1, <1>2, ProcsAssumption DEF Owners, OwnerTypes, NoneForgotten, podman
<1> QED
  BY <1>3, <1>5, <1>6, <1>7, FitSame DEF Owners, podman

\* A task takes the container of a session out of the table.
LEMMA OwnersTakeSession ==
    ASSUME Owners, NEW p \in Procs, held[p] = {}, NEW s \in SessionIds,
           held' = [held EXCEPT ![p] = {sessions[s]} \ {None}],
           sessions' = [sessions EXCEPT ![s] = None], UNCHANGED <<spare, podman>>
    PROVE  Owners'
<1>1. \A t \in SessionIds : sessions'[t] = IF t = s THEN None ELSE sessions[t]
  BY DEF Owners, OwnerTypes
<1>2. \A q \in Procs : held'[q] = IF q = p THEN {sessions[s]} \ {None} ELSE held[q]
  BY DEF Owners, OwnerTypes
<1>3. OwnerTypes'
  BY DEF Owners, OwnerTypes, podman
<1>4. Table' = Table \ {sessions[s]}
  BY <1>1 DEF Table, Owners, OneOwner
<1>5. sessions[s] = None \/ sessions[s] \in Table
  BY DEF Table
<1>6. None \notin Table
  BY DEF Table
<1>7. OneOwner'
  <2>1. \A q, r \in Procs : q # r => held'[q] \cap held'[r] = {}
    BY <1>2, <1>5 DEF Owners, OneOwner
  <2>2. \A q \in Procs : spare' \notin held'[q] /\ held'[q] \cap Table' = {}
    BY <1>2, <1>4, <1>5 DEF Owners, OneOwner
  <2> QED
    BY <1>1, <1>4, <2>1, <2>2 DEF Owners, OneOwner
<1>8. OwnersFit'
  BY <1>2, <1>4, <1>5, FitSame DEF Owners, OwnersFit
<1>9. NoneForgotten'
  BY <1>2, <1>4, <1>6 DEF Owners, NoneForgotten, podman
<1> QED
  BY <1>3, <1>7, <1>8, <1>9, FitSame DEF Owners, podman

\* create_session puts its container into the table.
LEMMA OwnersGiveSession ==
    ASSUME Owners, NEW p \in Procs, NEW s \in SessionIds, sessions[s] = None, NEW c \in held[p],
           \A d \in held[p] : d = c,
           held' = [held EXCEPT ![p] = {}], sessions' = [sessions EXCEPT ![s] = c],
           UNCHANGED <<spare, podman>>
    PROVE  Owners'
<1>1. \A t \in SessionIds : sessions'[t] = IF t = s THEN c ELSE sessions[t]
  BY DEF Owners, OwnerTypes
<1>2. c \in Containers /\ c # None /\ held[p] = {c} /\ c \notin Table /\ c # spare
  BY ProcsAssumption DEF Owners, OwnerTypes, OneOwner
<1>3. \A q \in Procs : held'[q] = IF q = p THEN {} ELSE held[q]
  BY DEF Owners, OwnerTypes
<1>4. Table' = Table \cup {c}
  BY <1>1, <1>2 DEF Table
<1>5. OwnerTypes'
  BY <1>2 DEF Owners, OwnerTypes, podman
<1>6. \A q \in Procs : c \notin held'[q]
  BY <1>2, <1>3 DEF Owners, OneOwner
<1>7. OneOwner'
  <2>1. \A t \in SessionIds : sessions[t] # c
    BY <1>2 DEF Table
  <2>2. \A t, u \in SessionIds : sessions'[t] = sessions'[u] /\ sessions'[t] # None => t = u
    BY <1>1, <2>1 DEF Owners, OneOwner
  <2> QED
    BY <1>2, <1>3, <1>4, <1>6, <2>2 DEF Owners, OneOwner
<1>8. OwnersFit'
  BY <1>2, <1>3, <1>4, FitSame DEF Owners, OwnersFit
<1>9. NoneForgotten'
  BY <1>2, <1>3, <1>4 DEF Owners, NoneForgotten, podman
<1> QED
  BY <1>5, <1>7, <1>8, <1>9, FitSame DEF Owners, podman

\* shutdown_sessions takes all containers of the table.
LEMMA OwnersDrain ==
    ASSUME Owners, NEW p \in Procs, held[p] = {}, held' = [held EXCEPT ![p] = Table],
           sessions' = [s \in SessionIds |-> None], UNCHANGED <<spare, podman>>
    PROVE  Owners'
<1>1. Table' = {}
  BY DEF Table
<1>2. \A q \in Procs : held'[q] = IF q = p THEN Table ELSE held[q]
  BY DEF Owners, OwnerTypes
<1>3. Table \subseteq Containers
  BY DEF Table, Owners, OwnerTypes
<1>4. OwnerTypes'
  BY <1>3 DEF Owners, OwnerTypes, podman
<1>5. OneOwner'
  BY <1>1, <1>2 DEF Owners, OneOwner
<1>6. OwnersFit'
  BY <1>1, <1>2, FitSame DEF Owners, OwnersFit
<1>7. NoneForgotten'
  BY <1>2 DEF Owners, NoneForgotten, podman
<1> QED
  BY <1>4, <1>5, <1>6, <1>7, FitSame DEF Owners, podman

----------------------------------------------------------------------------
(* The tasks are different processes.                                      *)

\* The tasks are different from one another.
LEMMA Distinct ==
    /\ Maint \in Procs /\ Main \in Procs /\ Cleanup \in Procs /\ Server \in Procs
    /\ Maint # Main /\ Cleanup # Main /\ Server # Main
    /\ Maint # Cleanup /\ Maint # Server /\ Cleanup # Server
    /\ \A h \in Handlers :
          h \in Procs /\ h \notin Warmers /\ h # Maint /\ h # Main /\ h # Cleanup /\ h # Server
    /\ \A w \in Warmers :
          w \in Procs /\ w \notin Handlers /\ w # Maint /\ w # Main /\ w # Cleanup /\ w # Server
BY ProcsAssumption DEF Procs

\* A step of a task that does not touch what others hold.  It is enough to look
\* at the task itself.
LEMMA HoldingStep ==
    ASSUME Control, Owners, NEW p \in Procs, NEW l \in Labels, NEW S,
           pc' = [pc EXCEPT ![p] = l],
           held' = [held EXCEPT ![p] = S],
           p # Main => \A c, d \in S : c = d,
           p \in Handlers /\ l \in HandsFree => S = {},
           p \in Handlers /\ l \in Acquiring => sid'[p] \in SessionIds,
           \A h \in Handlers \ {p} : sid'[h] = sid[h],
           p \in Warmers /\ l \in {"idle", "create"} => S = {},
           p = Maint /\ l \in {"idle", "ensure", "loop", "recheck", "wait", "notified", "stopped"}
              => S = {},
           IF p = Maint THEN (l = "recheck" => checked' # None) /\ pc[Main] # "image"
           ELSE checked' = checked,
           p = Main => l # "image" /\ (l \in {"run", "stopping"} => S = {})
    PROVE  Holding'
<1>1. \A q \in Procs : /\ pc'[q] = IF q = p THEN l ELSE pc[q]
                       /\ held'[q] = IF q = p THEN S ELSE held[q]
  BY DEF Control, TaskTypes, Owners, OwnerTypes
<1>2. (\A q \in Procs \ {Main} : \A c, d \in held[q] : c = d)'
  BY <1>1 DEF Control, Holding
<1>3. (\A h \in Handlers :
          /\ pc[h] \in HandsFree => held[h] = {}
          /\ pc[h] \in Acquiring => sid[h] \in SessionIds)'
  BY <1>1, Distinct DEF Control, Holding
<1>4. (\A w \in Warmers : pc[w] \in {"idle", "create"} => held[w] = {})'
  BY <1>1, Distinct DEF Control, Holding
<1>5. (/\ pc[Maint] \in {"idle", "ensure", "loop", "recheck", "wait", "notified", "stopped"}
             => held[Maint] = {}
       /\ pc[Maint] = "recheck" => checked # None)'
  BY <1>1, Distinct DEF Control, Holding
<1>6. (/\ pc[Main] \in {"image", "run", "stopping"} => held[Main] = {}
       /\ pc[Main] = "image" => pc[Maint] = "idle")'
  BY <1>1, Distinct DEF Control, Holding
<1> QED
  BY <1>2, <1>3, <1>4, <1>5, <1>6 DEF Holding

\* Steps of a task other than Maint that leave the pool alone.
LEMMA PoolSame ==
    ASSUME Control, NEW p \in Procs \ {Maint}, NEW l \in Labels, pc' = [pc EXCEPT ![p] = l],
           UNCHANGED pool
    PROVE  Stopping' /\ AtMostOneSpare'
<1>1. pc'[Maint] = pc[Maint]
  BY Distinct DEF Control, TaskTypes
<1> QED
  BY <1>1 DEF Control, Stopping, AtMostOneSpare, pool

\* ensure_spare, called by a handler or by the maintenance task.
LEMMA EnsureSpareGood ==
    ASSUME IInv, NEW p \in Handlers \cup {Maint},
           NEW next \in Labels, next \in {"insert", "create", "loop"},
           ensure_spare(p, next), p \in Handlers => pc[p] \in Acquiring,
           next = "create" => held[p] = {},
           p = Maint => next = "loop" /\ pc[p] \in {"ensure", "loop"},
           p # Maint => next # "loop",
           UNCHANGED <<sessions, held, checked, requests, cleaning, podman>>
    PROVE  IInv'
<1>1. Owners'
  BY OwnersSame DEF IInv, ensure_spare
<1>2. CASE pc' = [pc EXCEPT ![p] = next] /\ UNCHANGED replenish_in_progress
  <2>1. held' = [held EXCEPT ![p] = held[p]]
    BY DEF IInv, Owners, OwnerTypes
  <2>2. TaskTypes'
    BY <1>2 DEF IInv, Control, TaskTypes, LocalTypes, ensure_spare
  <2>3. p = Maint => held[p] = {} /\ pc[Main] # "image"
    BY DEF IInv, Control, Holding
  <2>4. p \in Procs /\ p # Main /\ p \notin Warmers
    BY Distinct
  <2>5. p \in Handlers => sid[p] \in SessionIds
    BY DEF IInv, Control, Holding
  <2>6. \A c, d \in held[p] : c = d
    BY <2>4 DEF IInv, Control, Holding
  <2>7. Holding'
    BY <1>2, <2>1, <2>3, <2>4, <2>5, <2>6, HoldingStep DEF IInv, HandsFree
  <2>8. Stopping' /\ AtMostOneSpare'
    BY <1>2, <2>4, Distinct DEF IInv, Control, TaskTypes, Stopping, AtMostOneSpare, ensure_spare
  <2> QED
    BY <1>1, <2>2, <2>7, <2>8 DEF IInv, Control
<1>3. CASE /\ ~shutting_down /\ spare = None /\ replenish_in_progress' = TRUE
           /\ \E w \in Warmers : /\ pc[w] = "idle"
                                 /\ pc' = [pc EXCEPT ![p] = next, ![w] = "create"]
  <2>1. PICK w \in Warmers : pc[w] = "idle" /\ pc' = [pc EXCEPT ![p] = next, ![w] = "create"]
    BY <1>3
  <2>2. p \in Procs /\ w \in Procs /\ w # p
    BY Distinct
  <2>3. \A q \in Procs : pc'[q] = IF q = w THEN "create" ELSE IF q = p THEN next ELSE pc[q]
    BY <2>1, <2>2 DEF IInv, Control, TaskTypes
  <2>4. TaskTypes'
    <3> DEFINE pc1 == [pc EXCEPT ![p] = next]
    <3>0. pc1 \in [Procs -> Labels] /\ pc' = [pc1 EXCEPT ![w] = "create"]
      BY <2>1 DEF IInv, Control, TaskTypes
    <3> HIDE DEF pc1
    <3>1. pc' \in [Procs -> Labels]
      BY <3>0 DEF Labels
    <3>2. replenish_in_progress' \in BOOLEAN
      BY <1>3, Zenon
    <3> QED
      BY <3>1, <3>2 DEF IInv, Control, TaskTypes, LocalTypes, ensure_spare
  <2>5. \A h \in Handlers :
           /\ pc'[h] \in HandsFree => held[h] = {}
           /\ pc'[h] \in Acquiring => sid[h] \in SessionIds
    BY <2>3, Distinct DEF IInv, Control, Holding, HandsFree
  <2>6. \A v \in Warmers : pc'[v] \in {"idle", "create"} => held[v] = {}
    BY <2>1, <2>3, Distinct DEF IInv, Control, Holding
  <2>7. /\ pc'[Maint] \in {"idle", "ensure", "loop", "recheck", "wait", "notified", "stopped"}
              => held[Maint] = {}
        /\ pc'[Maint] = "recheck" => checked # None
    BY <2>3, Distinct DEF IInv, Control, Holding
  <2>8. pc'[Main] = pc[Main] /\ (pc[Main] = "image" => pc'[Maint] = "idle")
    BY <2>3, Distinct DEF IInv, Control, Holding
  <2>9. Holding'
    BY <2>5, <2>6, <2>7, <2>8 DEF IInv, Control, Holding
  <2>10. Stopping' /\ AtMostOneSpare'
    BY <1>3, <2>3, Distinct DEF IInv, Control, Stopping, AtMostOneSpare, ensure_spare
  <2> QED
    BY <1>1, <2>4, <2>9, <2>10 DEF IInv, Control
<1> QED
  BY <1>2, <1>3 DEF ensure_spare, Goto

\* A task creates a container for the id s.
LEMMA CreateGood ==
    ASSUME IInv, NEW p \in Handlers \cup Warmers, pc[p] = "create", NEW s \in SessionIds \cup {None},
           NEW err \in {"offer", "done"}, p \in Warmers => err = "offer",
           p \in Handlers => err = "done",
           create_session_container(p, s, err),
           UNCHANGED <<pool, sessions, checked, requests, cleaning>>
    PROVE  IInv'
<1>1. /\ p \in Procs \ {Main, Maint} /\ held[p] = {}
      /\ p \in Handlers => sid[p] \in SessionIds
      /\ err \in Labels /\ "ready" \in Labels
  BY Distinct DEF IInv, Control, Holding, HandsFree, Acquiring, Labels
<1> DEFINE same == {d \in running : s # None /\ name[d] = s}
           c == CHOOSE d \in unstarted : TRUE
<1>2. creations' = (IF s = None THEN creations ELSE [creations EXCEPT ![s] = @ + 1]) /\ lost' = lost
  BY DEF create_session_container
<1>3. CASE /\ unstarted # {}
           /\ running' = (running \ same) \cup {c}
           /\ unstarted' = unstarted \ {c}
           /\ name' = [name EXCEPT ![c] = s]
           /\ Bind(s, c)
           /\ held' = [held EXCEPT ![p] = {c}]
           /\ Goto(p, "ready")
  <2>1. c \in unstarted
    BY <1>3
  <2> HIDE DEF c
  <2>2. Owners'
    BY <1>1, <1>2, <1>3, <2>1, OwnersCreate DEF IInv, pool
  <2>3. Holding'
    BY <1>1, <1>3, HoldingStep DEF IInv, Goto, HandsFree
  <2>4. TaskTypes'
    BY <1>1, <1>3 DEF IInv, Control, TaskTypes, LocalTypes, Goto, pool
  <2>5. Stopping' /\ AtMostOneSpare'
    BY <1>1, <1>3, PoolSame DEF IInv, Goto
  <2> QED
    BY <2>2, <2>3, <2>4, <2>5 DEF IInv, Control
<1>4. CASE /\ \/ UNCHANGED <<running, bridge>>
              \/ running' \in {running, running \ same} /\ Bind(s, None)
           /\ Goto(p, err)
           /\ UNCHANGED <<held, unstarted, name>>
  <2>1. held' = [held EXCEPT ![p] = {}]
    BY <1>1, <1>4 DEF IInv, Owners, OwnerTypes
  <2>2. Owners'
    BY <1>2, <1>4, OwnersCreateFails DEF IInv, pool
  <2>3. Holding'
    BY <1>1, <1>4, <2>1, HoldingStep DEF IInv, Goto
  <2>4. TaskTypes'
    BY <1>1, <1>4 DEF IInv, Control, TaskTypes, LocalTypes, Goto, pool
  <2>5. Stopping' /\ AtMostOneSpare'
    BY <1>1, <1>4, PoolSame DEF IInv, Goto
  <2> QED
    BY <2>2, <2>3, <2>4, <2>5 DEF IInv, Control
<1> QED
  BY <1>3, <1>4 DEF create_session_container

\* A task destroys a container it holds.
LEMMA DestroyGood ==
    ASSUME IInv, NEW p \in Procs, NEW c, destroy_session_container(p, c),
           NEW l \in Labels, pc' = [pc EXCEPT ![p] = l],
           p \in Handlers /\ l \in Acquiring => pc[p] \in Acquiring,
           p = Maint => \/ l = "ensure" /\ pc[p] = "replace"
                        \/ l = "wait" /\ pc[p] = "drain"
                        \/ l = "stopped" /\ pc[p] = "last",
           p = Main => l = "drain",
           UNCHANGED <<pool, sessions, checked, requests, cleaning>>
    PROVE  IInv'
<1>1. Owners'
  BY OwnersDestroy DEF IInv, pool
<1>2. c \in held[p] /\ held' = [held EXCEPT ![p] = held[p] \ {c}]
  BY DEF destroy_session_container, IInv, Owners, OwnerTypes
<1>3. p # Main => held[p] \ {c} = {}
  BY <1>2 DEF IInv, Control, Holding
<1>4. p = Maint => pc[Main] # "image"
  BY DEF IInv, Control, Holding
<1>5. p \in Handlers /\ l \in Acquiring => sid[p] \in SessionIds
  BY DEF IInv, Control, Holding
<1>6. Holding'
  BY <1>2, <1>3, <1>4, <1>5, Distinct, HoldingStep DEF IInv
<1>7. TaskTypes'
  BY DEF IInv, Control, TaskTypes, LocalTypes, pool
<1>8. Stopping' /\ AtMostOneSpare'
  <2>1. pc'[Maint] = IF p = Maint THEN l ELSE pc[Maint]
    BY Distinct DEF IInv, Control, TaskTypes
  <2> QED
    BY <2>1 DEF IInv, Control, Stopping, AtMostOneSpare, pool
<1> QED
  BY <1>1, <1>6, <1>7, <1>8 DEF IInv, Control

\* A task goes on and no container moves.
LEMMA MoveGood ==
    ASSUME IInv, NEW p \in Procs, NEW l \in Labels, pc' = [pc EXCEPT ![p] = l],
           p \in Handlers =>
              /\ l \in HandsFree => held[p] = {}
              /\ l \in Acquiring => sid'[p] \in SessionIds,
           \A h \in Handlers \ {p} : sid'[h] = sid[h],
           p \in Warmers /\ l \in {"idle", "create"} => held[p] = {},
           p = Maint => /\ held[p] = {}
                        /\ l = "recheck" => checked' # None
                        /\ pc[Main] # "image"
                        /\ l \in {"drain", "wait", "notified", "last", "stopped"} => shutting_down
                        /\ l \in {"last", "stopped"} => spare = None /\ ~replenish_in_progress,
           p # Maint => checked' = checked,
           p = Main => l # "image" /\ (l \in {"run", "stopping"} => held[p] = {}),
           LocalTypes',
           UNCHANGED <<spare, replenish_in_progress, shutting_down, sessions, held, podman>>
    PROVE  IInv'
<1>1. Owners'
  BY OwnersSame DEF IInv
<1>2. held' = [held EXCEPT ![p] = held[p]]
  BY DEF IInv, Owners, OwnerTypes
<1>3. p # Main => \A c, d \in held[p] : c = d
  BY DEF IInv, Control, Holding
<1>4. Holding'
  BY <1>2, <1>3, HoldingStep DEF IInv
<1>5. TaskTypes'
  BY DEF IInv, Control, TaskTypes
<1>6. Stopping' /\ AtMostOneSpare'
  <2>1. pc'[Maint] = IF p = Maint THEN l ELSE pc[Maint]
    BY Distinct DEF IInv, Control, TaskTypes
  <2> QED
    BY <2>1 DEF IInv, Control, Stopping, AtMostOneSpare
<1> QED
  BY <1>1, <1>4, <1>5, <1>6 DEF IInv, Control

----------------------------------------------------------------------------
(* replenish_spare.                                                        *)

\* Under the pool's lock: the container becomes the spare or is kept.
LEMMA OfferGood == ASSUME IInv, NEW w \in Warmers, ReplenishOffer(w) PROVE IInv'
<1>1. /\ w \in Procs /\ w # Main /\ w # Maint /\ w \notin Handlers
      /\ "notify" \in Labels /\ \A c, d \in held[w] : c = d
  BY Distinct DEF Labels, IInv, Control, Holding
<1>2. TaskTypes'
  <2>1. replenish_in_progress' \in BOOLEAN
    BY Zenon DEF ReplenishOffer
  <2> QED
    BY <1>1, <2>1 DEF ReplenishOffer, Goto, IInv, Control, TaskTypes, LocalTypes
<1>3. CASE UNCHANGED <<spare, held>>
  <2>1. Owners'
    BY <1>3, OwnersSame DEF ReplenishOffer, IInv
  <2>2. held' = [held EXCEPT ![w] = held[w]]
    BY <1>3 DEF IInv, Owners, OwnerTypes
  <2>3. Holding'
    BY <1>1, <2>2, HoldingStep DEF ReplenishOffer, Goto, IInv
  <2>4. pc'[Maint] = pc[Maint]
    BY <1>1, Distinct DEF ReplenishOffer, Goto, IInv, Control, TaskTypes
  <2>5. Stopping' /\ AtMostOneSpare'
    BY <1>3, <2>4 DEF ReplenishOffer, IInv, Control, Stopping, AtMostOneSpare
  <2> QED
    BY <1>2, <2>1, <2>3, <2>5 DEF IInv, Control
<1>4. CASE /\ ~shutting_down /\ spare = None
           /\ \E c \in held[w] : spare' = c
           /\ held' = [held EXCEPT ![w] = {}]
  <2>1. Owners'
    BY <1>1, <1>4, OwnersGiveSpare DEF ReplenishOffer, IInv
  <2>2. Holding'
    BY <1>1, <1>4, HoldingStep DEF ReplenishOffer, Goto, IInv
  <2>3. pc'[Maint] = pc[Maint]
    BY <1>1, Distinct DEF ReplenishOffer, Goto, IInv, Control, TaskTypes
  <2>4. Stopping' /\ AtMostOneSpare'
    BY <1>4, <2>3 DEF ReplenishOffer, IInv, Control, Stopping, AtMostOneSpare
  <2> QED
    BY <1>2, <2>1, <2>2, <2>4 DEF IInv, Control
<1> QED
  BY <1>3, <1>4 DEF ReplenishOffer

\* notify_one, after the lock.
LEMMA NotifyGood == ASSUME IInv, NEW w \in Warmers, ReplenishNotify(w) PROVE IInv'
<1>1. permit' \in BOOLEAN
  BY Zenon DEF ReplenishNotify
<1>2. w \in Procs /\ w \notin Handlers /\ w # Main /\ w # Maint
  BY Distinct
<1>3. LocalTypes'
  BY <1>1 DEF ReplenishNotify, IInv, Control, TaskTypes, LocalTypes
<1>4. PICK l \in Labels : /\ pc' = [pc EXCEPT ![w] = l]
                          /\ l \in {"idle", "create"} => held[w] = {}
  BY DEF ReplenishNotify, Goto, Labels
<1> QED
  BY <1>2, <1>3, <1>4, MoveGood DEF ReplenishNotify

\* A task pings the container it has started: it keeps it or destroys it.
LEMMA ReadyGood ==
    ASSUME IInv, NEW p \in Handlers \cup Warmers, pc[p] = "ready",
           NEW ok \in Labels, NEW err \in Labels, wait_for_bridge_socket(p, ok, err),
           p \in Handlers => ok = "insert" /\ err = "done",
           p \in Warmers => ok = "offer" /\ err = "offer",
           UNCHANGED <<pool, sessions, checked, requests, cleaning>>
    PROVE  IInv'
<1>1. /\ p \in Procs \ {Main, Maint}
      /\ p \in Handlers => p \notin Warmers
      /\ p \in Handlers => sid[p] \in SessionIds
  BY Distinct DEF IInv, Control, Holding, Acquiring
<1>2. LocalTypes'
  BY DEF pool, IInv, Control, TaskTypes, LocalTypes
<1>3. CASE Goto(p, ok) /\ UNCHANGED <<held, podman>>
  BY <1>1, <1>2, <1>3, MoveGood DEF Goto, pool, HandsFree
<1>4. CASE \E c \in held[p] : destroy_session_container(p, c) /\ Goto(p, err)
  BY <1>1, <1>4, DestroyGood DEF Goto, Acquiring
<1> QED
  BY <1>3, <1>4 DEF wait_for_bridge_socket

\* Every step of replenish_spare.
LEMMA ReplenishGood == ASSUME IInv, NEW w \in Warmers, Replenish(w) PROVE IInv'
<1>1. w \in Procs /\ w \notin Handlers /\ w # Main /\ w # Maint
      /\ {"offer", "idle"} \subseteq Labels
  BY Distinct DEF Labels
<1>2. CASE ReplenishCreate(w)
  <2>1. CASE pc[w] = "create" /\ create_session_container(w, None, "offer")
    BY <1>1, <1>2, <2>1, CreateGood DEF ReplenishCreate
  <2>2. CASE pc[w] = "ready" /\ wait_for_bridge_socket(w, "offer", "offer")
    BY <1>1, <1>2, <2>2, ReadyGood DEF ReplenishCreate
  <2> QED
    BY <1>2, <2>1, <2>2 DEF ReplenishCreate
<1>3. CASE ReplenishDiscard(w)
  BY <1>1, <1>3, DestroyGood DEF ReplenishDiscard, Goto
<1> QED
  BY <1>2, <1>3, OfferGood, NotifyGood DEF Replenish

----------------------------------------------------------------------------
(* The maintenance task.                                                   *)

\* The task takes the spare, if there is one, to destroy it.
LEMMA TakeGood ==
    ASSUME IInv, NEW p \in Handlers \cup {Maint}, NEW l \in Labels, held[p] = {},
           pc' = [pc EXCEPT ![p] = l],
           held' = [held EXCEPT ![p] = {spare} \ {None}], spare' = None,
           p \in Handlers => /\ l \in {"renew", "refill", "reject"} /\ sid[p] \in SessionIds
                             /\ l = "renew" => spare = None,
           p = Maint => /\ l \in {"replace", "drain", "last"} /\ pc[Main] # "image"
                        /\ l \in {"drain", "last"} => shutting_down'
                        /\ l = "last" => ~replenish_in_progress,
           shutting_down' \in BOOLEAN, shutting_down => shutting_down',
           checked' \in Containers \cup {None}, p # Maint => checked' = checked,
           UNCHANGED <<replenish_in_progress, permit, sessions, requests, cleaning, podman>>
    PROVE  IInv'
<1>1. p \in Procs /\ p # Main /\ p \notin Warmers /\ (p \in Handlers => p # Maint)
  BY Distinct
<1>2. Owners'
  BY <1>1, OwnersTakeSpare DEF IInv
<1>3. Holding'
  BY <1>1, HoldingStep DEF IInv, HandsFree
<1>4. TaskTypes'
  BY DEF IInv, Control, TaskTypes, LocalTypes
<1>5. pc'[Maint] = IF p = Maint THEN l ELSE pc[Maint]
  BY Distinct DEF IInv, Control, TaskTypes
<1>6. Stopping' /\ AtMostOneSpare'
  BY <1>1, <1>5 DEF IInv, Control, Stopping, AtMostOneSpare
<1> QED
  BY <1>2, <1>3, <1>4, <1>6 DEF IInv, Control

\* A tick finds no spare and orders one, or clones the spare.
LEMMA TickGood == ASSUME IInv, MaintTick PROVE IInv'
<1>1. /\ held[Maint] = {} /\ pc[Main] # "image" /\ Maint \in Procs /\ {"loop", "recheck"} \subseteq Labels
      /\ Maint \notin Handlers /\ Maint \notin Warmers /\ Maint # Main
  BY Distinct DEF MaintTick, IInv, Control, Holding, Labels
<1>2. CASE ensure_spare(Maint, "loop") /\ UNCHANGED checked
  BY <1>1, <1>2, EnsureSpareGood DEF MaintTick
<1>3. CASE spare # None /\ checked' = spare /\ Goto(Maint, "recheck") /\ UNCHANGED pool
  <2>1. LocalTypes' /\ \A h \in Handlers : sid'[h] = sid[h]
    BY <1>3 DEF MaintTick, pool, IInv, Owners, OwnerTypes, Control, TaskTypes, LocalTypes
  <2> QED
    BY <1>1, <1>3, <2>1, MoveGood DEF MaintTick, Goto, pool
<1> QED
  BY <1>2, <1>3 DEF MaintTick

\* The spare is taken only if it is still the one that failed.
LEMMA RecheckGood == ASSUME IInv, MaintRecheck PROVE IInv'
<1>1. /\ held[Maint] = {} /\ pc[Main] # "image" /\ checked # None
      /\ "replace" \in Labels /\ "ensure" \in Labels
      /\ LocalTypes' /\ shutting_down' \in BOOLEAN /\ \A h \in Handlers : sid'[h] = sid[h]
  BY DEF MaintRecheck, IInv, Control, TaskTypes, LocalTypes, Holding, Labels
<1>2. CASE spare = checked
  <2>1. {spare} = {spare} \ {None}
    BY <1>1, <1>2
  <2>2. held' = [held EXCEPT ![Maint] = {spare} \ {None}]
    BY <1>2, <2>1 DEF MaintRecheck
  <2> QED
    BY <1>1, <1>2, <2>2, TakeGood, Distinct DEF MaintRecheck, Goto
<1>3. CASE spare # checked
  BY <1>1, <1>3, MoveGood, Distinct DEF MaintRecheck, Goto
<1> QED
  BY <1>2, <1>3

\* shutdown sets the flag and takes the spare.
LEMMA ShutdownGood == ASSUME IInv, PoolShutdown PROVE IInv'
<1>1. held[Maint] = {} /\ pc[Main] # "image" /\ "drain" \in Labels
      /\ checked' \in Containers \cup {None}
  BY DEF PoolShutdown, IInv, Control, TaskTypes, LocalTypes, Holding, Labels
<1>2. shutting_down' \in BOOLEAN /\ shutting_down'
  BY Zenon DEF PoolShutdown
<1> QED
  BY <1>1, <1>2, TakeGood, Distinct DEF PoolShutdown, Goto

\* The rest of shutdown: destroy, wait for a replenishment, destroy.
LEMMA PoolStopGood == ASSUME IInv, PoolStop PROVE IInv'
<1>1. /\ LocalTypes /\ shutting_down \in BOOLEAN
      /\ checked \in Containers \cup {None}
      /\ {"wait", "stopped", "notified", "last"} \subseteq Labels
  BY DEF IInv, Control, TaskTypes, LocalTypes, Labels
<1>2. CASE PoolDestroySpare
  <2>1. PICK l \in Labels : /\ pc' = [pc EXCEPT ![Maint] = l]
                            /\ \/ l = "wait" /\ pc[Maint] = "drain"
                               \/ l = "stopped" /\ pc[Maint] = "last"
    BY <1>1, <1>2 DEF PoolDestroySpare, Goto
  <2>2. CASE held[Maint] = {} /\ UNCHANGED <<held, podman>>
    <3>1. /\ shutting_down /\ pc[Main] # "image"
          /\ l = "stopped" => spare = None /\ ~replenish_in_progress
      BY <1>2, <2>1 DEF PoolDestroySpare, IInv, Control, Stopping, Holding, AtMostOneSpare
    <3>2. LocalTypes'
      BY <1>1, <1>2 DEF PoolDestroySpare, pool, LocalTypes
    <3> QED
      BY <1>2, <2>1, <2>2, <3>1, <3>2, MoveGood, Distinct DEF PoolDestroySpare, pool
  <2>3. CASE \E c \in held[Maint] : destroy_session_container(Maint, c)
    BY <1>2, <2>1, <2>3, DestroyGood, Distinct DEF PoolDestroySpare
  <2> QED
    BY <1>2, <2>2, <2>3 DEF PoolDestroySpare
<1>3. CASE PoolWaitReplenish
  <2>1. held[Maint] = {} /\ pc[Main] # "image" /\ shutting_down
    BY <1>3 DEF PoolWaitReplenish, IInv, Control, Holding, Stopping
  <2>2. CASE Goto(Maint, "notified") /\ UNCHANGED <<spare, held>>
    <3>1. LocalTypes'
      BY <1>1, <1>3 DEF PoolWaitReplenish, LocalTypes
    <3> QED
      BY <1>1, <1>3, <2>1, <2>2, <3>1, MoveGood, Distinct DEF PoolWaitReplenish, Goto
  <2>3. CASE /\ ~replenish_in_progress
             /\ held' = [held EXCEPT ![Maint] = {spare} \ {None}]
             /\ spare' = None
             /\ Goto(Maint, "last")
    BY <1>1, <1>3, <2>1, <2>3, TakeGood, Distinct DEF PoolWaitReplenish, Goto
  <2> QED
    BY <1>3, <2>2, <2>3 DEF PoolWaitReplenish
<1>4. CASE PoolNotified
  <2>1. held[Maint] = {} /\ pc[Main] # "image" /\ shutting_down
    BY <1>4 DEF PoolNotified, IInv, Control, Holding, Stopping
  <2>2. permit' \in BOOLEAN
    BY <1>4, Zenon DEF PoolNotified
  <2>3. LocalTypes'
    BY <1>1, <1>4, <2>2 DEF PoolNotified, LocalTypes
  <2> QED
    BY <1>1, <1>4, <2>1, <2>3, MoveGood, Distinct DEF PoolNotified, Goto
<1> QED
  BY <1>2, <1>3, <1>4 DEF PoolStop

\* The other steps of run_maintenance.
LEMMA MaintCheckGood == ASSUME IInv, MaintCheck PROVE IInv'
<1>1. CASE MaintStart
  BY <1>1, EnsureSpareGood, Distinct DEF MaintStart, Labels
<1>2. CASE MaintReplace
  BY <1>2, DestroyGood, Distinct DEF MaintReplace, Goto, Labels
<1> QED
  BY <1>1, <1>2, RecheckGood DEF MaintCheck

----------------------------------------------------------------------------
(* The handlers.                                                           *)

\* acquire_container, up to the container that the session gets.
LEMMA AcquireGood ==
    ASSUME IInv, NEW h \in Handlers,
           AcquireTake(h) \/ AcquireReject(h) \/ AcquireEnsure(h) \/ AcquireCreate(h)
    PROVE  IInv'
<1>1. h \in Procs /\ h \notin Warmers /\ h # Main /\ h # Maint
  BY Distinct
<1>2. CASE AcquireTake(h)
  <2>1. PICK l \in Labels : /\ pc' = [pc EXCEPT ![h] = l] /\ l \in {"renew", "refill", "reject"}
                            /\ l = "renew" => spare = None
    BY <1>2 DEF AcquireTake, Goto, Labels
  <2>2. held[h] = {} /\ sid[h] \in SessionIds
    BY <1>2 DEF AcquireTake, IInv, Control, Holding, HandsFree, Acquiring
  <2>3. checked' \in Containers \cup {None} /\ shutting_down' \in BOOLEAN
    BY <1>2 DEF AcquireTake, IInv, Control, TaskTypes, LocalTypes
  <2> QED
    BY <1>1, <1>2, <2>1, <2>2, <2>3, TakeGood DEF AcquireTake
<1>3. CASE AcquireReject(h)
  BY <1>1, <1>3, DestroyGood DEF AcquireReject, Goto, Labels, Acquiring
<1>4. CASE AcquireEnsure(h)
  <2>1. pc[h] = "renew" => held[h] = {}
    BY DEF IInv, Control, Holding, HandsFree
  <2> QED
    BY <1>1, <1>4, <2>1, EnsureSpareGood DEF AcquireEnsure, Labels, Acquiring
<1>5. CASE AcquireCreate(h)
  <2>1. CASE pc[h] = "create" /\ create_session_container(h, sid[h], "done")
    <3>1. sid[h] \in SessionIds
      BY <2>1 DEF IInv, Control, Holding, Acquiring
    <3> QED
      BY <1>1, <1>5, <2>1, <3>1, CreateGood DEF AcquireCreate
  <2>2. CASE pc[h] = "ready" /\ wait_for_bridge_socket(h, "insert", "done")
    BY <1>1, <1>5, <2>2, ReadyGood DEF AcquireCreate, Labels
  <2> QED
    BY <1>5, <2>1, <2>2 DEF AcquireCreate
<1> QED
  BY <1>2, <1>3, <1>4, <1>5

\* A task takes a session out of the table.
LEMMA TakeSessionGood ==
    ASSUME IInv, NEW p \in Procs \ {Main, Maint}, p \notin Warmers, NEW s \in SessionIds,
           held[p] = {}, NEW l \in Labels, pc' = [pc EXCEPT ![p] = l],
           p \in Handlers => l = "destroy",
           held' = [held EXCEPT ![p] = {sessions[s]} \ {None}],
           sessions' = [sessions EXCEPT ![s] = None],
           stale' \in SUBSET SessionIds, UNCHANGED <<pool, checked, requests, seen, podman>>
    PROVE  IInv'
<1>1. Owners'
  BY OwnersTakeSession DEF IInv, pool
<1>2. Holding'
  BY HoldingStep DEF IInv, HandsFree, Acquiring
<1>3. TaskTypes'
  BY DEF IInv, Control, TaskTypes, LocalTypes, pool
<1>4. Stopping' /\ AtMostOneSpare'
  BY PoolSame DEF IInv
<1> QED
  BY <1>1, <1>2, <1>3, <1>4 DEF IInv, Control

\* create_session accepts an id that is not in the table.
LEMMA StartSessionGood ==
    ASSUME IInv, NEW h \in Handlers, NEW s \in SessionIds, StartSession(h, s)
    PROVE  IInv'
<1>1. h \in Procs /\ h \notin Warmers /\ h # Main /\ h # Maint /\ held[h] = {}
  BY Distinct DEF StartSession, Accepted, IInv, Control, Holding, HandsFree
<1>2. /\ LocalTypes'
      /\ sid'[h] \in SessionIds
      /\ \A g \in Handlers \ {h} : sid'[g] = sid[g]
  BY DEF StartSession, pool, IInv, Control, TaskTypes, LocalTypes
<1>3. "take" \in Labels
  BY DEF Labels
<1> QED
  BY <1>1, <1>2, <1>3, MoveGood DEF StartSession, Goto, pool

\* create_session inserts its container, or finds the id taken.
LEMMA InsertSessionGood == ASSUME IInv, NEW h \in Handlers, InsertSession(h) PROVE IInv'
<1>1. /\ h \in Procs /\ h \notin Warmers /\ h # Main /\ h # Maint
      /\ sid[h] \in SessionIds /\ "flow" \in Labels /\ "done" \in Labels
      /\ \A c, d \in held[h] : c = d
  BY Distinct DEF InsertSession, IInv, Control, Holding, Acquiring, Labels
<1>2. CASE /\ sessions[sid[h]] = None
           /\ \E c \in held[h] : /\ sessions' = [sessions EXCEPT ![sid[h]] = c]
                                 /\ drives' = [drives EXCEPT ![h] = c]
           /\ held' = [held EXCEPT ![h] = {}]
           /\ Goto(h, "flow")
           /\ UNCHANGED podman
  <2>1. PICK c \in held[h] : /\ sessions' = [sessions EXCEPT ![sid[h]] = c]
                             /\ drives' = [drives EXCEPT ![h] = c]
    BY <1>2
  <2>2. Owners'
    BY <1>1, <1>2, <2>1, OwnersGiveSession DEF InsertSession, IInv, pool
  <2>3. Holding'
    BY <1>1, <1>2, HoldingStep DEF InsertSession, IInv, Goto, Acquiring
  <2>4. TaskTypes'
    <3>1. c \in Containers
      BY <1>1, <2>1 DEF IInv, Owners, OwnerTypes
    <3> QED
      BY <1>1, <1>2, <2>1, <3>1 DEF InsertSession, Goto, IInv, Control, TaskTypes, LocalTypes, pool
  <2>5. Stopping' /\ AtMostOneSpare'
    BY <1>1, <1>2, PoolSame DEF InsertSession, IInv, Goto
  <2> QED
    BY <2>2, <2>3, <2>4, <2>5 DEF IInv, Control
<1>3. CASE /\ \E c \in held[h] : destroy_session_container(h, c)
           /\ Goto(h, "done")
           /\ UNCHANGED <<sessions, drives>>
  BY <1>1, <1>3, DestroyGood DEF InsertSession, Goto, Acquiring
<1> QED
  BY <1>2, <1>3 DEF InsertSession

\* A flow goes on in a container of the table, or blocks.
LEMMA FlowGood ==
    ASSUME IInv, NEW h \in Handlers, (\E s \in SessionIds : NextStep(h, s)) \/ FlowBlocks(h)
    PROVE  IInv'
<1>1. /\ h \in Procs /\ h \notin Warmers /\ h # Main /\ h # Maint /\ held[h] = {}
      /\ "flow" \in Labels /\ "stuck" \in Labels
  BY Distinct DEF NextStep, Accepted, FlowBlocks, IInv, Control, Holding, HandsFree, Labels
<1>2. drives' \in [Handlers -> Containers \cup {None}]
  BY DEF NextStep, FlowBlocks, IInv, Owners, OwnerTypes, Control, TaskTypes, LocalTypes
<1>3. LocalTypes'
  BY <1>2 DEF NextStep, FlowBlocks, pool, IInv, Control, TaskTypes, LocalTypes
<1> QED
  BY <1>1, <1>3, MoveGood DEF NextStep, FlowBlocks, Goto, pool, Acquiring

\* cancel_session takes the session out of the table.
LEMMA CancelSessionGood ==
    ASSUME IInv, NEW h \in Handlers, NEW s \in SessionIds, CancelSession(h, s)
    PROVE  IInv'
<1>1. h \in Procs \ {Main, Maint} /\ h \notin Warmers /\ held[h] = {} /\ "destroy" \in Labels
  BY Distinct DEF CancelSession, Accepted, IInv, Control, Holding, HandsFree, Labels
<1>2. stale' \in SUBSET SessionIds
  BY DEF CancelSession, IInv, Control, TaskTypes, LocalTypes
<1>3. held' = [held EXCEPT ![h] = {sessions[s]} \ {None}]
  <2>1. {sessions[s]} = {sessions[s]} \ {None}
    BY DEF CancelSession
  <2> QED
    BY <2>1 DEF CancelSession
<1> QED
  BY <1>1, <1>2, <1>3, TakeSessionGood DEF CancelSession, Goto

\* Every step of a request.
LEMMA HandleGood == ASSUME IInv, NEW h \in Handlers, Handle(h) PROVE IInv'
<1>1. CASE DestroyOwn(h)
  <2>1. h \in Procs /\ h # Main /\ h # Maint
    BY Distinct
  <2> QED
    BY <1>1, <2>1, DestroyGood DEF DestroyOwn, Goto, Labels, Acquiring
<1> QED
  BY <1>1, StartSessionGood, FlowGood, CancelSessionGood, AcquireGood, InsertSessionGood
     DEF Handle

----------------------------------------------------------------------------
(* Cleanup and main.                                                       *)

\* cleanup_stale_sessions and the end of its task.
LEMMA CleanupGood ==
    ASSUME IInv, CleanupFind \/ CleanupStep \/ CleanupStop
    PROVE  IInv'
<1>1. /\ Cleanup \in Procs \ {Main, Maint} /\ Cleanup \notin Handlers /\ Cleanup \notin Warmers
      /\ {"inspect", "remove", "idle", "stopped"} \subseteq Labels
  BY Distinct DEF Labels
<1>2. LocalTypes /\ sessions \in [SessionIds -> Containers \cup {None}]
  BY DEF IInv, Owners, OwnerTypes, Control, TaskTypes
<1>3. CASE CleanupFind
  <2>1. seen' \in SUBSET (SessionIds \X Containers)
    BY <1>2, <1>3 DEF CleanupFind
  <2>2. LocalTypes'
    BY <1>2, <1>3, <2>1 DEF CleanupFind, pool, LocalTypes
  <2> QED
    BY <1>1, <1>3, <2>2, MoveGood DEF CleanupFind, Goto, pool
<1>4. CASE CleanupInspect
  <2>1. seen' \in SUBSET (SessionIds \X Containers) /\ stale' \in SUBSET SessionIds
    BY <1>2, <1>4 DEF CleanupInspect, LocalTypes
  <2>2. LocalTypes'
    BY <1>2, <1>4, <2>1 DEF CleanupInspect, pool, LocalTypes
  <2>3. PICK l \in Labels : pc' = [pc EXCEPT ![Cleanup] = l]
    BY <1>1, <1>4 DEF CleanupInspect, Goto
  <2> QED
    BY <1>1, <1>4, <2>2, <2>3, MoveGood DEF CleanupInspect, pool
<1>5. CASE CleanupRemove
  <2>1. PICK s \in stale :
          /\ stale' = stale \ {s}
          /\ held' = [held EXCEPT ![Cleanup] = {sessions[s]} \ {None}]
          /\ sessions' = [sessions EXCEPT ![s] = None]
    BY <1>5 DEF CleanupRemove
  <2>2. PICK l \in Labels : pc' = [pc EXCEPT ![Cleanup] = l]
    BY <1>1, <1>5 DEF CleanupRemove, Goto
  <2>3. s \in SessionIds /\ stale' \in SUBSET SessionIds
    BY <1>2, <2>1 DEF LocalTypes
  <2> QED
    BY <1>1, <1>5, <2>1, <2>2, <2>3, TakeSessionGood DEF CleanupRemove
<1>6. CASE CleanupDestroy
  <2>1. PICK l \in Labels : pc' = [pc EXCEPT ![Cleanup] = l]
    BY <1>1, <1>6 DEF CleanupDestroy, Goto
  <2> QED
    BY <1>1, <1>6, <2>1, DestroyGood DEF CleanupDestroy
<1>7. CASE CleanupStop
  <2>1. LocalTypes'
    BY <1>2, <1>7 DEF CleanupStop, pool, LocalTypes
  <2> QED
    BY <1>1, <1>7, <2>1, MoveGood DEF CleanupStop, Goto, pool
<1> QED
  BY <1>3, <1>4, <1>5, <1>6, <1>7 DEF CleanupStep

\* main begins, with an image or without.
LEMMA EnsureImageGood == ASSUME IInv, EnsureImage PROVE IInv'
<1>1. /\ pc[Maint] = "idle" /\ held[Main] = {} /\ held[Maint] = {}
      /\ {"run", "ensure", "no_image"} \subseteq Labels
  BY DEF EnsureImage, IInv, Control, Holding, Labels
<1>2. LocalTypes' /\ sid' = sid
  BY DEF EnsureImage, pool, IInv, Control, TaskTypes, LocalTypes
<1>3. CASE Goto(Main, "no_image")
  BY <1>1, <1>2, <1>3, Distinct, MoveGood DEF EnsureImage, Goto, pool
<1>4. CASE pc' = [pc EXCEPT ![Main] = "run", ![Maint] = "ensure"]
  <2> DEFINE pc1 == [pc EXCEPT ![Main] = "run"]
  <2>1. pc1 \in [Procs -> Labels] /\ pc' = [pc1 EXCEPT ![Maint] = "ensure"]
    BY <1>1, <1>4 DEF IInv, Control, TaskTypes
  <2>2. \A q \in Procs :
           pc'[q] = IF q = Maint THEN "ensure" ELSE IF q = Main THEN "run" ELSE pc[q]
    BY <1>4, Distinct DEF IInv, Control, TaskTypes
  <2> HIDE DEF pc1
  <2>3. pc' \in [Procs -> Labels]
    BY <1>1, <2>1
  <2>4. Owners'
    BY OwnersSame DEF EnsureImage, IInv, pool
  <2>5. TaskTypes'
    BY <1>2, <2>3 DEF EnsureImage, IInv, Control, TaskTypes, pool
  <2>6. /\ \A h \in Handlers : pc'[h] = pc[h]
        /\ \A w \in Warmers : pc'[w] = pc[w]
        /\ pc'[Maint] = "ensure" /\ pc'[Main] = "run"
    BY <2>2, Distinct
  <2>7. held' = held
    BY DEF EnsureImage
  <2>8. Holding'
    BY <1>1, <1>2, <2>6, <2>7 DEF IInv, Control, Holding
  <2>9. Stopping' /\ AtMostOneSpare'
    BY <2>6 DEF EnsureImage, IInv, Control, Stopping, AtMostOneSpare, pool
  <2> QED
    BY <2>4, <2>5, <2>8, <2>9 DEF IInv, Control
<1> QED
  BY <1>3, <1>4 DEF EnsureImage

\* The signal, the end of the server and shutdown_sessions.
LEMMA MainGood ==
    ASSUME IInv, ShutdownSignal \/ ServerFail \/ MainStop
    PROVE  IInv'
<1>1. {"stopping", "stopped", "drain"} \subseteq Labels
  BY DEF Labels
<1>2. UNCHANGED <<permit, checked, requests, cleaning>> => LocalTypes'
  BY DEF IInv, Control, TaskTypes, LocalTypes
<1>3. CASE ShutdownSignal
  <2>1. held[Main] = {}
    BY <1>3 DEF ShutdownSignal, IInv, Control, Holding
  <2> QED
    BY <1>1, <1>2, <1>3, <2>1, MoveGood, Distinct DEF ShutdownSignal, Goto, pool
<1>4. CASE ServerFail \/ ServerStop
  <2>1. Server \in Procs /\ Server # Main /\ Server # Maint
        /\ Server \notin Handlers /\ Server \notin Warmers
    BY Distinct
  <2> QED
    BY <1>1, <1>2, <1>4, <2>1, MoveGood DEF ServerFail, ServerStop, Goto, pool
<1>5. CASE DrainSessions
  <2>1. held[Main] = {}
    BY <1>5 DEF DrainSessions, IInv, Control, Holding
  <2>2. held' = [held EXCEPT ![Main] = Table]
    BY <1>5 DEF DrainSessions, Table
  <2>3. Owners'
    BY <1>5, <2>1, <2>2, OwnersDrain, Distinct DEF DrainSessions, IInv, pool
  <2>4. Holding'
    BY <1>1, <1>5, <2>2, HoldingStep, Distinct DEF DrainSessions, Goto, IInv
  <2>5. TaskTypes'
    BY <1>1, <1>5 DEF DrainSessions, Goto, IInv, Control, TaskTypes, LocalTypes, pool
  <2>6. Stopping' /\ AtMostOneSpare'
    BY <1>1, <1>5, PoolSame, Distinct DEF DrainSessions, Goto, IInv
  <2> QED
    BY <2>3, <2>4, <2>5, <2>6 DEF IInv, Control
<1>6. CASE DestroySessions
  <2>1. CASE Goto(Main, "stopped") /\ UNCHANGED <<held, podman>>
    BY <1>1, <1>2, <1>6, <2>1, MoveGood, Distinct DEF DestroySessions, Goto, pool
  <2>2. CASE (\E c \in held[Main] : ~Wedged(c) /\ destroy_session_container(Main, c)) /\ UNCHANGED pc
    <3>1. pc' = [pc EXCEPT ![Main] = "drain"]
      BY <1>6, <2>2 DEF DestroySessions, IInv, Control, TaskTypes
    <3> QED
      BY <1>1, <1>6, <2>2, <3>1, DestroyGood, Distinct DEF DestroySessions
  <2> QED
    BY <1>6, <2>1, <2>2 DEF DestroySessions
<1> QED
  BY <1>3, <1>4, <1>5, <1>6 DEF MainStop

----------------------------------------------------------------------------
(* The theorems.                                                           *)

\* At the start nobody owns anything.
LEMMA InitIInv == Init => IInv
<1> SUFFICES ASSUME Init PROVE IInv
  OBVIOUS
<1>1. Table = {}
  BY DEF Init, Table
<1>2. \A p \in Procs : held[p] = {}
  BY DEF Init
<1>3. Owners
  BY <1>1, <1>2, ProcsAssumption
     DEF Init, Owners, OwnerTypes, OneOwner, NoneForgotten, OwnersFit, Names
<1>4. replenish_in_progress \in BOOLEAN /\ shutting_down \in BOOLEAN /\ permit \in BOOLEAN
  BY Zenon DEF Init
<1>5. TaskTypes
  BY <1>4 DEF Init, TaskTypes, LocalTypes, Labels
<1>6. \A p \in Procs : pc[p] = IF p = Main THEN "image" ELSE "idle"
  BY DEF Init
<1>7. Holding
  BY <1>2, <1>6, Distinct DEF Init, Holding, Acquiring
<1>8. Stopping /\ AtMostOneSpare
  BY <1>6, Distinct DEF Init, Stopping, AtMostOneSpare
<1> QED
  BY <1>3, <1>5, <1>7, <1>8 DEF IInv, Control

\* IInv is inductive.
LEMMA NextIInv == IInv /\ [Next]_vars => IInv'
<1> SUFFICES ASSUME IInv, [Next]_vars PROVE IInv'
  OBVIOUS
<1>1. CASE Next
  BY <1>1, ReplenishGood, HandleGood, MaintCheckGood, TickGood, ShutdownGood, PoolStopGood,
     CleanupGood, EnsureImageGood, MainGood DEF Next
<1>2. CASE UNCHANGED vars
  <2>1. Owners'
    BY <1>2, OwnersSame DEF IInv, vars, pool
  <2> QED
    BY <1>2, <2>1 DEF IInv, Control, TaskTypes, LocalTypes, Holding, Stopping, AtMostOneSpare, vars, pool
<1> QED
  BY <1>1, <1>2

\* The variables of the pool, the table and the tasks keep their types.
THEOREM TypeCorrect == Spec => []TypeOK
<1>1. IInv => TypeOK
  BY DEF IInv, Owners, OwnerTypes, Names, Control, TaskTypes, LocalTypes, TypeOK
<1> QED
  BY InitIInv, NextIInv, <1>1, PTL DEF Spec

\* Two sessions never share a container, and none has both the pool and a task
\* or a session as its owner: acquire_container, the keepalive check of
\* run_maintenance, create_session and cleanup_stale_sessions hand containers
\* over whole.
THEOREM ContainersHaveOneOwner == Spec => []OneOwner
<1>1. IInv => OneOwner
  BY DEF IInv, Owners
<1> QED
  BY InitIInv, NextIInv, <1>1, PTL DEF Spec

\* A container that is the spare, is in the session table or is in a task's hands
\* has not been removed, and a flow's requests reach the container that it was
\* given or none: podman run --replace and destroy_session_container remove
\* another's container, and its bridge socket, only when a container was created
\* twice for one session id.
THEOREM OwnedContainersRun == Spec => []NoneRemovedInUse
<1>1. ASSUME IInv, NEW c \in Containers, Fit(c)
      PROVE  Usable(c) \/ Shared(c)
  BY <1>1 DEF Fit, Usable
<1>2. ASSUME IInv, NEW h \in Handlers, drives[h] # None
      PROVE  Reach(drives[h]) \in {drives[h], None} \/ Shared(drives[h])
  BY <1>2 DEF IInv, Owners, Names, Control, TaskTypes, LocalTypes, Reach, Shared
<1>3. IInv => NoneRemovedInUse
  BY <1>1, <1>2 DEF IInv, Owners, OwnersFit, OwnerTypes, NoneRemovedInUse, Table
<1> QED
  BY InitIInv, NextIInv, <1>3, PTL DEF Spec

\* No interleaving drops a container without destroy_session_container having
\* been called for it.
THEOREM ContainersAreNotForgotten == Spec => []NoneForgotten
<1>1. IInv => NoneForgotten
  BY DEF IInv, Owners
<1> QED
  BY InitIInv, NextIInv, <1>1, PTL DEF Spec

\* ensure_spare and replenish_spare keep at most one spare, and none is made
\* after shutdown has waited for the last one.
THEOREM OneSpare == Spec => []AtMostOneSpare
<1>1. IInv => AtMostOneSpare
  BY DEF IInv, Control
<1> QED
  BY InitIInv, NextIInv, <1>1, PTL DEF Spec
=============================================================================
