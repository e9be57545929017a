---------------------------- MODULE Orchestrator ----------------------------
(***************************************************************************)
(* The browser orchestrator (orchestrator/src): a pool that keeps one warm *)
(* container in reserve (container_pool.rs), the table of sessions, each   *)
(* with a container of its own (session.rs), the podman commands that      *)
(* create and destroy containers (podman.rs), and the start and stop of    *)
(* the process (main.rs).                                                  *)
(*                                                                         *)
(* The runtime is multi-threaded: every step between two awaits of any     *)
(* task may interleave with those of the others.  A step below is one      *)
(* critical section of a mutex or one podman command.                      *)
(***************************************************************************)
EXTENDS Naturals, FiniteSets

CONSTANTS Handlers,     \* tasks of handle_client, one command each
          Warmers,      \* tasks of replenish_spare
          SessionIds,
          Containers,   \* the containers podman can start in one behaviour
          None

CONSTANTS Maint, Cleanup, Server, Main   \* the tasks main spawns, and main

Procs == Handlers \cup Warmers \cup {Maint, Cleanup, Server, Main}

\* The processes are different, and so are containers and None.
ASSUME ProcsAssumption ==
    /\ Maint \notin Handlers \cup Warmers \cup {Cleanup, Server, Main}
    /\ Cleanup \notin Handlers \cup Warmers \cup {Server, Main}
    /\ Server \notin Handlers \cup Warmers \cup {Main}
    /\ Main \notin Handlers \cup Warmers
    /\ Handlers \cap Warmers = {}
    /\ None \notin Containers \cup SessionIds

VARIABLES
    spare,                  \* ContainerPoolState::spare
    replenish_in_progress,  \* ContainerPoolState::replenish_in_progress
    shutting_down,          \* ContainerPoolState::shutting_down
    permit,                 \* the permit notify_one stores in replenish_notify
    sessions,               \* SessionManager::sessions, the container of each
    pc,                     \* where each task is
    held,                   \* the containers a task has in its local variables
    checked,                \* the clone check_or_replenish_spare pings
    sid,                    \* the session id a handler is asked to start
    drives,                 \* the container of the session whose flow it executes
    seen,                   \* the sessions cleanup_stale_sessions has still to look at
    stale,                  \* stale_ids of cleanup_stale_sessions
    running,                \* the containers that were started and not removed
    name,                   \* the session id in a container's name, None for a warm one
    bridge,                 \* the container that listens at the socket path of an id
    creations,              \* history: how often a container was made for an id
    unstarted,              \* the containers not started so far
    lost                    \* history: podman rm failed, nobody tries again

pool == <<spare, replenish_in_progress, shutting_down, permit>>
requests == <<sid, drives>>
cleaning == <<seen, stale>>
podman == <<running, name, bridge, creations, unstarted, lost>>
vars == <<pool, sessions, pc, held, checked, requests, cleaning, podman>>

Ended == {"stopped", "no_image"}

\* main has not returned: when it does the runtime drops every task.
Alive == pc[Main] \notin Ended

Init ==
    /\ spare = None
    /\ replenish_in_progress = FALSE
    /\ shutting_down = FALSE
    /\ permit = FALSE
    /\ sessions = [s \in SessionIds |-> None]
    /\ pc = [p \in Procs |-> IF p = Main THEN "image" ELSE "idle"]
    /\ held = [p \in Procs |-> {}]
    /\ checked = None
    /\ sid = [h \in Handlers |-> None]
    /\ drives = [h \in Handlers |-> None]
    /\ seen = {}
    /\ stale = {}
    /\ running = {}
    /\ name = [c \in Containers |-> None]
    /\ bridge = [s \in SessionIds |-> None]
    /\ creations = [s \in SessionIds |-> 0]
    /\ unstarted = Containers
    /\ lost = {}

----------------------------------------------------------------------------
(* podman.rs.                                                              *)

Goto(p, l) == pc' = [pc EXCEPT ![p] = l]

\* What the socket path of an id leads to is set; warm ids are used once, so
\* nothing else is ever at the path of a warm container.
Bind(s, c) == bridge' = IF s = None THEN bridge ELSE [bridge EXCEPT ![s] = c]

\* The container that answers what is sent to the bridge of container c.
Reach(c) == IF name[c] = None THEN c ELSE bridge[name[c]]

\* create_session_container, for the session id s, up to podman run.  The name
\* and the directory are made from the id: prepare_session_runtime empties the
\* directory, and --replace removes a container that has the name; it may fail
\* before, between and after the two.  Containers are alike, so it does not
\* matter which one is started.
create_session_container(p, s, err) ==
    LET same == {d \in running : s # None /\ name[d] = s}
        c == CHOOSE d \in unstarted : TRUE
    IN
    /\ \/ /\ unstarted # {}
          /\ running' = (running \ same) \cup {c}
          /\ unstarted' = unstarted \ {c}
          /\ name' = [name EXCEPT ![c] = s]
          /\ Bind(s, c)
          /\ held' = [held EXCEPT ![p] = {c}]
          /\ Goto(p, "ready")
       \/ /\ \/ UNCHANGED <<running, bridge>>
             \/ running' \in {running, running \ same} /\ Bind(s, None)
          /\ Goto(p, err)
          /\ UNCHANGED <<held, unstarted, name>>
    /\ creations' = IF s = None THEN creations ELSE [creations EXCEPT ![s] = @ + 1]
    /\ UNCHANGED lost

\* destroy_session_container: podman rm succeeds, or the error is logged and
\* the container forgotten; the directory is removed whoever listens there.
destroy_session_container(p, c) ==
    /\ c \in held[p]
    /\ held' = [held EXCEPT ![p] = @ \ {c}]
    /\ \/ /\ running' = running \ {c}
          /\ UNCHANGED lost
       \/ /\ lost' = lost \cup {c}
          /\ UNCHANGED running
    /\ Bind(name[c], None)
    /\ UNCHANGED <<name, creations, unstarted>>

\* Mutant of wait_for_bridge_socket: a container that did not answer is removed
\* and returned all the same.
wait_for_bridge_socket_unready(p, ok, err) ==
    /\ Goto(p, ok)
    /\ \/ UNCHANGED running
       \/ running' = running \ held[p]
    /\ UNCHANGED <<held, name, bridge, creations, unstarted, lost>>

\* create_session_container, from wait_for_bridge_socket on: the container is
\* returned if something answers the ping, and destroyed otherwise.
wait_for_bridge_socket(p, ok, err) ==
    \E c \in held[p] :
       \/ /\ Reach(c) # None
          /\ Goto(p, ok)
          /\ UNCHANGED <<held, podman>>
       \/ /\ destroy_session_container(p, c)
          /\ Goto(p, err)

----------------------------------------------------------------------------
(* container_pool.rs.                                                      *)

\* Mutant of ensure_spare: a shutdown does not keep it from ordering a spare.
ensure_spare_always(p, next) ==
    /\ UNCHANGED <<spare, shutting_down, permit>>
    /\ IF spare # None \/ replenish_in_progress
       THEN Goto(p, next) /\ UNCHANGED replenish_in_progress
       ELSE /\ replenish_in_progress' = TRUE
            /\ \E w \in Warmers :
                  pc[w] = "idle" /\ pc' = [pc EXCEPT ![p] = next, ![w] = "create"]

\* ensure_spare: spawns replenish_spare unless there is no need for it.
ensure_spare(p, next) ==
    /\ UNCHANGED <<spare, shutting_down, permit>>
    /\ IF shutting_down \/ spare # None \/ replenish_in_progress
       THEN /\ Goto(p, next)
            /\ UNCHANGED replenish_in_progress
       ELSE /\ replenish_in_progress' = TRUE
            /\ \E w \in Warmers :
                  /\ pc[w] = "idle"
                  /\ pc' = [pc EXCEPT ![p] = next, ![w] = "create"]

\* replenish_spare: start a container outside the lock, under a fresh id.
ReplenishCreate(w) ==
    /\ \/ pc[w] = "create" /\ create_session_container(w, None, "offer")
       \/ pc[w] = "ready" /\ wait_for_bridge_socket(w, "offer", "offer")
    /\ UNCHANGED <<pool, sessions, checked, requests, cleaning>>

\* Mutant of ReplenishOffer: a container made too late is dropped, not destroyed.
ReplenishOfferDrops(w) ==
    /\ pc[w] = "offer"
    /\ replenish_in_progress' = FALSE
    /\ held' = [held EXCEPT ![w] = {}]
    /\ \/ /\ held[w] = {} \/ shutting_down \/ spare # None
          /\ UNCHANGED spare
       \/ ~shutting_down /\ spare = None /\ \E c \in held[w] : spare' = c
    /\ Goto(w, "notify")
    /\ UNCHANGED <<shutting_down, permit, sessions, checked, requests, cleaning, podman>>

\* replenish_spare: under the lock the container becomes the spare, or is
\* kept for destruction.
ReplenishOffer(w) ==
    /\ pc[w] = "offer"
    /\ replenish_in_progress' = FALSE
    /\ \/ /\ held[w] = {} \/ shutting_down \/ spare # None
          /\ UNCHANGED <<spare, held>>
       \/ /\ ~shutting_down /\ spare = None
          /\ \E c \in held[w] : spare' = c
          /\ held' = [held EXCEPT ![w] = {}]
    /\ Goto(w, "notify")
    /\ UNCHANGED <<shutting_down, permit, sessions, checked, requests, cleaning, podman>>

\* Mutant of ReplenishNotify: only a new spare is announced.
ReplenishNotifySuccess(w) ==
    /\ pc[w] = "notify"
    /\ permit' = (permit \/ spare # None)
    /\ Goto(w, IF held[w] = {} THEN "idle" ELSE "discard")
    /\ UNCHANGED <<spare, replenish_in_progress, shutting_down, sessions, held,
                   checked, requests, cleaning, podman>>

\* replenish_spare: notify_one, after the lock is released.
ReplenishNotify(w) ==
    /\ pc[w] = "notify"
    /\ permit' = TRUE
    /\ Goto(w, IF held[w] = {} THEN "idle" ELSE "discard")
    /\ UNCHANGED <<spare, replenish_in_progress, shutting_down, sessions, held,
                   checked, requests, cleaning, podman>>

\* replenish_spare: a container nobody needs is destroyed last.
ReplenishDiscard(w) ==
    /\ pc[w] = "discard"
    /\ \E c \in held[w] : destroy_session_container(w, c)
    /\ Goto(w, "idle")
    /\ UNCHANGED <<pool, sessions, checked, requests, cleaning>>

\* run_maintenance: the first ensure_spare.
MaintStart ==
    /\ pc[Maint] = "ensure"
    /\ ensure_spare(Maint, "loop")
    /\ UNCHANGED <<sessions, held, checked, requests, cleaning, podman>>

\* check_or_replenish_spare, on a tick: clone the spare and ping the clone.  The
\* ping touches no state, so its outcome is chosen here; it also fails when the
\* container has exited by itself after its idle time.
MaintTick ==
    /\ pc[Maint] = "loop"
    /\ \/ /\ spare = None
          /\ ensure_spare(Maint, "loop")
          /\ UNCHANGED checked
       \/ /\ spare # None
          /\ checked' = spare
          /\ Goto(Maint, "recheck")
          /\ UNCHANGED pool
    /\ UNCHANGED <<sessions, held, requests, cleaning, podman>>

\* The spare is taken only if it is still the container that failed.
MaintRecheck ==
    /\ pc[Maint] = "recheck"
    /\ IF spare = checked
       THEN /\ held' = [held EXCEPT ![Maint] = {spare}]
            /\ spare' = None
            /\ Goto(Maint, "replace")
       ELSE /\ Goto(Maint, "ensure")
            /\ UNCHANGED <<held, spare>>
    /\ checked' = None
    /\ UNCHANGED <<replenish_in_progress, shutting_down, permit, sessions,
                   requests, cleaning, podman>>

MaintReplace ==
    /\ pc[Maint] = "replace"
    /\ \E c \in held[Maint] : destroy_session_container(Maint, c)
    /\ Goto(Maint, "ensure")
    /\ UNCHANGED <<pool, sessions, checked, requests, cleaning>>

\* The shutdown signal ends the loop of run_maintenance; shutdown sets the
\* flag and takes the spare.
PoolShutdown ==
    /\ pc[Maint] = "loop"
    /\ pc[Main] = "stopping"
    /\ shutting_down' = TRUE
    /\ held' = [held EXCEPT ![Maint] = {spare} \ {None}]
    /\ spare' = None
    /\ Goto(Maint, "drain")
    /\ UNCHANGED <<replenish_in_progress, permit, sessions, checked, requests, cleaning, podman>>

\* shutdown: destroy what was taken (the first spare, later the late one).
PoolDestroySpare ==
    /\ pc[Maint] \in {"drain", "last"}
    /\ \/ held[Maint] = {} /\ UNCHANGED <<held, podman>>
       \/ \E c \in held[Maint] : destroy_session_container(Maint, c)
    /\ Goto(Maint, IF pc[Maint] = "drain" THEN "wait" ELSE "stopped")
    /\ UNCHANGED <<pool, sessions, checked, requests, cleaning>>

\* shutdown: look at the flag, then wait for a permit while it is set.  When
\* no replenishment is under way a spare it left is taken and destroyed.
PoolWaitReplenish ==
    /\ pc[Maint] = "wait"
    /\ \/ /\ replenish_in_progress
          /\ Goto(Maint, "notified")
          /\ UNCHANGED <<spare, held>>
       \/ /\ ~replenish_in_progress
          /\ held' = [held EXCEPT ![Maint] = {spare} \ {None}]
          /\ spare' = None
          /\ Goto(Maint, "last")
    /\ UNCHANGED <<replenish_in_progress, shutting_down, permit, sessions,
                   checked, requests, cleaning, podman>>

PoolNotified ==
    /\ pc[Maint] = "notified"
    /\ permit
    /\ permit' = FALSE
    /\ Goto(Maint, "wait")
    /\ UNCHANGED <<spare, replenish_in_progress, shutting_down, sessions, held,
                   checked, requests, cleaning, podman>>

\* Mutants of AcquireTake: the spare is cloned, not taken; an empty pool is not
\* told from a container.
AcquireTakeClone(h) ==
    /\ pc[h] = "take"
    /\ held' = [held EXCEPT ![h] = {spare} \ {None}]
    /\ \/ spare = None /\ Goto(h, "renew")
       \/ spare # None /\ \E l \in {"refill", "reject"} : Goto(h, l)
    /\ UNCHANGED <<pool, sessions, checked, requests, cleaning, podman>>

AcquireTakeAny(h) ==
    /\ pc[h] = "take"
    /\ held' = [held EXCEPT ![h] = {spare}]
    /\ spare' = None
    /\ \E l \in {"refill", "reject"} : Goto(h, l)
    /\ UNCHANGED <<replenish_in_progress, shutting_down, permit, sessions,
                   checked, requests, cleaning, podman>>

\* acquire_container: take the spare and ping it.
AcquireTake(h) ==
    /\ pc[h] = "take"
    /\ held' = [held EXCEPT ![h] = {spare} \ {None}]
    /\ spare' = None
    /\ \/ spare = None /\ Goto(h, "renew")
       \/ spare # None /\ \E l \in {"refill", "reject"} : Goto(h, l)
    /\ UNCHANGED <<replenish_in_progress, shutting_down, permit, sessions,
                   checked, requests, cleaning, podman>>

\* acquire_container: a spare that did not answer is destroyed.
AcquireReject(h) ==
    /\ pc[h] = "reject"
    /\ \E c \in held[h] : destroy_session_container(h, c)
    /\ Goto(h, "renew")
    /\ UNCHANGED <<pool, sessions, checked, requests, cleaning>>

\* acquire_container: a new spare is ordered in both cases; without a warm
\* container the session's own is created next.
AcquireEnsure(h) ==
    /\ \/ pc[h] = "refill" /\ ensure_spare(h, "insert")
       \/ pc[h] = "renew" /\ ensure_spare(h, "create")
    /\ UNCHANGED <<sessions, held, checked, requests, cleaning, podman>>

AcquireCreate(h) ==
    /\ \/ pc[h] = "create" /\ create_session_container(h, sid[h], "done")
       \/ pc[h] = "ready" /\ wait_for_bridge_socket(h, "insert", "done")
    /\ UNCHANGED <<pool, sessions, checked, requests, cleaning>>

----------------------------------------------------------------------------
(* session.rs: the table of sessions.                                      *)

\* The server accepts connections until it sees the shutdown signal, and spawns
\* a task for each.  Tasks are alike, so it does not matter which one is next.
Accepted(h) ==
    /\ pc[h] = "idle" /\ h = CHOOSE g \in Handlers : pc[g] = "idle"
    /\ pc[Main] \in {"run", "stopping"} /\ pc[Server] = "idle"

\* step_successful, for a step whose success names a token_key, logs what it
\* found with the lock of the session's runtime held, and log takes that lock
\* again: the flow blocks, and whoever needs the lock then waits for ever.
Wedged(c) == \E h \in Handlers : pc[h] = "stuck" /\ drives[h] = c

\* create_session, for a StartSession command.  An id in use is refused, which
\* changes nothing.
StartSession(h, s) ==
    /\ Accepted(h)
    /\ sessions[s] = None
    /\ sid' = [sid EXCEPT ![h] = s]
    /\ Goto(h, "take")
    /\ UNCHANGED <<pool, sessions, held, checked, drives, cleaning, podman>>

\* create_session: insert and go on to start_session of the flow.  If another
\* request was faster the container is destroyed, all under the table's lock.
InsertSession(h) ==
    /\ pc[h] = "insert"
    /\ \/ /\ sessions[sid[h]] = None
          /\ \E c \in held[h] : /\ sessions' = [sessions EXCEPT ![sid[h]] = c]
                                /\ drives' = [drives EXCEPT ![h] = c]
          /\ held' = [held EXCEPT ![h] = {}]
          /\ Goto(h, "flow")
          /\ UNCHANGED podman
       \/ /\ sessions[sid[h]] # None
          /\ \E c \in held[h] : destroy_session_container(h, c)
          /\ Goto(h, "done")
          /\ UNCHANGED <<sessions, drives>>
    /\ UNCHANGED <<pool, checked, sid, cleaning>>

\* handle_next_step: the session is cloned out of the table and its flow goes on.
NextStep(h, s) ==
    /\ Accepted(h)
    /\ sessions[s] # None
    /\ drives' = [drives EXCEPT ![h] = sessions[s]]
    /\ Goto(h, "flow")
    /\ UNCHANGED <<pool, sessions, held, checked, sid, cleaning, podman>>

\* The flow may go on for as long as it likes, and its answer changes nothing
\* here; but it may block on the lock of its session.  Nothing keeps the session
\* in the table, or its container running, in the meantime.
FlowBlocks(h) ==
    /\ pc[h] = "flow" /\ ~Wedged(drives[h])
    /\ Goto(h, "stuck")
    /\ UNCHANGED <<pool, sessions, held, checked, requests, cleaning, podman>>

\* cancel_session: remove the session, then mark it under its lock and destroy
\* its container.
CancelSession(h, s) ==
    /\ Accepted(h)
    /\ sessions[s] # None
    /\ held' = [held EXCEPT ![h] = {sessions[s]}]
    /\ sessions' = [sessions EXCEPT ![s] = None]
    /\ Goto(h, "destroy")
    /\ UNCHANGED <<pool, checked, requests, cleaning, podman>>

DestroyOwn(h) ==
    /\ pc[h] = "destroy"
    /\ \E c \in held[h] : ~Wedged(c) /\ destroy_session_container(h, c)
    /\ Goto(h, "done")
    /\ UNCHANGED <<pool, sessions, checked, requests, cleaning>>

\* cleanup_stale_sessions: clone the sessions of the table ...
CleanupFind ==
    /\ pc[Cleanup] = "idle" /\ pc[Main] \in {"run", "stopping"}
    /\ seen' = {<<s, sessions[s]>> : s \in {t \in SessionIds : sessions[t] # None}}
    /\ seen' # {}
    /\ Goto(Cleanup, "inspect")
    /\ UNCHANGED <<pool, sessions, held, checked, requests, stale, podman>>

\* ... and ask each, under its lock, whether it was idle or finished for too long.
CleanupInspect ==
    /\ pc[Cleanup] = "inspect"
    /\ \E x \in seen :
          /\ ~Wedged(x[2])
          /\ seen' = seen \ {x}
          /\ stale' \in {stale, stale \cup {x[1]}}
    /\ Goto(Cleanup, IF seen' # {} THEN "inspect" ELSE IF stale' = {} THEN "idle" ELSE "remove")
    /\ UNCHANGED <<pool, sessions, held, checked, requests, podman>>

\* cleanup_stale_sessions: remove by id whatever the table now holds, destroy.
CleanupRemove ==
    /\ pc[Cleanup] = "remove" /\ held[Cleanup] = {}
    /\ \E s \in stale :
          /\ stale' = stale \ {s}
          /\ held' = [held EXCEPT ![Cleanup] = {sessions[s]} \ {None}]
          /\ sessions' = [sessions EXCEPT ![s] = None]
    /\ Goto(Cleanup, IF stale' = {} /\ held'[Cleanup] = {} THEN "idle" ELSE "remove")
    /\ UNCHANGED <<pool, checked, requests, seen, podman>>

CleanupDestroy ==
    /\ pc[Cleanup] = "remove"
    /\ \E c \in held[Cleanup] : destroy_session_container(Cleanup, c)
    /\ Goto(Cleanup, IF stale = {} THEN "idle" ELSE "remove")
    /\ UNCHANGED <<pool, sessions, checked, requests, cleaning>>

CleanupStop ==
    /\ pc[Cleanup] = "idle" /\ pc[Main] = "stopping"
    /\ Goto(Cleanup, "stopped")
    /\ UNCHANGED <<pool, sessions, held, checked, requests, cleaning, podman>>

----------------------------------------------------------------------------
(* main.rs.                                                                *)

\* ensure_container_image: without an image the process exits.
EnsureImage ==
    /\ pc[Main] = "image"
    /\ \/ pc' = [pc EXCEPT ![Main] = "run", ![Maint] = "ensure"]
       \/ Goto(Main, "no_image")
    /\ UNCHANGED <<pool, sessions, held, checked, requests, cleaning, podman>>

\* SIGTERM or SIGINT: the broadcast.
ShutdownSignal ==
    /\ pc[Main] = "run"
    /\ Goto(Main, "stopping")
    /\ UNCHANGED <<pool, sessions, held, checked, requests, cleaning, podman>>

\* The accept loop leaves on the signal; its handlers are not awaited.
ServerStop ==
    /\ pc[Server] = "idle" /\ pc[Main] = "stopping"
    /\ Goto(Server, "stopped")
    /\ UNCHANGED <<pool, sessions, held, checked, requests, cleaning, podman>>

\* The socket cannot be set up, or accept fails: run returns an error that main
\* looks at only after the signal.
ServerFail ==
    /\ pc[Server] = "idle" /\ pc[Main] = "run"
    /\ Goto(Server, "stopped")
    /\ UNCHANGED <<pool, sessions, held, checked, requests, cleaning, podman>>

\* main awaits the cleanup and pool tasks and the server, and shutdown_sessions
\* drains the table.
DrainSessions ==
    /\ pc[Main] = "stopping"
    /\ \A p \in {Cleanup, Maint, Server} : pc[p] = "stopped"
   
    /\ held' = [held EXCEPT ![Main] = {sessions[s] : s \in SessionIds} \ {None}]
    /\ sessions' = [s \in SessionIds |-> None]
    /\ Goto(Main, "drain")
    /\ UNCHANGED <<pool, checked, requests, cleaning, podman>>

\* shutdown_sessions destroys the containers one by one; then main returns.
DestroySessions ==
    /\ pc[Main] = "drain"
    /\ IF held[Main] = {}
       THEN /\ Goto(Main, "stopped")
            /\ UNCHANGED <<held, podman>>
       ELSE /\ \E c \in held[Main] : ~Wedged(c) /\ destroy_session_container(Main, c)
            /\ UNCHANGED pc
    /\ UNCHANGED <<pool, sessions, checked, requests, cleaning>>

----------------------------------------------------------------------------

Replenish(w) ==
    ReplenishCreate(w) \/ ReplenishOffer(w) \/ ReplenishNotify(w) \/ ReplenishDiscard(w)

Handle(h) ==
    \/ \E s \in SessionIds : StartSession(h, s) \/ NextStep(h, s) \/ CancelSession(h, s)
    \/ AcquireTake(h) \/ AcquireReject(h) \/ AcquireEnsure(h)
    \/ AcquireCreate(h) \/ InsertSession(h) \/ FlowBlocks(h) \/ DestroyOwn(h)

MaintCheck == MaintStart \/ MaintRecheck \/ MaintReplace

PoolStop == PoolDestroySpare \/ PoolWaitReplenish \/ PoolNotified

CleanupStep == CleanupInspect \/ CleanupRemove \/ CleanupDestroy

MainStop == ServerStop \/ DrainSessions \/ DestroySessions

Next ==
    /\ Alive
    /\ \/ \E w \in Warmers : Replenish(w)
       \/ \E h \in Handlers : Handle(h)
       \/ MaintCheck \/ MaintTick \/ PoolShutdown \/ PoolStop
       \/ CleanupFind \/ CleanupStep \/ CleanupStop
       \/ EnsureImage \/ ShutdownSignal \/ ServerFail \/ MainStop

Spec == Init /\ [][Next]_vars

\* The runtime polls every ready task and podman returns (WF).  The loops
\* select between a tick and the signal at random, so that a signal that stays
\* is seen (SF).
Fairness ==
    /\ \A w \in Warmers : WF_vars(Alive /\ Replenish(w))
    /\ WF_vars(Alive /\ (MaintCheck \/ PoolStop))
    /\ WF_vars(Alive /\ CleanupStep)
    /\ WF_vars(Alive /\ MainStop)
    /\ SF_vars(Alive /\ PoolShutdown)
    /\ SF_vars(Alive /\ CleanupStop)

FairSpec == Spec /\ Fairness

----------------------------------------------------------------------------
(* Properties.                                                             *)

Table == {sessions[s] : s \in SessionIds} \ {None}

Labels ==
    {"idle", "create", "offer", "notify", "discard",                        \* replenish_spare
     "ensure", "loop", "recheck", "replace",                                \* run_maintenance
     "drain", "wait", "notified", "last",                                   \* shutdown
     "take", "renew", "refill", "reject", "ready", "insert",                \* handlers
     "flow", "stuck", "destroy", "done",
     "inspect", "remove",                                                   \* cleanup
     "image", "run", "stopping", "stopped", "no_image"}                     \* main

TypeOK ==
    /\ spare \in Containers \cup {None}
    /\ replenish_in_progress \in BOOLEAN
    /\ shutting_down \in BOOLEAN
    /\ permit \in BOOLEAN
    /\ sessions \in [SessionIds -> Containers \cup {None}]
    /\ pc \in [Procs -> Labels]
    /\ held \in [Procs -> SUBSET Containers]
    /\ checked \in Containers \cup {None}
    /\ sid \in [Handlers -> SessionIds \cup {None}]
    /\ drives \in [Handlers -> Containers \cup {None}]
    /\ seen \in SUBSET (SessionIds \X Containers)
    /\ stale \in SUBSET SessionIds
    /\ name \in [Containers -> SessionIds \cup {None}]
    /\ bridge \in [SessionIds -> Containers \cup {None}]
    /\ creations \in [SessionIds -> Nat]
    /\ running \in SUBSET Containers
    /\ unstarted \in SUBSET Containers
    /\ lost \in SUBSET Containers

\* A container has one owner: the pool as its spare, one session of the table,
\* or one task that has taken it out of either and not yet passed it on.  Two
\* sign-ins never share a browser, whatever takes, keepalive checks, cleanups
\* and replenishments interleave.
OneOwner ==
    /\ \A p, q \in Procs : p # q => held[p] \cap held[q] = {}
    /\ \A p \in Procs : spare \notin held[p] /\ held[p] \cap Table = {}
    /\ spare \notin Table
    /\ \A s, t \in SessionIds : sessions[s] = sessions[t] /\ sessions[s] # None => s = t

\* The container was made for an id that another one was made for too.  The
\* clients make a new UUID for every session, so that theirs never are.
Shared(c) == name[c] # None /\ creations[name[c]] > 1

\* The container runs and answers at its own socket.
Usable(c) == c \in running /\ Reach(c) = c

\* The pool, the table and the tasks only refer to containers that were started,
\* that neither destroy_session_container nor --replace has removed and whose
\* directory is still theirs; and what a flow sends to a session's container,
\* which cancel or cleanup may have removed meanwhile, never reaches the browser
\* of another.  Both fail for a session whose id was started twice.
NoneRemovedInUse ==
    /\ spare # None => Usable(spare) \/ Shared(spare)
    /\ \A c \in Table : Usable(c) \/ Shared(c)
    /\ \A p \in Procs : \A c \in held[p] : Usable(c) \/ Shared(c)
    /\ \A h \in Handlers : LET c == drives[h] IN
          c # None => Reach(c) \in {c, None} \/ Shared(c)

\* No container is forgotten: until main returns, one that was started and
\* neither removed nor given up after a failed rm has an owner who will remove
\* it.
NoneForgotten ==
    running \ lost \subseteq {spare} \cup Table \cup UNION {held[p] : p \in Procs}

\* One spare is enough: while there is one, none is being made, and once
\* shutdown has seen the last replenishment none is made again.
AtMostOneSpare ==
    /\ ~(spare # None /\ replenish_in_progress)
    /\ pc[Maint] \in {"last", "stopped"} => spare = None /\ ~replenish_in_progress

\* "shutdown should not hang" (container_pool.rs, shutdown_waits_for_replenish_
\* completion): after the signal the orchestrator stops, whatever replenishment,
\* keepalive check or cleanup was under way, unless a flow has blocked on the
\* lock of its session: cleanup and shutdown_sessions then wait for it for ever.
ShutdownEnds ==
    pc[Main] = "stopping" ~> pc[Main] = "stopped" \/ \E h \in Handlers : pc[h] = "stuck"
=============================================================================
