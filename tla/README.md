# A TLA+ model of himmelblau

himmelblau lets people sign in to Linux with Entra ID or another OpenID Connect
issuer. PAM and NSS modules send requests over a Unix socket to `himmelblaud`,
which answers them from a SQLite cache and from the directory, hands work that
needs root to a tasks daemon, and drives browser sign-ins through an orchestrator
of containers. This directory holds TLA+ modules for these processes, the TLC
configurations that check them and TLAPS proofs of the parts that hold for any
size. Paths are relative to the repository, with `src/` in front.

## 1. The system

| Part | State | Operations | Modules |
| --- | --- | --- | --- |
| Cache database, `common/src/db.rs` | accounts, groups, memberships, verifiers, keys | transactions of updates, deletes, invalidate, clear | `CacheDb`, `UnixCache` |
| Resolver, `common/src/resolver.rs` | negative cache, local users (nxset), sign-in sessions | lookups, refresh, sign-in init and step | `Resolver`, `SignIn` |
| Locks of the daemon | seven tokio mutexes and their queues | critical sections that cross an await | `AsyncLocks`, `ResolverLocks` |
| Hello keys, `common/src/idprovider/common.rs` | keys, sealed secrets, bad PIN count, TOTP | PIN, code, set-up, change of PIN, offline sign-in | `HelloKeys` |
| Entra ID provider, `common/src/idprovider/himmelblau.rs` | online state, enrolment, refresh cache | lookup; every arm of the sign-in | `EntraSignIn`, `Resolver` |
| OpenID Connect provider, `common/src/idprovider/openidconnect.rs` | the same without enrolment | device flow, browser flow, PIN | `OidcSignIn` |
| PAM client, `common/src/auth.rs` | poll counter, credentials | request loop, unseal, passwd | `PamClient` |
| Tasks, `daemon/src/daemon.rs`, `tasks_daemon.rs` | bounded channel, oneshots, connection | submit, wait, send, put back, execute | `TaskService`, `TaskQueue` |
| Orchestrator, `orchestrator/src` | warm container, table of sessions | acquire, replenish, expire, shut down | `Orchestrator` |
| Browser flows, `orchestrator/src/flow.rs` | step, inputs, tokens | interpret a provider definition | `FlowProtocol`, `FlowExecutor` |
| NSS, id mapping, policies, broker, command line, TPM set-up | | | not modelled, see section 8 |

How they interact. A connection of `himmelblaud` is a task of a tokio
`current_thread` runtime, so tasks interleave only where an await is pending. A
request usually reads the cache in one critical section, asks the provider in a
second one with `hsm`, `db` and `providers` held over network I/O, and stores the
outcome in a third. A sign-in is a dialogue: the PAM client answers each response
with another request until it succeeds, gives up, or starts again after a denial.
A successful one submits tasks and waits for them with a time-out. The OpenID
Connect provider may let the orchestrator, another process with a multi-threaded
runtime, drive a browser, one request at a time. What happens between these steps
is the hard part: another refresh, another sign-in, an invalidate, an outage, a
restart, a crash of the tasks daemon, a shutdown.

The properties that matter: tasks wait for each other for ever only where a known
section of the code takes part, and every other request returns; lookups are
unambiguous; a verifier stays with its account; success is earned by the attempt
itself; PIN guesses are bounded and Hello keys survive errors; a task is executed at
most once and its outcome reaches its own request; a container has one owner and
none is forgotten; a browser session answers, and forgets secrets. `PROJECT.json`
lists each hazard at its line.

## 2. Modules

* `AsyncLocks`: tasks, mutexes with FIFO queues and hand-over to the first
  waiter, one running task at a time, I/O. A section is a sequence of lock,
  unlock and I/O instructions; `Programs` is the set of sections.
* `ResolverLocks`: the sections of the code, one definition per function. A guard
  created in the scrutinee of a `match` lives until its arms are over, as in Rust
  (`net_down_check`, `mfa_flow`). `AllSections` are all of them, and `Offenders` the
  ones that can be part of a deadlock, which section 4 is about: the verifier
  functions, invalidate, a failed online start, and four places where an arm locks
  the mutex of its own scrutinee (`Relocking`).
* `CacheDb`: the SQL statements as operators on three sets of rows.
  `UnixCache`: one connection, its transaction and the disk; a step per
  statement, commit, and rollback by early return or crash. Foreign keys are not
  enforced, as in the code.
* `Resolver`: lookups and password or MFA sign-ins over `CacheDb`, with the
  provider's state, PRTs, negative cache, local users, and an environment of
  outages, restarts, expiry, directory changes and administrator requests.
* `HelloKeys`, `EntraSignIn`, `OidcSignIn`: a step of a provider maps its state
  and the handler of a session to the set of outcomes, one for each answer of the
  directory or the TPM. `PamClient` maps a response to the client's next requests;
  a security key and a phone may be tried side by side, and `passwd` signs in past
  the daemon before it sends the new PIN.
  `SignIn` composes the four: clients, sessions and one provider, for one account.
* `TaskService` is what the daemon promises a request about its tasks: they are
  done in order, each at most once or not at all, and the request is told the outcome
  of the task it is at or goes on without one. `TaskQueue` shows how: requests, the
  channel, the connector and the tasks daemon with its connections. The refinement
  mapping (`S`) reads the state of a task off the channel, the socket and the
  verdicts (`TaskState`), the place of a request off its program (`At`), and what it
  was told off its oneshot (`Told`).
* `Orchestrator`: a step is one critical section or one podman command of one of
  the tasks of the process. Handlers go on using the container of the session they
  inserted, and a session's own lock is taken by flows, cleanup and shutdown.
* `FlowProtocol` is what the orchestrator promises its client, `FlowExecutor` the
  interpreter of definitions, shown to implement it. `OidcSignIn` uses what
  `FlowProtocol` promises (`orchestrator_send_command`).
* `*Proofs`: theorems. `MC*`: instances for TLC.

### Merged steps and abstractions

`Resolver`. The arrival of a request is one step with its cache read. `CallAllowed`
keeps a provider call from running between another one and the store of its
outcome: a fact about the FIFO queues that the run `resolver_locks_fair` checks and
`AsyncLocksProofs` proves (`StoredBeforeNextCall`).
Forced yields of tokio's cooperative budget are not modelled. A password is a
model value, a verifier the password it verifies; a token carries a revision of
the directory entry; `gid` is injective. The network does not change within one
provider call. With the network down a denied online step may leave the provider
online: the first password of a console sign-in does not notice the outage.

`SignIn`. A provider call holds `hsm`, `db` and `providers` from its start to its
end, so it is one step; what is separate is the arrival of the step, which reads the
provider's state before it waits for the locks (resolver.rs:1244). The start of a
sign-in takes the locks at once and is one step. Answers of the directory are
classes: a token, a refusal, an outage, a demand for MFA, a new password or
re-enrolment. A Hello key is a number and its PIN; a sealed secret is the key it is
sealed under; a code is right or wrong. `cfg` holds the options that matter and how
much happens; `allow_remote_hello` is FALSE, `msa` says that a personal account is
used, `served` that a provider serves the domain of the account. The consent retry
and the locks of the client are left to `ResolverLocks`. The poll counter saturates
beyond `MaxPoll`, where all values are treated alike. An unforced online start that
fails is left out, here and in `Resolver`: that task never continues
(`auth_init_fallback`).

`TaskQueue`. Durations are left out: a time-out may strike at any time. A task is
its kind and the answers it can give, not what it does to the file system. The
failures of tickets and subordinate ids are only logged and have no effect.

`Orchestrator`. A podman command succeeds or fails at once; preparing the directory
of a session and `podman run` are one step, and a creation may fail before either. A
failed `rm` puts the container in `lost`: the code logs it and tries no second time,
after a failed readiness probe as well. `podman run --replace --name` removes the
container that an earlier creation for the same session id made. Session ids are
fresh UUIDs (openidconnect.rs:542), so the sanitising of names changes none of them;
nothing in the orchestrator enforces that they are fresh, which is why two handlers of
the run have the same one. `GetSessionStatus` changes nothing and has no action. When
main returns the runtime drops all tasks, so the properties speak of the time before:
a container that a dropped task was creating, or a session that it inserted after the
drain, keeps running, and no property excludes that.

`FlowExecutor`. The browser is the environment: commands fail at will, probes match
at will. A value is empty, some text, or the text a condition compares with. With
a `token_key` the code locks `runtime` twice and the model is `stuck` there. The
client never sends two requests at once, which is what himmelblaud does and
nothing in the orchestrator enforces.

## 3. Runs that pass

| Run | Checks | Instance |
| --- | --- | --- |
| `resolver_locks` | `TypeOK`, `SectionsDisciplined`, `DeadlockNeedsOffender` | 2 tasks, `AllSections` |
| `resolver_locks_fair` | `RequestsReturn`, `StoredBeforeNextCall` | 3 tasks, short sections that contend for every mutex: cache reads, provider calls, refreshes with their store, and the offenders that lock two mutexes |
| `unix_cache` | `TypeOK`, `LookupUnambiguous`, `MembersHaveGroup`, `PasswordStaysWithAccount` | 3 user tokens of 2 accounts, 2 groups, a third token of one of them whose name is the id of the other |
| `resolver` | `TypeOK`, `UserStaysCached`, `OfflinePasswordWasAccepted`, `ReauthOnline` | 1 lookup, 1 sign-in, 2 events, break-glass |
| `two_sign_ins` | `OfflinePasswordWasAccepted` | 2 sign-ins, 1 event, single-factor fallback |
| `sign_in` | `TypeOK`, `SuccessEarned`, `GuessesBounded`, `ComesBack`, `HelloKeyKept` | 2 connections, 2 PINs, 11 configurations of both providers |
| `tasks` | `TypeOK`, `OutcomeIsOwn`, `AtMostOnce`, `SessionWasServed`, `Responded`, `QueueDrains`, `ImplementsService` | 2 requests, channel of 2, 1 crash |
| `orchestrator` | `TypeOK`, `OneOwner`, `NoneRemovedInUse`, `NoneForgotten`, `AtMostOneSpare`, `ShutdownEnds` | 2 handlers, 1 warmer, 1 session id, 2 containers |
| `flow` | `TypeOK`, `NoFillWithoutInput`, `SecretsForgotten`, `CodeTypedOnce`, `Answered`, `FollowsProtocol` | the definitions of `MCFlowExecutor` |

Bounds. Two tasks are enough for any AB-BA pattern, three for a queue with two
waiters. The user tokens are a rename with a new number and a take-over of a name;
the two groups share a number until one is renamed. `Resolver` has one user, two
passwords, `MaxRev` = 2 and `MaxEvents` events: two cover for instance an outage
followed by an invalidate; three exceed five minutes.

`SignIn` has a right and a wrong PIN for every key, `Retry` = 1 so that both the
last permitted and the first forbidden guess happen, `MaxKeys` = 2 (an old and a new
key) and `MaxPoll` = 0 (the first wait is the last). In one configuration no
provider serves the account's domain. Each configuration combines options that
interact. Two sign-ins at a time are in four of them: over Hello keys for both
providers (the Entra ID one as on a device for personal accounts, which need not be
joined), and without Hello on a device that they race to join. A second key, from a
change of PIN or a new set-up, is in one. `TaskQueue` has more tasks than room in
the channel, and a crash at any point; sign-ins have a logon script or no task of
their own, as tickets and photos are tasks whose outcome is ignored (the proofs
cover any configuration). `Orchestrator`: two handlers with one session id collide
on it, so that the last clause of `OneOwner`, about two ids, is covered by its
theorem only; one warmer suffices because `replenish_in_progress` admits one at a
time, and a second one could differ only in the destruction of a surplus container;
the proofs cover any number. Tasks, passwords, PINs and connections are symmetric
where no liveness is checked.

Fairness. `AsyncLocks`: a runnable task is polled again and again (`SF` on `Poll`:
the run queue is FIFO), a polled task runs on, and I/O ends (requests have
timeouts). Fairness of a mutex follows from its queue. `TaskQueue`: time-outs
expire and the connector is polled; nothing is assumed of the tasks daemon, except
in `QueueDrains`, which says so itself. `Orchestrator`: ready tasks are polled and
podman returns (`WF`); loops that select between a tick and the signal choose at
random, so that a signal that stays is seen (`SF`). `FlowExecutor`: a ready handler
is polled and commands to the browser have time-outs. The runs of `Resolver` and
`SignIn` use no fairness: `ComesBack` bounds the steps between two prompts instead.

Deadlock. The runs `tasks`, `orchestrator` and `flow` end when their requests are
done, so TLC's own check is off there, and in the lock configurations, where offenders
get stuck: what is said of that is `DeadlockNeedsOffender`.

Exceptions. Some properties hold of the code only with an exception, which their
definition states:

* `DeadlockNeedsOffender` and `RequestsReturn` except groups of tasks of which one
  runs a section of `Offenders`. `SectionsDisciplined` keeps that list honest: every
  other section of `AllSections` follows the discipline from which absence of deadlock
  is proved (section 5).
* `LookupUnambiguous` excepts a group that is named as the uuid of another one
  (`NamedAsUuid`): a display name is free text (himmelblau.rs:4866) and the lookup
  compares it with names and uuids alike (db.rs:298).
* `SuccessEarned` excepts what the offline sign-in accepts: the PIN alone, where no
  code was set up, whatever `enable_hello_totp` says and for remote services too
  (common.rs:442, 634). The manual has no such exception (`CodeRequired.cfg`).
* `HelloKeyKept` is about the count of failures, not of wrong PINs
  (`LostByWrongPins.cfg`).
* `ComesBack` excepts accounts whose domain no provider serves. Their start is denied
  (resolver.rs:1217) and the client starts again after every denial (auth.rs:750), for
  ever and without a prompt.
* `NoneRemovedInUse` excepts containers of a session id that was used twice (`Shared`):
  the second `podman run --replace` removes the first container, and both have one
  directory and one socket path. Handlers also go on using a container that cancel or
  cleanup removed; what they send then reaches nobody, never another browser.
* `ShutdownEnds` excepts a flow that is blocked on the lock of its own session
  (flow.rs:705): cleanup and `shutdown_sessions` await that lock and never end.
* `Answered` excepts definitions with a `token_key` and with branches that go back.

## 4. Runs that fail, and what they show

Each states what a comment or manual page says and TLC finds a counterexample.
They are results about the model; none was reproduced on a running daemon.

| Run | What happens |
| --- | --- |
| `auth_init_fallback` | after a failed online start `get_cachestate` locks `db`, held by the same function |
| `totp_accepted` | an offline PIN sign-in asks for the TOTP code but sets no handler for it, so the right code ends in an internal error |
| `oidc_outage` | an outage while the OpenID Connect provider exchanges its refresh token is taken for a refusal: the Hello key is deleted and the sign-in denied |

Further configurations whose property TLC refutes; they are not listed as runs:

| Configuration (module) | What happens |
| --- | --- |
| `OfflinePassword.cfg` (`MCResolverLocks`) | the verifier functions take `db`, `hsm`; provider calls take `hsm`, `db` |
| `InvalidateLocks.cfg` (`MCResolverLocks`) | invalidate takes `nxcache`, `db`; a cache read takes `db`, `nxcache` |
| `HelloRetryLocks.cfg` (`MCResolverLocks`) | a match arm locks `client` while its scrutinee still holds it |
| `CodeRequired.cfg` (`MCSignIn`) | an offline sign-in takes the PIN alone although `enable_hello_totp` is on or the service is remote, against himmelblau.conf.5:201-205 |
| `LostByWrongPins.cfg` (`MCSignIn`) | refusals of the directory after a right PIN are counted as bad PINs (himmelblau.rs:2574, 2617, 2664, 2676), so that the Hello key is deleted without a wrong PIN, against himmelblau.conf.5:224-227 |
| `LostInvalidate.cfg` (`MCResolver`) | a refresh under way stores what it fetched before an invalidate as fresh |
| `VerifierCached.cfg` (`MCResolver`) | on a first MFA sign-in the verifier goes to a made-up row that is then purged |
| `KeptToken.cfg` (`MCResolver`) | a refresh that keeps its old token overwrites one stored meanwhile |
| `ScriptDenies.cfg` (`MCTaskQueue`) | a logon script that returns 2 after the daemon's 60 s does not deny the sign-in, against himmelblau.conf.5:400 |

Read in the code and visible in the models, without a property of their own: the
pattern of `HelloRetryLocks.cfg` again in `fake_user!` (himmelblau.rs:1514), in the
exchange of a PRT and in the MFA flow after MFARequired (himmelblau.rs:3546), all of
them in `Relocking`; a purged account leaves its memberships, against db.rs:459
(`MembersHaveGroup` shows that nobody gets a wrong group by it); `flow.rs:705` holds
the guard of `runtime` while the log locks it; the age of a PRT is looked at in the
offline step only (common.rs:381), so that an online exchange that an outage
downgrades (himmelblau.rs:2789) succeeds with an aged one; the retry for
`DEVICE_AUTH_FAIL` (himmelblau.rs:2067) is never reached; `clear_hello_keys`
(db.rs:549) leaves the refresh token and TOTP entries; the count of bad PINs is lost
at a restart (common.rs:216), so `GuessesBounded` is about one run of the daemon; a
request put back into the channel goes behind later ones (daemon.rs:201).

## 5. What is proved

For any tasks, mutexes and well-scoped sections (`LocksAssumption`,
`ProgramsAssumption`), in `AsyncLocksProofs`: `TypeCorrect`, and if the sections that
break the discipline are named (`OffendersNamed`), `DeadlocksNeedOffender`
(`DeadlockNeedsOffender`). `IInv` adds that the owner of a mutex is the task whose
section holds it at its program counter, that a task's counter and status agree, and
that the tasks queued on a mutex are distinct and wait for it.

A plain lock order would not do. The provider takes `state` before `config` in one
place and `config`, alive in the scrutinee of a match, before `state` in another
(himmelblau.rs:1826); neither deadlocks, because both are taken under `providers`.
`Disciplined` therefore asks that a section locks nothing that it holds and that what it
locks is ranked above all that it holds, *or* that it holds a gate of that mutex
(`Gates`): one that every section that holds the mutex while it locks something holds
too. In a stuck group of disciplined tasks take the mutex of highest rank that is
waited for: its owner waits for a mutex itself, and either that one has a higher rank, or
the owner holds its gate, and then so does the owner of that mutex, which would make
two owners of one gate. TLC evaluates that all of `AllSections` but `Offenders` are
disciplined (`SectionsDisciplined`), those included that offenders run beside. The
theorem does not say that the daemon is free of deadlock; it says where to look.

If the sections that call the provider lock `hsm` before they begin their
transaction (`CallsTakeHsmFirst`), `StoresBeforeNextCall` proves
`StoredBeforeNextCall` for any number of tasks and any section that ends as a
refresh does (`StoresAfterCall`). Nothing is assumed of the others, so
`cache_userpassword`, which takes `db` and then `hsm`, may run beside them; it is in
the run as well. No mutex protects the gap between call and store, so the invariant
(`StoreInv`) is about the queue of `db`. A task that drops its two guards and locks
`db` again is polled until it has joined the queue, and no holder of `hsm` that
calls the provider is in the queue by then: whoever gets `hsm` was waiting for
`hsm`, so it does not wait for `db`, and holds it only if it calls no provider. From
then on a holder of `hsm` joins the queue behind the store (`Behind`), and a mutex
that is waited for is never free (`TakenInv`), so that nobody overtakes. TLC checked
`IInv` and `StoreInv` on the instance of `resolver_locks_fair` first.

For any tokens (`TokensAssumption`: a token's name is its spn, which is what the
provider builds, and no account is named as a uuid, for its name has an @), in
`UnixCacheProofs`: `TypeCorrect`, `LookupsUnambiguous`, `MembersOwnGroup` and
`PasswordsStay`. `IInv` says that disk and connection are both well formed: rows
come from tokens, no two share a UNIQUE column, and the memberships of a stored
account are those of its token. Each statement preserves it (one lemma each), so
commit and rollback, which copy one to the other, do too.

For any handlers, warmers, session ids and containers (`ProcsAssumption`: they are
different), in `OrchestratorProofs`: `TypeCorrect`, `ContainersHaveOneOwner`,
`OwnedContainersRun`, `ContainersAreNotForgotten` and `OneSpare`. None of these
invariants is inductive alone. `Owners` joins the three about containers with the
fact that one not yet started is not running, so that a new one has no owner, and with
`Names`: what a socket path leads to was made for the id of that path, and two
containers have one name only if its id was used twice. With fresh ids, then, nobody's
container is replaced or loses its directory.
`Control` says at which labels a task holds a container (`Holding`), and that
`replenish_in_progress` and the shutdown agree with the labels (`Stopping`):
without it a warmer could offer a second spare after the shutdown has looked for
the last one.

For any definitions that pass validation (`DefinitionsAssumption`), in
`FlowExecutorProofs`: `TypeCorrect`, and `ImplementsProtocol`, that a session
implements `FlowProtocol` (`FollowsProtocol`), under the identity as refinement
mapping. `IInv` adds that a handler that works on a step is at a step of the
definition (`AtStep`), which needs that the first matching branch exists (a
minimum, from `WellFoundedInduction`), and that the client waits or has left while
a handler works (`Waiting`), so that every answer is a step of the protocol.

Validation lets definitions through for which the three invariants about inputs fail.
They are proved for definitions of a form that is stated on the definition alone:

* `FillsHaveInputs` (`NoFillWithoutInput`) for `InputsProvided`: a step that types an
  input asks for it, or is entered only by way of a step that does.
* `SecretsAreForgotten` (`SecretsForgotten`) for `SecretsEnd`: a secret that is kept
  after it was typed has a last use that is neither optional nor jumped over.
* `CodesAreTypedOnce` (`CodeTypedOnce`) for `CodesAsked`: a step that types a code asks
  for it, and the code is not kept.

The built-in Keycloak definition and the others of `MCFlowExecutor` have this form;
TLC evaluates that (`FormAssumption`). `InputsInv` follows an input through the
session: what a step asked for is there until the step has typed it (`OwnInputs`), and
what one step carries to a later one is there until that one has (`CarriedInputs`); a
typed secret to which nothing refers later is gone (`Forgotten`), and of one that is
kept the last use is ahead (`LastUseAhead`). TLC checked it on the run's instance first.
Each step of the executor is one of eight moves (`Moves`), so that the invariant is
shown for the moves and not for every command.

For any connections, capacity, number of crashes and sign-ins
(`QueueAssumption`), in `TaskQueueProofs`: `TypeCorrect`, `OutcomesAreOwn`
(`OutcomeIsOwn`), `SentAtMostOnce` (`AtMostOnce`), `SessionsWereServed`
(`SessionWasServed`) and `ExecutedOnce`, that the verdict on a task is never given
again. The invariants need to know where a task is. `Custody` says that one not yet
submitted is nowhere, and one in the channel is there once, is not in hand and has
no verdict; `Connection`, that what is on the socket in either direction is about
the request in hand, which holds because the connector reads one answer for each
task before the next; `Served` carries the session through its three tasks.

`QueueImplementsService` (`ImplementsService`) shows the refinement of `TaskService`,
one lemma per action: a step of the connector that moves a task between channel and
socket is a stutter, reading it is its execution, and a task is dropped by a crash, by
an error on the socket or by a full channel. It needs one more invariant, that a
request that does not wait has no oneshot (`NoneEarly`): else it could be told the
outcome of an earlier task.

For any users, lookups, sign-ins, passwords and number of outside events, in
`ResolverProofs`: `TypeCorrect`, and the action properties `NoUserLost`
(`UserStaysCached`), `OfflinePasswords` (`OfflinePasswordWasAccepted`) and
`ForcedOnline` (`ReauthOnline`). The runs have one user, so that what one user's
requests do to the row of another is covered by the proofs only. A row is found by
uuid when a password is stored, kept or checked. `IInv` therefore has three parts:

* `OneUser`: among the tokens of rows, requests and sessions, those with the same
  uuid belong to the same user. A made-up uuid (`fake_user!`) is a fresh one, so it
  never joins two users.
* `RowOK`: a row has the columns of its token, and its verifier is a password that the
  directory accepted for its user.
* `Sound`: where a request is, whose token it has, and what a step of a sign-in has to
  show at each point of its way (`Earned`): a password on its way to the row was
  accepted, a step that goes on offline is not forced to be online.

`ResolverAssumption` says that object ids and numbers tell users apart and that no
name is a number or a uuid. It is needed: `update_account` deletes every other row with
the same number (db.rs:743), so with an id mapping that gives two users one number a
refresh of one of them removes the other, against `UserStaysCached`. TLC checked `IInv` on
the instance of the run `resolver` before it was proved.

For any connections, PINs, configurations, limit of bad PINs and bound of the
polling (`HelloAssumption`, `SignInAssumption`), in `SignInProofs`: `TypeCorrect`,
`EarnedAlways` (`SuccessEarned`), `GuessesLimited` (`GuessesBounded`),
`AlwaysComesBack` (`ComesBack`) and the action property `KeyNeverLost`
(`HelloKeyKept`). The argument has three layers.

1. `ProviderProofs` gives each provider a contract for one step (`StepOutcome`:
   `EntraStep`, `OidcStep`) and for a start (`InitOutcome`), for every handler, request
   and answer of the directory or the TPM. A step at the directory (`Directory`) leaves
   the Hello keys alone, and its success is a full sign-in. A step with a PIN either
   loads the key (`PinAccepted`) or counts the PIN and does nothing else. The code of
   the second factor has `TotpStep`. The lemmas follow the functions of the providers
   from the inside out; `Continue` is the rule for one part after another.
2. `Handled` is the contract of the client: it ends, starts anew after a denial,
   answers the question it was asked, or polls once more.
3. `IInv` joins them. `Backed` says what must have been shown when a question is asked,
   not only at the end: without it a sign-in could be asked for a new PIN, or for the
   code of the second factor, before anything was shown, and succeed with that. `Turns`
   bounds the steps by where the sign-in stands in its polling, `SessionOpen` ties the
   client to the session of the daemon, and `Counted` compares the wrong PINs of the
   history with the count that the provider keeps. TLC checked `IInv` on the instance
   of the run `sign_in` before it was proved.

Because `IInv` of a sign-in does not mention the provider's state, what the other
sign-ins do to it in between cannot disturb it (`OthersKept`); that is why the results
hold for any number of them. The one property that is about the provider is
`GuessesBounded`. Its proof needs that a count goes back only with a right PIN, a new
PIN or a success. The count belongs to the account and not to a key: a PIN set up for a
decoupled key resets it while a registered key, which is the one in use, is still there
(himmelblau.rs:3315 and common.rs:216). `GuessesBounded` therefore counts from the last
right or new PIN of the account.

## 6. What is only model-checked

Liveness (`RequestsReturn`, `Responded`, `QueueDrains`, `ShutdownEnds`, `Answered`):
TLAPS has no support for fairness and ENABLED. That the sections of `ResolverLocks`
are disciplined or named and take `hsm` first (`SectionsDisciplined`), and that the
definitions of `MCFlowExecutor` have the form the theorems ask for: facts about
particular sequences, which TLC evaluates. Every other invariant and action property
of a passing run has a theorem.

## 7. Mutants

For each property of a passing run, one definition has a variant with a plausible
mistake (an emergency entry that locks what it holds, an upsert without its purge, a
PIN counted late, a spare that is cloned instead of taken, a task put back although
it was sent, ...) that violates it. Variants stand before the definition they vary
and are used nowhere else.

## 8. Not modelled

* NSS module and its cache: conversion of answers, and a file of users that is read
  when the daemon gives none.
* Id mapping: a C library, and a table written by the command line tool; `Resolver`
  takes an injective constant.
* User map and configuration: parsing; the options that matter are constants.
* Broker interfaces and command line tool: one forwarded request per call.
* Intune policies: calls to Intune and files written, one run at a time;
  `TaskQueue` has the answers of such a run.
* TPM and machine key set-up: done once at start.
* Of the modelled parts: group lookups, access tokens, tickets and PRT cookies of
  the resolver and the Entra ID provider (their locks are in `ResolverLocks`), the
  account and session entry points of the PAM module, the export of PRTs
  to the descriptor store, the effects of tasks on the file system, durations, and
  more than one user outside `UnixCache`.
