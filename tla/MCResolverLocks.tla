--------------------------- MODULE MCResolverLocks ---------------------------
(* The critical sections of the resolver run by a few tasks. *)
EXTENDS ResolverLocks, FiniteSets, TLC

CONSTANTS t1, t2, t3

ThreeTasks == {t1, t2, t3}
TwoTasks == {t1, t2}
MutexRankBound == 7

ASSUME GuardsAssumption == GuardsExist

\* Sections that contend for every mutex, few enough for three tasks: the cache
\* reads, the shortest provider calls and those Offenders that lock two mutexes.
ContendingSections ==
    get_cached_token \union set_nxcache \union {offline_break_glass, cache_userpassword, invalidate}
    \union {p \in UNION {test_connection, change_auth_token, offline_auth_step, refresh_and_store} :
                Len(p) \in 12..14}

\* The refresh of a user during which the network goes down.
OfflineRefresh == {p \in refresh_usertoken : Len(p) = 15}

HelloRetry == KnownDomain(hello_key_retry_in_arm)

AuthInitSections == {online_auth_init_failed}
PasswordSections == {cache_userpassword} \union OfflineRefresh
InvalidateSections == {invalidate} \union get_cached_token \union OfflineRefresh
HelloRetrySections == HelloRetry

DisciplinedSections == {p \in Programs : Disciplined(Programs, p)}
HsmFirstSections == {p \in Programs : CallsProvider(p) => TakesHsmFirst(p)}

(***************************************************************************)
(* Whatever runs follows the discipline of AsyncLocks or is one of         *)
(* Offenders: guards that live to the end of a match included, no function *)
(* locks a mutex again, and the two orders in which the provider takes     *)
(* state and config are both taken under providers.  And every provider    *)
(* call locks the HSM before it begins its transaction.                    *)
(***************************************************************************)
SectionsDisciplined ==
    \A t \in Tasks :
        prog[t] # NoSection =>
            /\ prog[t] \in DisciplinedSections \union Offenders
            /\ prog[t] \in HsmFirstSections

Completes(p) == \A t \in Tasks : (prog[t] = p) ~> (status[t] = "idle")

(***************************************************************************)
(* An authentication whose online start fails goes on offline, as          *)
(* pam_account_authenticate_init says: "Attempt to proceed offline".       *)
(***************************************************************************)
OfflineFallbackProceeds == Completes(online_auth_init_failed)

(***************************************************************************)
(* An offline password check is answered: "We are offline, continue" says  *)
(* pam_account_authenticate_step before it calls check_cache_userpassword. *)
(***************************************************************************)
OfflinePasswordAnswered == Completes(cache_userpassword)

(***************************************************************************)
(* aad-tool cache-clear "marks all cached user and group entries as        *)
(* stale": the daemon's invalidate gets to do so.                          *)
(***************************************************************************)
InvalidateCompletes == Completes(invalidate)

(***************************************************************************)
(* The retry of a Hello key sign-in without the Graph scopes ends:         *)
(* "authentication can still proceed".                                     *)
(***************************************************************************)
HelloRetryProceeds == \A p \in HelloRetry : Completes(p)

TaskSymmetry == Permutations(Tasks)
=============================================================================
