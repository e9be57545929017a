---------------------------- MODULE ResolverLocks ----------------------------
(***************************************************************************)
(* The critical sections of the resolver and of the identity provider      *)
(* beneath it, as programs of AsyncLocks: which mutex each function takes, *)
(* in which order, what it awaits meanwhile and when it drops the guards.  *)
(*                                                                         *)
(*   hsm        Resolver.hsm                                               *)
(*   db         Db.conn; a DbTxn holds it from write() to commit() or drop *)
(*   nxcache    Resolver.nxcache                                           *)
(*   providers  HimmelblauMultiProvider.providers                          *)
(*   client     HimmelblauProvider.client                                  *)
(*   state      HimmelblauProvider.state                                   *)
(*   config     the shared HimmelblauConfig                                *)
(*                                                                         *)
(* Left out are the mutexes whose guards never live across a pending await *)
(* (nxset, and idmap but for a tenant id that is already known): on one    *)
(* thread nobody ever waits for them.                                      *)
(***************************************************************************)
EXTENDS AsyncLocks

Mutexes == {"hsm", "db", "providers", "client", "state", "config", "nxcache"}

\* The order most of the code follows.
MutexRank ==
    [hsm |-> 1, db |-> 2, providers |-> 3, client |-> 4, state |-> 5, config |-> 6, nxcache |-> 7]

\* The guards of a provider call.
CallLocks == {"hsm", "db", "providers"}

GuardsExist == CallLocks \subseteq Locks

Take(l) == <<Lock(l)>>
Drop(l) == <<Unlock(l)>>
Await == <<IO>>

\* body runs while the guard of l is held.
With(l, body) == Take(l) \o body \o Drop(l)

-----------------------------------------------------------------------------
\* The provider.  A guard created in the scrutinee of a match, in the arguments
\* of the call included, lives until the arms of the match are over.

ConfigRead == With("config", << >>)
ClientUse == With("client", << >>)
ClientCall == With("client", Await)
StateAccess == With("state", << >>)

\* net_down_check!: the error arm marks the provider offline while the guard
\* of the client call in the scrutinee is still alive.
net_down_check == With("client", Await \o StateAccess)

\* The call that starts the MFA flow takes the mfa_method from the configuration
\* in its arguments; arm runs with both guards.
mfa_flow(arm) == With("client", With("config", Await \o arm))

attempt_online == Await \o ConfigRead \o ConfigRead \o Await \o StateAccess

delayed_init == Await \o ConfigRead \o ClientUse \o ConfigRead

check_online == {StateAccess, StateAccess \o attempt_online}

\* delayed_init and check_online, which most provider calls begin with.
Ready(bodies) ==
    {delayed_init \o StateAccess} \union check_online \union {StateAccess \o b : b \in bodies}

\* An emergency entry that asks whether the provider is online with its state held.
offline_break_glass_checks == With("providers", With("state", ConfigRead \o Take("state")))

offline_break_glass == With("providers", With("state", ConfigRead))

clear_cookies == With("providers", ClientUse)

\* find_provider!: the domain is known; it is an alias, looked up with the
\* configuration held; or the lookup finds nothing and no provider is called.
ViaProvider(bodies) ==
    LET alias == ConfigRead \o With("providers", << >>) \o With("config", Await)
    IN {ConfigRead \o With("providers", b) : b \in bodies}
       \union {alias \o With("providers", b) : b \in bodies}
       \union {alias}

\* The aliases of the domain are looked up with the configuration held.
token_validate == With("config", Await) \o Await \o ConfigRead

fake_user == {net_down_check, ClientCall \o ConfigRead \o ClientCall \o ConfigRead}

unix_user_get ==
    Ready({ConfigRead \o Await \o token_validate, ConfigRead \o Await \o StateAccess}
          \union fake_user
          \union {ConfigRead \o ClientCall \o b : b \in {token_validate, net_down_check} \union fake_user})

\* An error arm of the token exchange asks whether the user exists while the
\* guard of the exchange in the scrutinee is still alive.
fake_user_in_arm == StateAccess \o ConfigRead \o With("client", Await \o Take("client"))

unix_user_access == Ready({ClientCall \o ClientCall, ConfigRead \o Await})

unix_user_tgts == Ready({ClientUse, ClientUse \o With("config", Await)})

unix_user_prt_cookie == {delayed_init \o ClientCall}

change_auth_token_provider == Ready({ClientCall})

unix_user_online_auth_init ==
    {ConfigRead \o b : b \in {delayed_init \o StateAccess, net_down_check, attempt_online,
                               ClientCall \o attempt_online,
                               ClientCall \o mfa_flow(StateAccess)}}

\* The Hello key sign-in: an outage reads whether TOTP is enabled with the state
\* held, a refused key reads the retry count in an arm of the client call.
hello_key_step ==
    {With("client", Await \o With("state", ConfigRead)),
     Await \o With("state", ConfigRead),
     With("client", Await \o ConfigRead),
     ClientUse \o ConfigRead}

\* The device is enrolled in Intune in an arm of the second token request.
intune_enroll ==
    ClientCall \o Await \o With("client", Await \o ConfigRead \o ConfigRead \o Await)

\* A password whose response is handled in the arms of the call.
password_step_in_arms == ConfigRead \o mfa_flow(Take("client") \o Await)

\* The password is verified in a statement of its own; the response is handled,
\* and the single-factor fallback tried, after its guards are dropped.
password_step == ConfigRead \o mfa_flow(<< >>) \o ClientCall \o StateAccess

unix_user_online_auth_step ==
    hello_key_step
    \union {delayed_init \o StateAccess,
            mfa_flow(StateAccess),
            password_step,
            ClientCall \o net_down_check \o token_validate,
            intune_enroll}

\* Arms that call the client again while the guard of the client call in their
\* scrutinee is still alive: the retry of a Hello key sign-in without the Graph
\* scopes, the exchange of a PRT after such a retry succeeded, and the MFA flow
\* that a sign-in answered with MFARequired starts.
hello_key_retry_in_arm == With("client", Await \o Take("client"))

prt_retry_in_arm == ClientUse \o ClientCall \o With("client", Await \o Take("client"))

mfa_required_in_arm == mfa_flow(Take("client"))

unix_user_offline_auth_init == {ConfigRead}

unix_user_offline_auth_step == {ClientUse \o ClientUse \o ConfigRead, ConfigRead}

-----------------------------------------------------------------------------
\* The resolver

\* A provider call with both guards held, hsm dropped before the commit.
HsmThenDb(calls) == {Take("hsm") \o Take("db") \o c \o Drop("hsm") \o Drop("db") : c \in calls}

get_cachestate ==
    {With("db", c) : c \in ViaProvider({StateAccess})} \union {With("db", With("providers", StateAccess))}

get_cached_token == {With("db", << >>), With("db", With("nxcache", << >>))}

\* set_cache_*token, delete_cache_*token, get_cached_*tokens, get_groupmembers
cache_txn == {With("db", << >>)}

set_nxcache == {With("nxcache", << >>)}

test_connection == {With("hsm", With("providers", c)) : c \in check_online}

refresh_usertoken == HsmThenDb(ViaProvider(unix_user_get))

\* refresh_usertoken up to the end of set_cache_usertoken: the transaction that
\* stores the outcome is begun without an await after the call's is committed.
\* The calls that leave nothing to store are included.
refresh_and_store == {p \o With("db", << >>) : p \in refresh_usertoken}

\* The provider call of the group refresh fails without awaiting anything.
refresh_grouptoken == {With("hsm", << >>)}

get_user_accesstoken == HsmThenDb(ViaProvider(unix_user_access))

get_user_tgts == HsmThenDb(ViaProvider(unix_user_tgts))

get_user_prt_cookie == HsmThenDb(ViaProvider(unix_user_prt_cookie))

\* A PIN change that begins its transaction before it locks the HSM.
change_auth_token_db_first ==
    {With("db", With("hsm", c)) : c \in ViaProvider(change_auth_token_provider)}

change_auth_token == HsmThenDb(ViaProvider(change_auth_token_provider))

online_auth_init ==
    {With("hsm", With("db", c)) : c \in ViaProvider(unix_user_online_auth_init)}

offline_auth_init == {With("db", c) : c \in ViaProvider(unix_user_offline_auth_init)}

online_auth_step == HsmThenDb(ViaProvider(unix_user_online_auth_step))

offline_auth_step == HsmThenDb(ViaProvider(unix_user_offline_auth_step))

-----------------------------------------------------------------------------
\* The sections that can be part of a deadlock.

\* set_cache_userpassword and check_cache_userpassword
cache_userpassword == Take("db") \o Take("hsm") \o Drop("db") \o Drop("hsm")

\* invalidate and clear_cache
invalidate == With("nxcache", With("db", << >>))

\* The sections below lock a mutex whose guard they still hold, so nothing after
\* the second lock() is reached; the drop of the two guards is written once.

\* pam_account_authenticate_init when the provider's online init fails: the
\* cache state is read again while the transaction is still open.
online_auth_init_failed ==
    LET failing == ConfigRead \o With("providers", attempt_online)
    IN With("hsm", With("db", failing \o Take("db") \o ConfigRead \o With("providers", StateAccess)))

\* A provider call of a known domain.
KnownDomain(body) == HsmThenDb({ConfigRead \o With("providers", body)})

Relocking ==
    UNION {KnownDomain(b) : b \in {fake_user_in_arm, hello_key_retry_in_arm,
                                   prt_retry_in_arm, mfa_required_in_arm}}

\* The sections known not to follow the discipline of AsyncLocks.
Offenders == {cache_userpassword, invalidate, online_auth_init_failed} \union Relocking

\* Every section of the resolver.
AllSections ==
    Offenders
    \union UNION {get_cachestate, get_cached_token, cache_txn, set_nxcache, test_connection,
                  refresh_usertoken, refresh_and_store, refresh_grouptoken,
                  get_user_accesstoken, get_user_tgts, get_user_prt_cookie,
                  change_auth_token, online_auth_init, offline_auth_init, online_auth_step,
                  offline_auth_step, {offline_break_glass, clear_cookies}}

\* The sections of P that do not follow the discipline are among Offenders.
OffendersNamed(P) == \A p \in P \ Offenders : Disciplined(P, p)

(***************************************************************************)
(* Whenever requests of the daemon wait for each other for ever, one of    *)
(* them runs a section of Offenders: the other sections of the resolver    *)
(* and of the provider beneath it cannot deadlock, however many tasks run  *)
(* them at once.                                                           *)
(***************************************************************************)
DeadlockNeedsOffender ==
    \A S \in SUBSET Tasks : Stuck(S) => \E t \in S : prog[t] \in Offenders

(***************************************************************************)
(* Every request that enters a section of the resolver leaves it again, or *)
(* waits for ever for requests one of which runs a section of Offenders:   *)
(* no request starves behind the others.                                   *)
(***************************************************************************)
RequestsReturn ==
    \A t \in Tasks :
        (status[t] # "idle") ~>
            \/ status[t] = "idle"
            \/ \E S \in SUBSET Tasks :
                  t \in S /\ Stuck(S) /\ \E u \in S : prog[u] \in Offenders

-----------------------------------------------------------------------------
\* A task that holds these guards is in a provider call (HsmThenDb).
Calling(t) == \A l \in CallLocks : owner[l] = t

\* The sections that call the provider so, and those that lock the HSM before
\* they begin their transaction.
CallsProvider(p) == \E i \in 1..(Len(p) + 1) : CallLocks \subseteq HeldAt(p, i)

TakesHsmFirst(p) == \A i \in 1..Len(p) : p[i] = Lock("hsm") => "db" \notin HeldAt(p, i)

CallsTakeHsmFirst == \A p \in Programs : CallsProvider(p) => TakesHsmFirst(p)

\* The section ends as refresh_and_store does, whatever its provider call.
StoresAfterCall(p) ==
    /\ Len(p) >= 4
    /\ SubSeq(p, Len(p) - 3, Len(p)) = <<Unlock("hsm"), Unlock("db"), Lock("db"), Unlock("db")>>

\* The provider call is over and its outcome not yet stored.
StorePending(t) == StoresAfterCall(prog[t]) /\ pc[t] \in (Len(prog[t]) - 1)..Len(prog[t])

(***************************************************************************)
(* Between the provider call of refresh_usertoken and the transaction in   *)
(* which set_cache_usertoken stores its outcome no other provider call     *)
(* runs, though neither mutex is held: whoever waits for hsm queues for db *)
(* behind the store.  Resolver relies on this in CallAllowed.              *)
(***************************************************************************)
StoredBeforeNextCall ==
    \A t, u \in Tasks : ~(StorePending(t) /\ Calling(u))
=============================================================================
