------------------------------- MODULE Resolver -------------------------------
(***************************************************************************)
(* The resolver of himmelblaud: lookups, cache invalidation and password   *)
(* or MFA sign-ins of several clients over one cache database, one         *)
(* provider and one directory.                                             *)
(*                                                                         *)
(* A step of a task is what it does while it holds the db mutex, with or   *)
(* without the hsm mutex.  Between two such sections any other task may    *)
(* run, with one exception: a section that follows a provider call only    *)
(* queues for db, and a new provider call queues for hsm and then behind   *)
(* it for db.  So no provider call starts while the outcome of an earlier  *)
(* one is still to be stored (CallAllowed).                                *)
(*                                                                         *)
(* Time is what it decides: a cached entry is fresh (expiry 1) or expired  *)
(* (0), and the next check of an offline provider is due or not.           *)
(***************************************************************************)
EXTENDS CacheDb

CONSTANTS Lookups,      \* connections of NSS clients
          SignIns,      \* connections of the PAM module
          Names, Gids,  \* of users; names in lower case
          gid,          \* the number each name is mapped to
          RealUuid,     \* the object id of each user
          FakeUuids,    \* what Uuid::new_v4 may return
          Passwords,
          NoToken,
          Breakglass,   \* offline_breakglass enabled
          SfaFallback,  \* enable_sfa_fallback
          Confidential, \* the daemon has confidential client credentials
          MaxRev,       \* bound on the changes of the directory
          MaxEvents     \* bound on what happens besides the requests of Tasks

\* Numbers and object ids tell users apart, and none of them is a name (a UPN).
ASSUME ResolverAssumption ==
    /\ NoPassword \notin Passwords
    /\ DOMAIN gid = Names /\ \A n \in Names : gid[n] \in Gids
    /\ DOMAIN RealUuid = Names /\ \A n \in Names : RealUuid[n] \notin FakeUuids \union Names
    /\ \A m, n \in Names : gid[m] = gid[n] \/ RealUuid[m] = RealUuid[n] => m = n
    /\ Names \intersect (Gids \union FakeUuids) = {}
    /\ Breakglass \in BOOLEAN /\ SfaFallback \in BOOLEAN /\ Confidential \in BOOLEAN
    /\ MaxRev \in Nat \ {0} /\ MaxEvents \in Nat

VARIABLES db,             \* the committed cache database
          nxcache,        \* negative entries: "none", "fresh" or "expired"
          nxset,          \* names and numbers of local users and groups
          state,          \* CacheState of the provider: "Online", "Waiting" or "Due"
          refresh_cache,  \* the users with a PRT or refresh token in memory
          task,           \* what each connection is doing
          session,        \* the AuthSession of each connection
          net,            \* whether the directory is reachable
          directory,      \* the users the directory knows
          accepted,       \* history: the passwords the directory accepted
          floor,          \* history: the revision at the last invalidate of an entry
          events          \* history: how many events there were

vars == <<db, nxcache, nxset, state, refresh_cache, task, session, net, directory, accepted, floor, events>>
Cache == <<db, nxcache>>
Provider == <<state, refresh_cache>>
Outside == <<nxset, net, directory>>
World == <<Outside, events>>
History == <<accepted, floor>>

Ids == Names \union Gids
Tasks == Lookups \union SignIns

-----------------------------------------------------------------------------
\* A token: its number, its primary group and the revision of the directory
\* entry that the rest of it was taken from (0: made up by fake_user).
PrimaryGroup(n, uuid) == [uuid |-> uuid, name |-> n, spn |-> n, gidnumber |-> gid[n]]
Token(n, uuid, rev) ==
    [uuid |-> uuid, name |-> n, spn |-> n, gidnumber |-> gid[n], groups |-> {PrimaryGroup(n, uuid)}, rev |-> rev]
DirectoryToken(n) == Token(n, RealUuid[n], directory[n].rev)

NoSession == [status |-> "None"]
Denied == [status |-> "Denied"]
Success == [status |-> "Success"]

\* An idle connection.
Idle == [pc |-> "idle"]
At(t, pc) == task[t].pc = pc
Goto(t, pc) == task' = [task EXCEPT ![t].pc = pc]
Done(t) == task' = [task EXCEPT ![t] = Idle]

\* The uuids some row, task or session still refers to.
UuidsInUse ==
    {r.uuid : r \in db.account}
      \union {m.a_uuid : m \in db.memberof}
      \union {task[t].item.uuid : t \in {u \in Tasks : ~At(u, "idle") /\ task[u].item # NoToken}}
      \union {task[t].token.uuid : t \in {u \in Tasks : ~At(u, "idle") /\ task[u].token # NoToken}}
      \union {session[t].token.uuid : t \in {u \in Tasks : session[u].status = "InProgress" /\ session[u].token # NoToken}}

Cached(n) == \E r \in db.account : r.name = n

Init ==
    /\ db = Empty
    /\ nxcache = [id \in Ids |-> "none"]
    /\ nxset = {}
    /\ state = "Due"
    /\ refresh_cache = {}
    /\ task = [t \in Tasks |-> Idle]
    /\ session = [t \in Tasks |-> NoSession]
    /\ net = TRUE
    /\ directory \in [Names -> [exists : {TRUE}, rev : {1}, password : Passwords]]
    /\ accepted = [n \in Names |-> {}]
    /\ floor = [n \in Names |-> 1]
    /\ events = 0

-----------------------------------------------------------------------------
Start(pc, kind, id, forced) ==
    [pc |-> pc, kind |-> kind, id |-> id, force |-> forced, expired |-> FALSE,
     item |-> NoToken, token |-> NoToken, cred |-> NoPassword, how |-> "none"]

\* The token of the identifier's row and whether it is expired or, without a
\* row, whether the negative cache has no valid entry either.
get_cached_usertoken(id) ==
    LET rows == IF id \in Gids THEN get_account_data_gid(db, id) ELSE get_account_data_name(db, id)
        row == CHOOSE r \in rows : TRUE
    IN IF rows = {} THEN [item |-> NoToken, expired |-> nxcache[id] # "fresh"]
                    ELSE [item |-> row.token, expired |-> row.expiry = 0]

\* A lookup arrives and reads the cache.  Local users are turned away.
get_usertoken(t) ==
    /\ t \in Lookups
    /\ At(t, "idle")
    /\ \E id \in Ids \ nxset :
          LET cached == get_cached_usertoken(id)
          IN task' = [task EXCEPT ![t] = [Start("state", "lookup", id, FALSE) EXCEPT
                                             !.item = cached.item, !.expired = cached.expired]]
    /\ UNCHANGED <<Cache, Provider, World, History, session>>

\* A sign-in begins and reads the cache; a user who is not cached is looked up first.
pam_account_authenticate_init(t) ==
    /\ t \in SignIns
    /\ At(t, "idle")
    /\ \E n \in Names, forced \in BOOLEAN :
          LET item == get_cached_usertoken(n).item
              pc == IF item = NoToken THEN "refresh" ELSE "state"
          IN IF n \in nxset
             THEN session' = [session EXCEPT ![t] = Denied] /\ UNCHANGED task
             ELSE /\ task' = [task EXCEPT ![t] = [Start(pc, "init", n, forced) EXCEPT !.item = item]]
                  /\ UNCHANGED session
    /\ UNCHANGED <<Cache, Provider, World, History>>

\* The state decides whether a lookup is content with what is cached, and
\* whether a sign-in needs to test the connection.
get_cachestate(t) ==
    LET lookup == CASE task[t].expired /\ state = "Online" -> "refresh"
                    [] task[t].expired /\ state = "Due" -> "test"
                    [] OTHER -> "idle"
        init == IF state = "Online" THEN "init_online" ELSE "test"
        next == IF task[t].kind = "lookup" THEN lookup ELSE init
    IN /\ At(t, "state")
       /\ IF next = "idle" THEN Done(t) ELSE task' = [task EXCEPT ![t] = [@ EXCEPT !.pc = next, !.expired = FALSE]]
       /\ UNCHANGED <<Cache, Provider, World, History, session>>

\* check_online: only a provider that is due for its next check is probed.
CheckedState == IF state = "Due" THEN (IF net THEN "Online" ELSE "Waiting") ELSE state

\* A connection sends a lookup on to the directory and a sign-in to its online
\* path; without one a lookup returns what is cached, and only a sign-in that
\* is not forced goes on.
test_connection(t) ==
    /\ At(t, "test")
    /\ state' = CheckedState
    /\ CASE CheckedState = "Online" ->
               Goto(t, IF task[t].kind = "lookup" THEN "refresh" ELSE "init_online") /\ UNCHANGED session
         [] CheckedState # "Online" /\ task[t].kind = "lookup" -> Done(t) /\ UNCHANGED session
         [] CheckedState # "Online" /\ task[t].kind = "init" /\ task[t].force ->
               Done(t) /\ session' = [session EXCEPT ![t] = Denied]
         [] OTHER -> Goto(t, "init_offline") /\ UNCHANGED session
    /\ UNCHANGED <<Cache, refresh_cache, World, History>>

-----------------------------------------------------------------------------
\* What unix_user_get may answer, and the state it leaves.
Answer(res, tok, how, st) == [res |-> res, token |-> tok, how |-> how, state |-> st]
UseCached(st) == Answer("UseCached", NoToken, "none", st)
Fetched(n) == Answer("Update", DirectoryToken(n), "fetched", "Online")

\* A user who is gone is reported even if there is a token.
fake_user_gone(n, old) ==
    CASE net /\ ~directory[n].exists -> {UseCached("Online"), Answer("NotFound", NoToken, "none", "Online")}
      [] old # NoToken /\ (net => directory[n].exists) -> {Answer("Update", old, "kept", "Online")}
      [] old = NoToken /\ ~net -> {UseCached("Waiting")}
      [] OTHER -> {UseCached("Online")} \union
                  {Answer("Update", Token(n, f, 0), "faked", "Online") : f \in FakeUuids \ UuidsInUse}

\* An existing token is kept; for a user without one the directory is asked
\* whether there is such a user.
fake_user(n, old) ==
    CASE old # NoToken -> {Answer("Update", old, "kept", "Online")}
      [] old = NoToken /\ ~net -> {UseCached("Waiting")}
      [] old = NoToken /\ net /\ directory[n].exists ->
            {UseCached("Online")} \union
            {Answer("Update", Token(n, f, 0), "faked", "Online") : f \in FakeUuids \ UuidsInUse}
      [] OTHER -> {UseCached("Online"), Answer("NotFound", NoToken, "none", "Online")}

\* The PRT or refresh token is exchanged, once more after a failure of the network
\* or, for a PRT, with other scopes or another client after a refusal.
exchange_refresh_cache_entry(n, old) ==
    CASE ~net -> {UseCached("Waiting")}
      [] net /\ directory[n].exists -> {Fetched(n)} \union fake_user(n, old)
      [] OTHER -> fake_user(n, old)

\* delayed_init and the online check come first, then the confidential client; it
\* may fail, and so may all that follows it.
unix_user_get(n, old) ==
    IF CheckedState # "Online" THEN {UseCached("Waiting")}
    ELSE (IF net THEN {} ELSE {UseCached("Waiting")})
           \union (IF net /\ Confidential /\ directory[n].exists THEN {Fetched(n)} ELSE {})
           \union (IF n \in refresh_cache THEN exchange_refresh_cache_entry(n, old) ELSE fake_user(n, old))

\* The mutex queues let the outcome of a provider call be stored before the next call.
CallAllowed == \A u \in Tasks : task[u].pc \notin {"store", "notfound", "password", "purge"}

\* A token on its way to the cache loses the groups that are in the nxset.
Filtered(tok) == [tok EXCEPT !.groups = {g \in @ : g.gidnumber \notin nxset /\ g.name \notin nxset}]
ToStore(t, tok, how) ==
    task' = [task EXCEPT ![t] = [@ EXCEPT !.pc = "store", !.token = Filtered(tok), !.how = how]]

\* A lookup ends with what it has; a sign-in goes on with it.
Resolved(t) == IF task[t].kind = "lookup" THEN Done(t) ELSE Goto(t, "state")

refresh_usertoken(t) ==
    LET id == task[t].id
        old == task[t].item
        answers == IF old = NoToken /\ id \in Gids THEN {UseCached(state)}
                   ELSE unix_user_get(IF old = NoToken THEN id ELSE old.name, old)
    IN /\ At(t, "refresh")
       /\ CallAllowed
       /\ \E a \in answers :
             /\ state' = a.state
             /\ CASE a.res = "Update" -> ToStore(t, a.token, a.how)
                  [] a.res = "NotFound" -> Goto(t, "notfound")
                  [] a.res = "UseCached" -> Resolved(t)
       /\ UNCHANGED <<Cache, refresh_cache, World, History, session>>

\* An account that existed is deleted, and the identifier is cached as missing.
UserNotFound(t) ==
    /\ At(t, "notfound")
    /\ db' = IF task[t].item = NoToken THEN db ELSE delete_account(db, task[t].item.uuid)
    /\ nxcache' = [nxcache EXCEPT ![task[t].id] = "fresh"]
    /\ Resolved(t)
    /\ UNCHANGED <<Provider, World, History, session>>

\* Groups are stored before the account, each in place of the rows it clashes
\* with (update_group).  Those of one token do not clash with each other.
StoreToken(tok) ==
    LET groups == {r \in db.group : \A g \in tok.groups : r.uuid # g.uuid /\ ~Clash(r, g)}
                    \union {GroupRow(g, 1) : g \in tok.groups}
    IN  update_account([account |-> db.account, group |-> groups, memberof |-> db.memberof], tok, 1)

set_cache_usertoken(t) ==
    /\ At(t, "store")
    /\ db' = StoreToken(task[t].token)
    /\ CASE task[t].kind = "lookup" -> Done(t) /\ UNCHANGED session
         [] task[t].kind = "init" ->
               /\ task' = [task EXCEPT ![t] = [@ EXCEPT !.pc = "state", !.item = task[t].token, !.token = NoToken, !.how = "none"]]
               /\ UNCHANGED session
         [] task[t].kind = "step" ->
               /\ Done(t)
               /\ session' = [session EXCEPT ![t] = Success]
    /\ UNCHANGED <<nxcache, Provider, World, History>>

-----------------------------------------------------------------------------
InProgress(t, online, asked) ==
    [status |-> "InProgress", name |-> task[t].id, token |-> task[t].item, force |-> task[t].force,
     online |-> online, asked |-> asked]

\* The directory starts an MFA poll, or the provider checks that it is online
\* and asks for a password, or the network is found down.  An error keeps what
\* the connection had before; it is modelled for a forced sign-in only, since
\* after it any other one locks db twice (section online_auth_init_failed of
\* ResolverLocks) and ends there.
unix_user_online_auth_init(t) ==
    /\ At(t, "init_online")
    /\ CallAllowed
    /\ \/ /\ net /\ task[t].force
          /\ UNCHANGED <<session, state>>
       \/ /\ net
          /\ session' = [session EXCEPT ![t] = InProgress(t, TRUE, "MFAPoll")]
          /\ UNCHANGED state
       \/ /\ net
          /\ session' = [session EXCEPT ![t] = InProgress(t, TRUE, "Password")]
          /\ state' = "Online"
       \/ /\ ~net
          /\ session' = [session EXCEPT ![t] = InProgress(t, TRUE, "InitDenied")]
          /\ state' = "Waiting"
    /\ Done(t)
    /\ UNCHANGED <<Cache, refresh_cache, World, History>>

\* Offline only the cached password is left (the Hello PIN is not modelled here).
unix_user_offline_auth_init(t) ==
    /\ At(t, "init_offline")
    /\ session' = [session EXCEPT ![t] =
                      InProgress(t, FALSE, IF SfaFallback \/ Breakglass THEN "Password" ELSE "InitDenied")]
    /\ Done(t)
    /\ UNCHANGED <<Cache, Provider, World, History>>

\* A step that forgets that the session may have no token.
StepPathNoToken(s) ==
    CASE s.online /\ state = "Online" -> "step_online"
      [] OTHER -> IF s.force \/ s.asked # "Password" THEN "refused" ELSE "step_offline"

\* A step that forgets force_reauth.
StepPathUnforced(s) ==
    CASE s.token = NoToken -> "refused"
      [] s.token # NoToken /\ s.online /\ state = "Online" -> "step_online"
      [] OTHER -> IF s.asked # "Password" THEN "refused" ELSE "step_offline"

\* A step is taken online if the session began online and the provider still
\* is.  Without a token, or offline when forced or past the password, it is
\* refused and the session stays as it is.
StepPath(s) ==
    CASE s.token = NoToken -> "refused"
      [] s.token # NoToken /\ s.online /\ state = "Online" -> "step_online"
      [] OTHER -> IF s.force \/ s.asked # "Password" THEN "refused" ELSE "step_offline"

\* The client answers what it was asked.
pam_account_authenticate_step(t) ==
    LET s == session[t]
    IN /\ At(t, "idle")
       /\ s.status = "InProgress" /\ s.asked \in {"Password", "MFAPoll"}
       /\ StepPath(s) # "refused"
       /\ \E cred \in IF s.asked = "Password" THEN Passwords ELSE {NoPassword} :
             task' = [task EXCEPT ![t] = [Start(StepPath(s), "step", s.name, FALSE) EXCEPT !.cred = cred]]
       /\ UNCHANGED <<Cache, Provider, World, History, session>>

\* A user who became a local one is refused, any other one let in.
Release(t, tok, how) ==
    IF tok.name \in nxset \/ tok.gidnumber \in nxset
    THEN task' = [task EXCEPT ![t] = [@ EXCEPT !.pc = "purge", !.token = tok]]
    ELSE ToStore(t, tok, how)

\* The directory has accepted the password.
Accepted(t) ==
    LET n == session[t].name
    IN /\ session[t].asked = "Password" /\ net
       /\ directory[n].exists /\ directory[n].password = task[t].cred
       /\ accepted' = [accepted EXCEPT ![n] = @ \union {task[t].cred}]
       /\ UNCHANGED state

\* It is content with that; the password is kept for the offline mode with
\* offline_breakglass, or if it came to the fallback of enable_sfa_fallback.
OnlinePassword(t) ==
    LET n == session[t].name
    IN /\ Accepted(t)
       /\ \E keep \in {Breakglass, Breakglass \/ SfaFallback} :
             IF keep
             THEN task' = [task EXCEPT ![t] = [@ EXCEPT !.pc = "password", !.token = DirectoryToken(n)]]
             ELSE Release(t, DirectoryToken(n), "online")
       /\ refresh_cache' = refresh_cache \union {n}
       /\ UNCHANGED session

\* Or it asks for a second factor.
AskSecondFactor(t) ==
    /\ Accepted(t)
    /\ IF Breakglass THEN Goto(t, "password") ELSE Done(t)
    /\ session' = [session EXCEPT ![t].asked = "MFAPoll"]
    /\ UNCHANGED refresh_cache

\* The second factor: not yet, or approved.
OnlinePoll(t) ==
    LET n == session[t].name
    IN /\ session[t].asked = "MFAPoll" /\ net
       /\ directory[n].exists
       /\ \/ Done(t) /\ UNCHANGED refresh_cache
          \/ Release(t, DirectoryToken(n), "online") /\ refresh_cache' = refresh_cache \union {n}
       /\ UNCHANGED <<state, session, accepted>>

\* A wrong answer, a user who is gone or a broken network ends the session; an
\* error leaves it as it is.  Only the first password of a console sign-in does
\* not notice that the network is broken.
OnlineFailure(t) ==
    /\ Done(t)
    /\ \/ session' = [session EXCEPT ![t] = Denied]
       \/ net /\ UNCHANGED session
    /\ state' \in IF net THEN {state} ELSE {state, "Waiting"}
    /\ UNCHANGED <<refresh_cache, accepted>>

unix_user_online_auth_step(t) ==
    /\ At(t, "step_online")
    /\ CallAllowed
    /\ OnlinePassword(t) \/ AskSecondFactor(t) \/ OnlinePoll(t) \/ OnlineFailure(t)
    /\ UNCHANGED <<Cache, World, floor>>

\* The password is stored in the row of the token that the step ended with or,
\* when a second factor is still to come, of the token the session began with.
set_cache_userpassword(t) ==
    LET tok == task[t].token
    IN /\ At(t, "password")
       /\ db' = update_account_password(db, IF tok = NoToken THEN session[t].token.uuid ELSE tok.uuid, task[t].cred)
       /\ IF tok = NoToken THEN Done(t) ELSE Release(t, tok, "online")
       /\ UNCHANGED <<nxcache, Provider, World, History, session>>

\* An offline sign-in ends with the token the session began with.
check_cache_userpassword(t) ==
    LET tok == session[t].token
    IN /\ At(t, "step_offline")
       /\ IF check_account_password(db, tok.uuid, task[t].cred)
          THEN Release(t, tok, "offline") /\ UNCHANGED session
          ELSE Done(t) /\ session' = [session EXCEPT ![t] = Denied]
       /\ UNCHANGED <<Cache, Provider, World, History>>

delete_cache_usertoken(t) ==
    /\ At(t, "purge")
    /\ db' = delete_account(db, task[t].token.uuid)
    /\ session' = [session EXCEPT ![t] = Denied]
    /\ Done(t)
    /\ UNCHANGED <<nxcache, Provider, World, History>>

-----------------------------------------------------------------------------
Counted == events < MaxEvents /\ events' = events + 1

\* Requests that finish in one section, from any client.
invalidate ==
    /\ Counted
    /\ db' = invalidate_rows(db)
    /\ nxcache' = [id \in Ids |-> "none"]
    /\ floor' = [n \in Names |-> IF Cached(n) THEN directory[n].rev ELSE floor[n]]
    /\ UNCHANGED <<Provider, Outside, task, session, accepted>>

clear_cache ==
    /\ Counted
    /\ db' = clear_rows(db)
    /\ nxcache' = [id \in Ids |-> "none"]
    /\ UNCHANGED <<Provider, Outside, History, task, session>>

\* /etc/passwd and /etc/group changed: a user of the directory became, or no
\* longer is, a local one.
reload_nxset ==
    /\ Counted
    /\ \E local \in SUBSET Names : nxset' = local \union {gid[n] : n \in local}
    /\ UNCHANGED <<Cache, Provider, net, directory, History, task, session>>

offline_break_glass ==
    /\ Counted
    /\ Breakglass
    /\ state' = "Waiting"
    /\ UNCHANGED <<Cache, refresh_cache, Outside, History, task, session>>

\* Time passes: an entry expires, the next check is due, a PRT reaches its age.
Expire ==
    /\ Counted
    /\ \/ \E r \in db.account :
             /\ r.expiry = 1
             /\ db' = [db EXCEPT !.account = (@ \ {r}) \union {[r EXCEPT !.expiry = 0]}]
             /\ UNCHANGED <<nxcache, Provider>>
       \/ \E id \in Ids :
             /\ nxcache[id] = "fresh"
             /\ nxcache' = [nxcache EXCEPT ![id] = "expired"]
             /\ UNCHANGED <<db, Provider>>
       \/ /\ state = "Waiting"
          /\ state' = "Due"
          /\ UNCHANGED <<Cache, refresh_cache>>
       \/ \E n \in refresh_cache :
             /\ refresh_cache' = refresh_cache \ {n}
             /\ UNCHANGED <<Cache, state>>
    /\ UNCHANGED <<Outside, History, task, session>>

\* The daemon restarts; systemd may have kept the PRTs for it.
Restart ==
    /\ Counted
    /\ nxcache' = [id \in Ids |-> "none"]
    /\ state' = "Due"
    /\ refresh_cache' \in {{}, refresh_cache}
    /\ task' = [t \in Tasks |-> Idle]
    /\ session' = [t \in Tasks |-> NoSession]
    /\ UNCHANGED <<db, Outside, History>>

\* The network fails and recovers; the directory changes an entry.
NetworkChange ==
    /\ Counted
    /\ net' = ~net
    /\ UNCHANGED <<Cache, Provider, nxset, directory, History, task, session>>

DirectoryChange ==
    /\ Counted
    /\ \E n \in Names, e \in BOOLEAN, pw \in Passwords :
          /\ directory[n].rev < MaxRev
          /\ directory' = [directory EXCEPT ![n] = [exists |-> e, rev |-> @.rev + 1, password |-> pw]]
    /\ UNCHANGED <<Cache, Provider, nxset, net, History, task, session>>

Request(t) == get_usertoken(t) \/ pam_account_authenticate_init(t) \/ pam_account_authenticate_step(t)
Lookup(t) ==
    \/ get_cachestate(t) \/ test_connection(t)
    \/ refresh_usertoken(t) \/ UserNotFound(t) \/ set_cache_usertoken(t)
SignIn(t) ==
    \/ unix_user_online_auth_init(t) \/ unix_user_offline_auth_init(t)
    \/ unix_user_online_auth_step(t) \/ set_cache_userpassword(t) \/ check_cache_userpassword(t)
    \/ delete_cache_usertoken(t)

Next ==
    \/ \E t \in Tasks : Request(t) \/ Lookup(t) \/ SignIn(t)
    \/ invalidate \/ clear_cache \/ reload_nxset \/ offline_break_glass
    \/ Expire \/ Restart \/ NetworkChange \/ DirectoryChange

Spec == Init /\ [][Next]_vars

-----------------------------------------------------------------------------
AllTokens ==
    {Token(n, RealUuid[n], rev) : n \in Names, rev \in 1..MaxRev}
      \union {Token(n, f, 0) : n \in Names, f \in FakeUuids}
IsToken(tok) == \E a \in AllTokens, kept \in BOOLEAN : tok = [a EXCEPT !.groups = IF kept THEN @ ELSE {}]

\* None is no token.
ASSUME NoTokenAssumption == ~IsToken(NoToken)

\* Every variable has its type; a task that has a provider outcome to store
\* (refresh_usertoken, pam_account_authenticate_step) has the token for it.
TypeOK ==
    /\ \A r \in db.account : IsToken(r.token) /\ r.password \in Passwords \union {NoPassword} /\ r.expiry \in {0, 1}
    /\ nxcache \in [Ids -> {"none", "fresh", "expired"}]
    /\ nxset \subseteq Ids
    /\ state \in {"Online", "Waiting", "Due"}
    /\ refresh_cache \subseteq Names
    /\ net \in BOOLEAN
    /\ directory \in [Names -> [exists : BOOLEAN, rev : 1..MaxRev, password : Passwords]]
    /\ \A t \in Tasks :
          /\ task[t].pc \in {"store", "purge"} => IsToken(task[t].token)
          /\ task[t].pc \in {"step_online", "step_offline", "password"} =>
                session[t].status = "InProgress" /\ IsToken(session[t].token)

\* A cached user disappears only when the cache is cleared or, as a local user,
\* is refused at the end of a sign-in.  In particular no lookup, outage or error
\* of the directory deletes one: unix_user_get must "never return
\* IdpError::NotFound" for a user it was given a token of.
UserStaysCached ==
    [][\A n \in Names : Cached(n) /\ ~Cached(n)' => clear_cache \/ \E t \in Tasks : delete_cache_usertoken(t)]_vars

SignedIn(t) == session[t].status = "InProgress" /\ session'[t].status = "Success"

\* A user who signs in offline (pam_account_authenticate_step with the cached
\* password) gave a password that the directory once accepted for that user,
\* whatever rows were replaced, refreshed or invalidated in between.
OfflinePasswordWasAccepted ==
    [][\A t \in Tasks : SignedIn(t) /\ task[t].how = "offline" => task[t].cred \in accepted[session[t].name]]_vars

\* A sign-in with force_reauth never succeeds with a cached password, even when
\* the provider goes offline between its steps: "force_reauth requires online
\* auth, refuse offline fallback" in pam_account_authenticate_step.
ReauthOnline ==
    [][\A t \in Tasks : SignedIn(t) /\ session[t].force => task[t].how = "online"]_vars

-----------------------------------------------------------------------------
\* What comments and manual pages promise.

\* What a refresh stores as fresh is not older than the last invalidate: the
\* cache-clear command is documented as "forcing them to refresh immediately
\* when next used", whatever refresh was under way.
InvalidateOutlivesRefresh ==
    [][\A t \in Tasks : set_cache_usertoken(t) /\ task[t].how = "fetched" =>
          task[t].token.rev >= floor[task[t].token.name]]_vars

\* A user with a second factor who was let in online after the directory
\* accepted a password has a password verifier in the cache (himmelblau.conf,
\* offline_breakglass), as long as nobody clears the cache.
VerifierCached ==
    [][\A t \in Tasks : SignedIn(t) /\ session[t].asked = "MFAPoll" /\ accepted[session[t].name] # {} =>
          \E r \in db'.account : r.name = session[t].name /\ r.password # NoPassword]_vars

\* A refresh that ends in "just keep it" (fake_user) keeps the token that is
\* cached when it is stored.
KeptTokenIsCached ==
    [][\A t \in Tasks : set_cache_usertoken(t) /\ task[t].how = "kept" =>
          \A r \in db.account : r.name = task[t].token.name => r.token = task[t].token]_vars

=============================================================================
