---------------------------- MODULE ResolverProofs ----------------------------
(***************************************************************************)
(* The resolver is proved to keep its cached users, to let in offline only *)
(* who gave a password that the directory once accepted for the same user, *)
(* and to let in only online who is forced to sign in anew: for any users, *)
(* connections and passwords, changes of the directory and restarts.       *)
(*                                                                         *)
(* The argument rests on OneUser: whatever is cached, under way or in a    *)
(* session, two tokens with the same uuid belong to the same user.  Rows   *)
(* are found by uuid when a password is stored, kept or checked, so it is  *)
(* what ties a verifier to its user.  The other part of IInv follows a     *)
(* request from one section to the next: whose token it has, and what a    *)
(* step of a sign-in has to show before its token is stored.               *)
(***************************************************************************)
EXTENDS Resolver, TLAPS

\* Most leaves are first-order; those that build records or count say so (SMT).
USE ZenonT(30)

\* The tokens of TypeOK, and what rows, requests and sessions have of them.
Toks == AllTokens \union {[a EXCEPT !.groups = {}] : a \in AllTokens}

\* The object ids of the directory and the uuids that fake_user makes up.
Uuids == {RealUuid[n] : n \in Names} \union FakeUuids

\* account_t: a row has the columns of the token it stores.
Rows == [uuid : Uuids, name : Names, spn : Names, gidnumber : Gids,
         password : Passwords \union {NoPassword}, token : Toks, expiry : {0, 1}]

\* A request under way.
Busy == [pc : {"state", "test", "refresh", "notfound", "store", "init_online", "init_offline",
               "step_online", "step_offline", "password", "purge"},
         kind : {"lookup", "init", "step"}, id : Ids, force : BOOLEAN, expired : BOOLEAN,
         item : Toks \union {NoToken}, token : Toks \union {NoToken},
         cred : Passwords \union {NoPassword}, how : {"none", "fetched", "kept", "faked", "online", "offline"}]

\* AuthSession::InProgress.
Open == [status : {"InProgress"}, name : Names, token : Toks \union {NoToken}, force : BOOLEAN,
         online : BOOLEAN, asked : {"Password", "MFAPoll", "InitDenied"}]

\* What session[t] may be.
Sessions == {NoSession, Denied, Success} \union Open

\* The negative cache, the nxset, the provider and the directory have their types.
WorldTypes ==
    /\ nxcache \in [Ids -> {"none", "fresh", "expired"}]
    /\ nxset \subseteq Ids
    /\ state \in {"Online", "Waiting", "Due"}
    /\ refresh_cache \subseteq Names
    /\ net \in BOOLEAN
    /\ directory \in [Names -> [exists : BOOLEAN, rev : 1..MaxRev, password : Passwords]]

\* Every variable has its type, more exactly than in TypeOK.
Types ==
    /\ db = [account |-> db.account, group |-> db.group, memberof |-> db.memberof]
    /\ db.account \subseteq Rows
    /\ WorldTypes
    /\ task \in [Tasks -> {Idle} \union Busy]
    /\ session \in [Tasks -> Sessions]
    /\ accepted \in [Names -> SUBSET Passwords]

\* The tokens that a row, a request under way or a session has.
Held == {tok \in Toks :
           \/ \E r \in db.account : r.token = tok
           \/ \E t \in Tasks : task[t] \in Busy /\ tok \in {task[t].item, task[t].token}
           \/ \E t \in Tasks : session[t] \in Open /\ tok = session[t].token}

\* A uuid, a made-up one included, belongs to one user.
OneUser == \A a, b \in Held : a.uuid = b.uuid => a.name = b.name

\* A row is the row of its token, and its password was accepted for its user.
RowOK(r, acc) ==
    /\ r.uuid = r.token.uuid /\ r.name = r.token.name /\ r.spn = r.token.spn /\ r.gidnumber = r.token.gidnumber
    /\ r.password # NoPassword => r.password \in acc[r.name]

\* A sign-in x with the session y begins with the token of its own user.
OwnToken(x, y) ==
    /\ y \in Open /\ y.token # NoToken => y.token.name = y.name
    /\ x \in Busy /\ x.kind = "init" =>
          /\ x.id \in Names
          /\ x.item # NoToken => x.item.name = x.id
          /\ x.pc = "store" => x.token.name = x.id

\* Where a request x may be.
Path(x) ==
    x \in Busy =>
        /\ x.pc \in {"step_online", "step_offline", "password", "purge"} => x.kind = "step"
        /\ x.pc \in {"init_online", "init_offline"} => x.kind = "init"
        /\ x.pc \in {"store", "purge"} => x.token \in Toks
        /\ x.pc = "notfound" => x.item = NoToken

\* What a step x of the session y has to show for it, when acc was accepted.
Earned(x, y, acc) ==
    x \in Busy /\ x.kind = "step" =>
        /\ x.pc \in {"step_online", "step_offline", "password", "store", "purge"}
        /\ y \in Open /\ y.token \in Toks
        /\ x.pc = "step_online" => x.token = NoToken
        /\ x.pc = "step_offline" => ~y.force
        /\ x.pc = "password" =>
              /\ x.cred \in acc[y.name]
              /\ x.token # NoToken => x.token \in Toks /\ x.token.uuid = RealUuid[y.name]
        /\ x.pc = "store" =>
              \/ x.how = "online"
              \/ x.how = "offline" /\ ~y.force /\ x.cred \in acc[y.name]

\* A request x with the session y, when acc was accepted.
Sound(x, y, acc) == OwnToken(x, y) /\ Path(x) /\ Earned(x, y, acc)

\* The inductive invariant: a uuid belongs to one user, a stored password was
\* accepted for the user of its row, and every request is sound.
IInv ==
    /\ Types /\ OneUser
    /\ \A r \in db.account : RowOK(r, accepted)
    /\ \A t \in Tasks : Sound(task[t], session[t], accepted)

----------------------------------------------------------------------------
\* The name, the number and the uuid of a token belong together (Token).
LEMMA TokFacts ==
    ASSUME NEW tok \in Toks
    PROVE  /\ tok.name \in Names /\ tok.spn = tok.name /\ tok.gidnumber = gid[tok.name] /\ tok.gidnumber \in Gids
           /\ tok.uuid \in Uuids /\ (tok.uuid = RealUuid[tok.name] \/ tok.uuid \in FakeUuids)
           /\ IsToken(tok)
           /\ tok = [uuid |-> tok.uuid, name |-> tok.name, spn |-> tok.spn, gidnumber |-> tok.gidnumber,
                     groups |-> tok.groups, rev |-> tok.rev]
           /\ tok.groups = {} \/ (tok \in AllTokens /\ tok.groups = {PrimaryGroup(tok.name, tok.uuid)})
           /\ [tok EXCEPT !.groups = {}] \in Toks
<1>1. PICK a \in AllTokens : tok = a \/ tok = [a EXCEPT !.groups = {}]
  BY DEF Toks
<1>2. PICK n \in Names, u \in Uuids, rev \in Nat : a = Token(n, u, rev) /\ (u = RealUuid[n] \/ u \in FakeUuids)
  <2>1. CASE \E n \in Names, rev \in 1..MaxRev : a = Token(n, RealUuid[n], rev)
    BY <2>1, ResolverAssumption, SMT DEF Uuids
  <2>2. CASE \E n \in Names, f \in FakeUuids : a = Token(n, f, 0)
    BY <2>2 DEF Uuids
  <2> QED BY <2>1, <2>2, SMT DEF AllTokens
<1>3. /\ a.name = n /\ a.spn = n /\ a.gidnumber = gid[n] /\ a.uuid = u /\ a.groups = {PrimaryGroup(n, u)} /\ a.rev = rev
      /\ a = [uuid |-> u, name |-> n, spn |-> n, gidnumber |-> gid[n], groups |-> {PrimaryGroup(n, u)}, rev |-> rev]
  BY <1>2 DEF Token
<1> DEFINE b == [a EXCEPT !.groups = {}]
<1>4. /\ b.name = n /\ b.spn = n /\ b.gidnumber = gid[n] /\ b.uuid = u /\ b.groups = {} /\ b.rev = rev
      /\ b = [uuid |-> u, name |-> n, spn |-> n, gidnumber |-> gid[n], groups |-> {}, rev |-> rev]
      /\ [b EXCEPT !.groups = {}] = b
  <2>1. b = [uuid |-> u, name |-> n, spn |-> n, gidnumber |-> gid[n], groups |-> {}, rev |-> rev]
    BY <1>3, SMT
  <2> HIDE DEF b
  <2>2. /\ b.name = n /\ b.spn = n /\ b.gidnumber = gid[n] /\ b.uuid = u /\ b.groups = {} /\ b.rev = rev
    BY <2>1
  <2>3. [b EXCEPT !.groups = {}] = b
    BY <2>1, SMT
  <2> QED BY <2>1, <2>2, <2>3
<1>5. IsToken(a) /\ IsToken(b)
  <2>1. [a EXCEPT !.groups = IF TRUE THEN @ ELSE {}] = a /\ [a EXCEPT !.groups = IF FALSE THEN @ ELSE {}] = b
    BY <1>3
  <2> QED BY <2>1 DEF IsToken
<1>6. gid[n] \in Gids
  BY ResolverAssumption
<1>7. b \in Toks
  BY DEF Toks
<1> HIDE DEF b
<1>8. CASE tok = a
  BY <1>2, <1>3, <1>5, <1>6, <1>7, <1>8 DEF b
<1>9. CASE tok = b
  BY <1>2, <1>4, <1>5, <1>6, <1>7, <1>9
<1> QED BY <1>1, <1>8, <1>9 DEF b

\* A token from the directory has the user's object id.
LEMMA DirectoryTok ==
    ASSUME Types, NEW n \in Names
    PROVE  DirectoryToken(n) \in Toks /\ DirectoryToken(n).name = n /\ DirectoryToken(n).uuid = RealUuid[n]
<1>1. directory[n].rev \in 1..MaxRev
  BY DEF Types, WorldTypes
<1>2. DirectoryToken(n) \in Toks
  BY <1>1, SMT DEF DirectoryToken, Toks, AllTokens
<1> QED BY <1>2 DEF DirectoryToken, Token

\* fake_user: a token with a made-up uuid.
LEMMA FakeTok ==
    ASSUME NEW n \in Names, NEW f \in FakeUuids
    PROVE  Token(n, f, 0) \in Toks /\ Token(n, f, 0).name = n /\ Token(n, f, 0).uuid = f
<1>1. Token(n, f, 0) \in Toks
  BY SMT DEF Toks, AllTokens
<1> QED BY <1>1 DEF Token

\* The filter of refresh_usertoken only takes groups away.
LEMMA FilteredTok ==
    ASSUME NEW tok \in Toks
    PROVE  Filtered(tok) \in Toks /\ Filtered(tok).name = tok.name /\ Filtered(tok).uuid = tok.uuid
<1> DEFINE G == {g \in tok.groups : g.gidnumber \notin nxset /\ g.name \notin nxset}
<1>1. Filtered(tok) = [tok EXCEPT !.groups = G]
  BY DEF Filtered
<1>2. tok = [uuid |-> tok.uuid, name |-> tok.name, spn |-> tok.spn, gidnumber |-> tok.gidnumber,
             groups |-> tok.groups, rev |-> tok.rev]
      /\ [tok EXCEPT !.groups = {}] \in Toks
  BY TokFacts
<1>3. G = {} \/ G = tok.groups
  BY TokFacts
<1> HIDE DEF G
<1>4. [tok EXCEPT !.groups = tok.groups] = tok
  BY <1>2
<1>5. [tok EXCEPT !.groups = G] \in Toks
  BY <1>2, <1>3, <1>4
<1>6. [tok EXCEPT !.groups = G].name = tok.name /\ [tok EXCEPT !.groups = G].uuid = tok.uuid
  BY <1>2
<1> QED BY <1>1, <1>5, <1>6

----------------------------------------------------------------------------
\* Where a token b of the next state is from: the directory, one that was held,
\* or a new uuid f for the user n.
Src(b, f, n) ==
    \/ b.uuid = RealUuid[b.name]
    \/ \E a \in Held : a.uuid = b.uuid /\ a.name = b.name
    \/ b.uuid = f /\ b.name = n /\ f \in FakeUuids \ UuidsInUse

\* The uuid of a held token is in use: Uuid::new_v4 does not return it.
LEMMA HeldInUse ==
    ASSUME IInv, NEW a \in Held
    PROVE  a.uuid \in UuidsInUse
<1>1. a \in Toks
  BY DEF Held
<1>2. ASSUME NEW r \in db.account, r.token = a PROVE a.uuid \in UuidsInUse
  BY <1>2 DEF IInv, RowOK, UuidsInUse
<1>3. ASSUME NEW t \in Tasks, task[t] \in Busy, a \in {task[t].item, task[t].token}
      PROVE  a.uuid \in UuidsInUse
  <2>1. ~At(t, "idle")
    BY <1>3 DEF At, Busy
  <2>2. a # NoToken
    BY <1>1, TokFacts, NoTokenAssumption
  <2> QED BY <1>3, <2>1, <2>2 DEF UuidsInUse
<1>4. ASSUME NEW t \in Tasks, session[t] \in Open, a = session[t].token
      PROVE  a.uuid \in UuidsInUse
  <2>1. session[t].status = "InProgress"
    BY <1>4 DEF Open
  <2>2. a # NoToken
    BY <1>1, TokFacts, NoTokenAssumption
  <2> QED BY <1>4, <2>1, <2>2 DEF UuidsInUse
<1> QED BY <1>2, <1>3, <1>4 DEF Held

\* A step whose tokens all have a source keeps one user per uuid.
LEMMA OneUserKept ==
    ASSUME IInv, NEW f, NEW n, \A b \in Held' : Src(b, f, n)
    PROVE  OneUser'
<1> SUFFICES ASSUME NEW a \in Held', NEW b \in Held', a.uuid = b.uuid
             PROVE  a.name = b.name
  BY DEF OneUser
<1>1. a \in Toks /\ b \in Toks /\ (\A c \in Held : c \in Toks)
  BY DEF Held
<1>2. \A c, d \in Toks : c.uuid = RealUuid[c.name] /\ c.uuid = d.uuid => c.name = d.name
  <2>1. ASSUME NEW c \in Toks, NEW d \in Toks, c.uuid = RealUuid[c.name], c.uuid = d.uuid PROVE c.name = d.name
    <3>1. c.name \in Names /\ d.name \in Names /\ (d.uuid = RealUuid[d.name] \/ d.uuid \in FakeUuids)
      BY TokFacts
    <3> QED BY <2>1, <3>1, ResolverAssumption
  <2> QED BY <2>1
<1>3. \A c, d \in Held : c.uuid = d.uuid => c.name = d.name
  BY DEF IInv, OneUser
<1>4. \A c \in Held : c.uuid \in UuidsInUse
  BY HeldInUse
<1>5. CASE a.uuid = RealUuid[a.name] \/ b.uuid = RealUuid[b.name]
  BY <1>1, <1>2, <1>5
<1>6. CASE a.uuid # RealUuid[a.name] /\ b.uuid # RealUuid[b.name]
  BY <1>3, <1>4, <1>6, SMT DEF Src
<1> QED BY <1>5, <1>6

\* A request stays sound when more passwords are accepted.
LEMMA SoundGrows ==
    ASSUME NEW x, NEW y, NEW acc, NEW bcc, \A m \in Names : acc[m] \subseteq bcc[m], Sound(x, y, acc)
    PROVE  Sound(x, y, bcc)
<1>1. y \in Open => y.name \in Names
  BY DEF Open
<1> QED BY <1>1 DEF Sound, Earned

\* What a step must establish of the rows, of the tokens of a request x with
\* the session y, and of who is let in.
Grows == accepted' \in [Names -> SUBSET Passwords] /\ \A m \in Names : accepted[m] \subseteq accepted'[m]

\* The rows of the next state are in order and their tokens have a source.
RowsFrom(f, n) ==
    /\ db' = [account |-> db'.account, group |-> db'.group, memberof |-> db'.memberof]
    /\ db'.account \subseteq Rows
    /\ \A r \in db'.account : RowOK(r, accepted') /\ Src(r.token, f, n)

\* So do the tokens of the request x and of the session y.
TokensFrom(x, y, f, n) ==
    /\ x \in Busy => \A b \in {x.item, x.token} \intersect Toks : Src(b, f, n)
    /\ y \in Open /\ y.token \in Toks => Src(y.token, f, n)

\* Only the step that stores the token of a sign-in lets a user in.
Entered == \A u \in Tasks : SignedIn(u) => At(u, "store") /\ task[u].kind = "step"

\* No user disappears from the cache.
Kept == \A n \in Names : Cached(n) => Cached(n)'

\* A step is fine when its rows and all requests and sessions are.
LEMMA AnyStep ==
    ASSUME IInv, WorldTypes', Grows, NEW f, NEW n, RowsFrom(f, n),
           task' \in [Tasks -> {Idle} \union Busy], session' \in [Tasks -> Sessions],
           \A u \in Tasks : Sound(task'[u], session'[u], accepted') /\ TokensFrom(task'[u], session'[u], f, n)
    PROVE  IInv'
<1>1. Types'
  BY DEF Types, Grows, RowsFrom
<1>2. ASSUME NEW b \in Held' PROVE Src(b, f, n)
  <2>1. b \in Toks
    BY DEF Held
  <2>2. CASE \E r \in db'.account : r.token = b
    BY <2>2 DEF RowsFrom
  <2>3. CASE \E t \in Tasks : task'[t] \in Busy /\ b \in {task'[t].item, task'[t].token}
    BY <2>1, <2>3 DEF TokensFrom
  <2>4. CASE \E t \in Tasks : session'[t] \in Open /\ b = session'[t].token
    BY <2>1, <2>4 DEF TokensFrom
  <2> QED BY <2>2, <2>3, <2>4 DEF Held
<1>3. OneUser'
  BY <1>2, OneUserKept
<1> QED BY <1>1, <1>3 DEF IInv, RowsFrom

\* The tokens of a request and of a session are held.
LEMMA HeldTokens ==
    ASSUME IInv, NEW u \in Tasks, NEW f, NEW n
    PROVE  TokensFrom(task[u], session[u], f, n)
<1>1. ASSUME NEW b \in Held PROVE Src(b, f, n)
  BY DEF Src
<1>2. ASSUME task[u] \in Busy, NEW b \in {task[u].item, task[u].token} \intersect Toks PROVE b \in Held
  BY <1>2 DEF Held
<1>3. ASSUME session[u] \in Open, session[u].token \in Toks PROVE session[u].token \in Held
  BY <1>3 DEF Held
<1> QED BY <1>1, <1>2, <1>3 DEF TokensFrom

\* A step of one connection t, which becomes x with the session y.
LEMMA OneTask ==
    ASSUME IInv, WorldTypes', Grows, NEW f, NEW n, RowsFrom(f, n),
           NEW t \in Tasks, NEW x \in {Idle} \union Busy, NEW y \in Sessions,
           task' = [task EXCEPT ![t] = x], session' = [session EXCEPT ![t] = y],
           Sound(x, y, accepted'), TokensFrom(x, y, f, n)
    PROVE  /\ IInv'
           /\ y = session[t] \/ y.status # "Success" \/ (At(t, "store") /\ task[t].kind = "step") => Entered
<1>1. task \in [Tasks -> {Idle} \union Busy] /\ session \in [Tasks -> Sessions]
  BY DEF IInv, Types
<1>2. task' \in [Tasks -> {Idle} \union Busy] /\ session' \in [Tasks -> Sessions]
  BY <1>1
<1>3. task'[t] = x /\ session'[t] = y
  BY <1>1
<1>4. \A u \in Tasks \ {t} : task'[u] = task[u] /\ session'[u] = session[u]
  BY <1>1
<1>5. ASSUME NEW u \in Tasks
      PROVE  Sound(task'[u], session'[u], accepted') /\ TokensFrom(task'[u], session'[u], f, n)
  <2>1. Sound(task[u], session[u], accepted)
    BY DEF IInv
  <2>2. Sound(task[u], session[u], accepted')
    BY <2>1, SoundGrows DEF Grows
  <2>3. TokensFrom(task[u], session[u], f, n)
    BY HeldTokens
  <2> QED BY <1>3, <1>4, <2>2, <2>3
<1>6. IInv'
  BY <1>2, <1>5, AnyStep
<1>7. \A u \in Tasks : SignedIn(u) => session[u].status = "InProgress" /\ session'[u].status = "Success"
  BY DEF SignedIn
<1>8. ASSUME y = session[t] \/ y.status # "Success" \/ (At(t, "store") /\ task[t].kind = "step")
      PROVE  Entered
  BY <1>3, <1>4, <1>7, <1>8 DEF Entered
<1> QED BY <1>6, <1>8

\* A step of no connection.
LEMMA NoTask ==
    ASSUME IInv, WorldTypes', NEW f, NEW n, RowsFrom(f, n), UNCHANGED <<task, session, accepted>>
    PROVE  IInv' /\ Entered
<1>1. Grows /\ task' \in [Tasks -> {Idle} \union Busy] /\ session' \in [Tasks -> Sessions]
  BY DEF IInv, Types, Grows
<1>2. \A u \in Tasks : Sound(task'[u], session'[u], accepted') /\ TokensFrom(task'[u], session'[u], f, n)
  BY HeldTokens DEF IInv
<1>3. IInv'
  BY <1>1, <1>2, AnyStep
<1>4. \A u \in Tasks : SignedIn(u) => FALSE
  BY DEF SignedIn
<1> QED BY <1>3, <1>4 DEF Entered

\* The rows are the same.
LEMMA SameRows ==
    ASSUME IInv, db' = db, Grows
    PROVE  (\A f, n : RowsFrom(f, n)) /\ Kept
<1>1. db = [account |-> db.account, group |-> db.group, memberof |-> db.memberof] /\ db.account \subseteq Rows
  BY DEF IInv, Types
<1>2. ASSUME NEW r \in db.account, NEW f, NEW n PROVE RowOK(r, accepted') /\ Src(r.token, f, n)
  <2>1. r.name \in Names /\ r.token \in Toks
    BY <1>1 DEF Rows
  <2>2. r.token \in Held
    BY <2>1 DEF Held
  <2> QED BY <2>1, <2>2 DEF IInv, RowOK, Src, Grows
<1> QED BY <1>1, <1>2 DEF Cached, Kept, RowsFrom

----------------------------------------------------------------------------
\* What the statements of db.rs do to the rows.
LEMMA RowFacts ==
    ASSUME IInv, NEW r \in db.account
    PROVE  /\ r \in Rows /\ r.name \in Names /\ r.token \in Toks /\ r.token \in Held /\ RowOK(r, accepted)
           /\ r.gidnumber = gid[r.name] /\ r.spn = r.name /\ r.uuid = r.token.uuid /\ r.name = r.token.name
<1>1. r \in Rows /\ RowOK(r, accepted)
  BY DEF IInv, Types
<1>2. r.name \in Names /\ r.token \in Toks
  BY <1>1 DEF Rows
<1>3. r.token \in Held
  BY <1>2 DEF Held
<1>4. r.token.spn = r.token.name /\ r.token.gidnumber = gid[r.token.name]
  BY <1>2, TokFacts
<1> QED BY <1>1, <1>2, <1>3, <1>4 DEF RowOK

\* A new password or expiry leaves a row's user and token alone.
LEMMA RowExcept ==
    ASSUME NEW r \in Rows, NEW pw \in Passwords \union {NoPassword}
    PROVE  /\ [r EXCEPT !.password = pw] \in Rows /\ [r EXCEPT !.expiry = 0] \in Rows
           /\ \A s \in {[r EXCEPT !.password = pw], [r EXCEPT !.expiry = 0]} :
                 s.uuid = r.uuid /\ s.name = r.name /\ s.spn = r.spn /\ s.gidnumber = r.gidnumber /\ s.token = r.token
           /\ [r EXCEPT !.password = pw].password = pw /\ [r EXCEPT !.expiry = 0].password = r.password
<1>1. r = [uuid |-> r.uuid, name |-> r.name, spn |-> r.spn, gidnumber |-> r.gidnumber,
           password |-> r.password, token |-> r.token, expiry |-> r.expiry]
  BY DEF Rows
<1>2. [r EXCEPT !.password = pw] \in Rows /\ [r EXCEPT !.expiry = 0] \in Rows
  BY DEF Rows
<1>3. [r EXCEPT !.password = pw].password = pw /\ [r EXCEPT !.expiry = 0].password = r.password
  BY <1>1
<1>4. ASSUME NEW s \in {[r EXCEPT !.password = pw], [r EXCEPT !.expiry = 0]}
      PROVE  s.uuid = r.uuid /\ s.name = r.name /\ s.spn = r.spn /\ s.gidnumber = r.gidnumber /\ s.token = r.token
  <2>1. CASE s = [r EXCEPT !.password = pw]
    BY <1>1, <2>1
  <2>2. CASE s = [r EXCEPT !.expiry = 0]
    BY <1>1, <2>2
  <2> QED BY <2>1, <2>2
<1> QED BY <1>2, <1>3, <1>4

\* Rows that come from rows with the same user and token.
LEMMA OldRows ==
    ASSUME IInv, accepted' = accepted, NEW A, NEW G, NEW M,
           db' = [account |-> A, group |-> G, memberof |-> M],
           \A s \in A : s \in Rows /\ \E r \in db.account :
               /\ s.uuid = r.uuid /\ s.name = r.name /\ s.spn = r.spn /\ s.gidnumber = r.gidnumber /\ s.token = r.token
               /\ s.password = r.password \/ s.password \in accepted[r.name]
    PROVE  \A f, n : RowsFrom(f, n)
<1> SUFFICES ASSUME NEW f, NEW n PROVE RowsFrom(f, n)
  OBVIOUS
<1>1. db'.account = A /\ db'.group = G /\ db'.memberof = M
  OBVIOUS
<1>2. ASSUME NEW s \in A PROVE RowOK(s, accepted') /\ Src(s.token, f, n)
  <2>1. PICK r \in db.account :
               /\ s.uuid = r.uuid /\ s.name = r.name /\ s.spn = r.spn /\ s.gidnumber = r.gidnumber /\ s.token = r.token
               /\ s.password = r.password \/ s.password \in accepted[r.name]
    OBVIOUS
  <2>2. RowOK(r, accepted) /\ r.token \in Held
    BY RowFacts
  <2> QED BY <2>1, <2>2 DEF RowOK, Src
<1> QED BY <1>1, <1>2 DEF RowsFrom

\* delete_account only takes rows away.
LEMMA DeletedRows ==
    ASSUME IInv, accepted' = accepted, NEW u, db' = delete_account(db, u)
    PROVE  \A f, n : RowsFrom(f, n)
<1> DEFINE A == {r \in db.account : r.uuid # u}
           M == {m \in db.memberof : m.a_uuid # u}
<1>1. db' = [account |-> A, group |-> db.group, memberof |-> M]
  BY DEF delete_account
<1>2. \A s \in A : s \in Rows /\ s \in db.account
  BY RowFacts
<1> HIDE DEF A, M
<1> QED BY <1>1, <1>2, OldRows

\* clear leaves no row.
LEMMA ClearedRows ==
    ASSUME IInv, accepted' = accepted, db' = clear_rows(db)
    PROVE  \A f, n : RowsFrom(f, n)
<1>1. db' = [account |-> {}, group |-> {}, memberof |-> {}]
  BY DEF clear_rows
<1> QED BY <1>1, OldRows, SMT

\* invalidate expires every row and deletes none.
LEMMA InvalidatedRows ==
    ASSUME IInv, accepted' = accepted, db' = invalidate_rows(db)
    PROVE  (\A f, n : RowsFrom(f, n)) /\ Kept
<1> DEFINE S(r) == [r EXCEPT !.expiry = 0]
           A == {S(r) : r \in db.account}
           G == {S(r) : r \in db.group}
<1>1. db' = [account |-> A, group |-> G, memberof |-> db.memberof]
  BY DEF invalidate_rows
<1>2. ASSUME NEW r \in db.account
      PROVE  /\ S(r) \in Rows /\ S(r).uuid = r.uuid /\ S(r).name = r.name /\ S(r).spn = r.spn
             /\ S(r).gidnumber = r.gidnumber /\ S(r).token = r.token /\ S(r).password = r.password
  BY RowFacts, RowExcept
<1> HIDE DEF S
<1>3. \A s \in A : s \in Rows /\ \E r \in db.account :
               /\ s.uuid = r.uuid /\ s.name = r.name /\ s.spn = r.spn /\ s.gidnumber = r.gidnumber /\ s.token = r.token
               /\ s.password = r.password \/ s.password \in accepted[r.name]
  BY <1>2, SMT
<1>4. \A r \in db.account : \E s \in A : s.name = r.name
  BY <1>2
<1> HIDE DEF A, G
<1>5. Kept
  BY <1>1, <1>4, SMT DEF Kept, Cached
<1>6. \A f, n : RowsFrom(f, n)
  BY <1>1, <1>3, OldRows, SMT
<1> QED BY <1>5, <1>6

\* A row that expires stays in the table.
LEMMA ExpiredRow ==
    ASSUME IInv, accepted' = accepted, NEW q \in db.account,
           db' = [account |-> (db.account \ {q}) \union {[q EXCEPT !.expiry = 0]},
                  group |-> db.group, memberof |-> db.memberof]
    PROVE  (\A f, n : RowsFrom(f, n)) /\ Kept
<1> DEFINE p == [q EXCEPT !.expiry = 0]
           A == (db.account \ {q}) \union {p}
<1>1. db' = [account |-> A, group |-> db.group, memberof |-> db.memberof]
  OBVIOUS
<1>2. p \in Rows /\ p.uuid = q.uuid /\ p.name = q.name /\ p.spn = q.spn /\ p.gidnumber = q.gidnumber
        /\ p.token = q.token /\ p.password = q.password
  BY RowFacts, RowExcept
<1> HIDE DEF p
<1>3. \A s \in A : s \in Rows /\ \E r \in db.account :
               /\ s.uuid = r.uuid /\ s.name = r.name /\ s.spn = r.spn /\ s.gidnumber = r.gidnumber /\ s.token = r.token
               /\ s.password = r.password \/ s.password \in accepted[r.name]
  BY <1>2, RowFacts
<1>4. \A r \in db.account : \E s \in A : s.name = r.name
  BY <1>2
<1> HIDE DEF A
<1>5. Kept
  BY <1>1, <1>4, SMT DEF Kept, Cached
<1>6. \A f, n : RowsFrom(f, n)
  BY <1>1, <1>3, OldRows, SMT
<1> QED BY <1>5, <1>6

\* update_account_password is fine when the rows of the uuid belong to a user
\* whose password was accepted.
LEMMA PasswordRows ==
    ASSUME IInv, accepted' = accepted, NEW u, NEW pw \in Passwords \union {NoPassword},
           \A r \in db.account : r.uuid = u => pw \in accepted[r.name],
           db' = update_account_password(db, u, pw)
    PROVE  (\A f, n : RowsFrom(f, n)) /\ Kept
<1> DEFINE S(r) == IF r.uuid = u THEN [r EXCEPT !.password = pw] ELSE r
           A == {S(r) : r \in db.account}
<1>1. db' = [account |-> A, group |-> db.group, memberof |-> db.memberof]
  BY DEF update_account_password
<1>2. ASSUME NEW r \in db.account
      PROVE  /\ S(r) \in Rows /\ S(r).uuid = r.uuid /\ S(r).name = r.name /\ S(r).spn = r.spn
             /\ S(r).gidnumber = r.gidnumber /\ S(r).token = r.token
             /\ S(r).password = r.password \/ S(r).password \in accepted[r.name]
  BY RowFacts, RowExcept
<1>3. \A s \in A : s \in Rows /\ \E r \in db.account :
               /\ s.uuid = r.uuid /\ s.name = r.name /\ s.spn = r.spn /\ s.gidnumber = r.gidnumber /\ s.token = r.token
               /\ s.password = r.password \/ s.password \in accepted[r.name]
  <2> HIDE DEF S
  <2> QED BY <1>2, SMT
<1>4. \A r \in db.account : \E s \in A : s.name = r.name
  <2> HIDE DEF S
  <2> QED BY <1>2
<1> HIDE DEF A
<1>5. Kept
  BY <1>1, <1>4, SMT DEF Kept, Cached
<1> QED BY <1>1, <1>3, <1>5, OldRows, SMT

\* update_account: the rows it replaces belong to the user of the token, so the
\* verifier it keeps is that user's, and every user who was cached still is.
LEMMA StoredRows ==
    ASSUME IInv, accepted' = accepted, NEW tok \in Held, db' = StoreToken(tok)
    PROVE  (\A f, n : RowsFrom(f, n)) /\ Kept
<1> DEFINE groups == {r \in db.group : \A g \in tok.groups : r.uuid # g.uuid /\ ~Clash(r, g)}
                       \union {GroupRow(g, 1) : g \in tok.groups}
           dbg == [account |-> db.account, group |-> groups, memberof |-> db.memberof]
           A == UpsertAccount(db.account, tok, 1)
           M == SetMemberships(db.memberof, tok)
           Same(r) == r.uuid = tok.uuid \/ Clash(r, tok)
<1>1. db' = [account |-> A, group |-> groups, memberof |-> M]
  <2>1. db' = update_account(dbg, tok, 1)
    BY DEF StoreToken
  <2> HIDE DEF groups
  <2>2. dbg.account = db.account /\ dbg.group = groups /\ dbg.memberof = db.memberof
    OBVIOUS
  <2> HIDE DEF dbg
  <2> QED BY <2>1, <2>2 DEF update_account
<1>2. tok \in Toks
  BY DEF Held
<1>3. ASSUME NEW r \in db.account, Same(r) PROVE r.name = tok.name
  <2>1. /\ tok.name \in Names /\ tok.spn = tok.name /\ tok.gidnumber = gid[tok.name]
    BY <1>2, TokFacts
  <2>2. r.name \in Names /\ r.spn = r.name /\ r.gidnumber = gid[r.name] /\ r.token \in Held /\ r.uuid = r.token.uuid
          /\ r.name = r.token.name
    BY RowFacts
  <2>3. CASE r.uuid = tok.uuid
    BY <2>2, <2>3 DEF IInv, OneUser
  <2>4. CASE Clash(r, tok)
    BY <2>1, <2>2, <2>4, ResolverAssumption DEF Clash
  <2> QED BY <1>3, <2>3, <2>4
<1>4. ASSUME NEW pw \in Passwords \union {NoPassword}
      PROVE  LET s == AccountRow(tok, pw, 1)
             IN  /\ s \in Rows /\ s.uuid = tok.uuid /\ s.name = tok.name /\ s.spn = tok.spn
                 /\ s.gidnumber = tok.gidnumber /\ s.token = tok /\ s.password = pw
  <2>1. tok.uuid \in Uuids /\ tok.name \in Names /\ tok.spn \in Names /\ tok.gidnumber \in Gids
    BY <1>2, TokFacts
  <2> QED BY <1>2, <2>1 DEF AccountRow, Rows
<1>5. ASSUME NEW s \in A
      PROVE  \/ s \in db.account
             \/ \E pw \in Passwords \union {NoPassword} :
                   /\ s = AccountRow(tok, pw, 1)
                   /\ pw # NoPassword => \E r \in db.account : r.uuid = tok.uuid /\ r.password = pw
  <2>1. \A r \in db.account : r.password \in Passwords \union {NoPassword}
    BY RowFacts DEF Rows
  <2> QED BY <2>1 DEF UpsertAccount
<1>6. ASSUME NEW r \in db.account PROVE \E s \in A : s.name = r.name
  <2>1. CASE ~Same(r)
    BY <2>1 DEF UpsertAccount
  <2>2. CASE Same(r)
    <3>1. r.name = tok.name
      BY <1>3, <2>2
    <3>2. \E pw \in Passwords \union {NoPassword} : AccountRow(tok, pw, 1) \in A
      <4>1. \A q \in db.account : q.password \in Passwords \union {NoPassword}
        BY RowFacts DEF Rows
      <4> QED BY <4>1, SMT DEF UpsertAccount
    <3> QED BY <1>4, <3>1, <3>2, SMT
  <2> QED BY <2>1, <2>2
<1>7. ASSUME NEW s \in A, NEW f, NEW n PROVE s \in Rows /\ RowOK(s, accepted') /\ Src(s.token, f, n)
  <2>1. CASE s \in db.account
    BY <2>1, RowFacts DEF Src
  <2>2. ASSUME NEW pw \in Passwords \union {NoPassword}, s = AccountRow(tok, pw, 1),
               pw # NoPassword => \E r \in db.account : r.uuid = tok.uuid /\ r.password = pw
        PROVE  s \in Rows /\ RowOK(s, accepted') /\ Src(s.token, f, n)
    <3>1. s \in Rows /\ s.uuid = tok.uuid /\ s.name = tok.name /\ s.spn = tok.spn
             /\ s.gidnumber = tok.gidnumber /\ s.token = tok /\ s.password = pw
      BY <1>4, <2>2
    <3>2. pw # NoPassword => pw \in accepted[tok.name]
      BY <1>3, <2>2, RowFacts DEF RowOK
    <3> QED BY <3>1, <3>2 DEF RowOK, Src
  <2> QED BY <1>5, <2>1, <2>2
<1> HIDE DEF A, M, groups
<1>8. db'.account = A /\ db' = [account |-> db'.account, group |-> db'.group, memberof |-> db'.memberof]
  BY <1>1, SMT
<1> QED BY <1>6, <1>7, <1>8 DEF RowsFrom, Kept, Cached

----------------------------------------------------------------------------
\* Requests and sessions as records.
Pcs == {"state", "test", "refresh", "notfound", "store", "init_online", "init_offline",
        "step_online", "step_offline", "password", "purge"}

\* A lookup, the first call of a sign-in, or a later one.
Kinds == {"lookup", "init", "step"}

\* How a request came by the token it stores.
Hows == {"none", "fetched", "kept", "faked", "online", "offline"}

\* A request as a record.
Req(pc, kind, id, force, expired, item, token, cred, how) ==
    [pc |-> pc, kind |-> kind, id |-> id, force |-> force, expired |-> expired,
     item |-> item, token |-> token, cred |-> cred, how |-> how]

\* A request under way is a record of its fields and is not idle.
LEMMA BusyFacts ==
    ASSUME NEW x \in Busy
    PROVE  /\ x = Req(x.pc, x.kind, x.id, x.force, x.expired, x.item, x.token, x.cred, x.how)
           /\ x.pc \in Pcs /\ x.kind \in Kinds /\ x.id \in Ids /\ x.force \in BOOLEAN /\ x.expired \in BOOLEAN
           /\ x.item \in Toks \union {NoToken} /\ x.token \in Toks \union {NoToken}
           /\ x.cred \in Passwords \union {NoPassword} /\ x.how \in Hows
           /\ x.pc # "idle" /\ x # Idle
<1>1. x = Req(x.pc, x.kind, x.id, x.force, x.expired, x.item, x.token, x.cred, x.how)
  BY DEF Req, Busy
<1>2. x.pc \in Pcs /\ x.kind \in Kinds /\ x.how \in Hows
  BY DEF Busy, Pcs, Kinds, Hows
<1>3. /\ x.id \in Ids /\ x.force \in BOOLEAN /\ x.expired \in BOOLEAN
      /\ x.item \in Toks \union {NoToken} /\ x.token \in Toks \union {NoToken}
      /\ x.cred \in Passwords \union {NoPassword}
  BY DEF Busy
<1>4. x.pc # "idle" /\ x # Idle
  BY <1>2, SMT DEF Pcs, Idle
<1> QED BY <1>1, <1>2, <1>3, <1>4

\* The changes that steps make to a request.
LEMMA ReqPc ==
    ASSUME NEW x \in Busy, NEW p
    PROVE  [x EXCEPT !.pc = p] =
               Req(p, x.kind, x.id, x.force, x.expired, x.item, x.token, x.cred, x.how)
<1>0. x = Req(x.pc, x.kind, x.id, x.force, x.expired, x.item, x.token, x.cred, x.how)
  BY BusyFacts
<1> DEFINE a == [x EXCEPT !.pc = p]
<1>1. a = Req(p, x.kind, x.id, x.force, x.expired, x.item, x.token, x.cred, x.how)
  BY <1>0, SMT DEF Req
<1> HIDE DEF a
<1> QED BY <1>1 DEF a

\* get_cachestate changes the pc and resets a flag.
LEMMA ReqState ==
    ASSUME NEW x \in Busy, NEW p, NEW e
    PROVE  [[x EXCEPT !.pc = p] EXCEPT !.expired = e] =
               Req(p, x.kind, x.id, x.force, e, x.item, x.token, x.cred, x.how)
<1>0. x = Req(x.pc, x.kind, x.id, x.force, x.expired, x.item, x.token, x.cred, x.how)
  BY BusyFacts
<1> DEFINE a == [x EXCEPT !.pc = p]
<1>1. a = Req(p, x.kind, x.id, x.force, x.expired, x.item, x.token, x.cred, x.how)
  BY <1>0, SMT DEF Req
<1> HIDE DEF a
<1> DEFINE b == [a EXCEPT !.expired = e]
<1>2. b = Req(p, x.kind, x.id, x.force, e, x.item, x.token, x.cred, x.how)
  BY <1>1, SMT DEF Req
<1> HIDE DEF b
<1> QED BY <1>2 DEF a, b

\* A provider's answer changes the pc and the token.
LEMMA ReqToken ==
    ASSUME NEW x \in Busy, NEW p, NEW k
    PROVE  [[x EXCEPT !.pc = p] EXCEPT !.token = k] =
               Req(p, x.kind, x.id, x.force, x.expired, x.item, k, x.cred, x.how)
<1>0. x = Req(x.pc, x.kind, x.id, x.force, x.expired, x.item, x.token, x.cred, x.how)
  BY BusyFacts
<1> DEFINE a == [x EXCEPT !.pc = p]
<1>1. a = Req(p, x.kind, x.id, x.force, x.expired, x.item, x.token, x.cred, x.how)
  BY <1>0, SMT DEF Req
<1> HIDE DEF a
<1> DEFINE b == [a EXCEPT !.token = k]
<1>2. b = Req(p, x.kind, x.id, x.force, x.expired, x.item, k, x.cred, x.how)
  BY <1>1, SMT DEF Req
<1> HIDE DEF b
<1> QED BY <1>2 DEF a, b

\* A request starts with what is cached.
LEMMA StartItem ==
    ASSUME NEW pc, NEW kind, NEW id, NEW forced, NEW i
    PROVE  [Start(pc, kind, id, forced) EXCEPT !.item = i] =
               Req(pc, kind, id, forced, FALSE, i, NoToken, NoPassword, "none")
<1> DEFINE x == Start(pc, kind, id, forced)
           no == FALSE
<1>1. x = Req(pc, kind, id, forced, no, NoToken, NoToken, NoPassword, "none")
  BY DEF Start, Req
<1> HIDE DEF x, no
<1>2. [x EXCEPT !.item = i] = Req(pc, kind, id, forced, no, i, NoToken, NoPassword, "none")
  BY <1>1, SMT DEF Req
<1> QED BY <1>2 DEF x, no

\* A step starts with a credential.
LEMMA StartCred ==
    ASSUME NEW pc, NEW kind, NEW id, NEW forced, NEW c
    PROVE  [Start(pc, kind, id, forced) EXCEPT !.cred = c] =
               Req(pc, kind, id, forced, FALSE, NoToken, NoToken, c, "none")
<1> DEFINE x == Start(pc, kind, id, forced)
           no == FALSE
<1>1. x = Req(pc, kind, id, forced, no, NoToken, NoToken, NoPassword, "none")
  BY DEF Start, Req
<1> HIDE DEF x, no
<1>2. [x EXCEPT !.cred = c] = Req(pc, kind, id, forced, no, NoToken, NoToken, c, "none")
  BY <1>1, SMT DEF Req
<1> QED BY <1>2 DEF x, no

\* A session is open exactly when it is in progress; asking for the second
\* factor changes nothing else of it.
LEMMA SessionFacts ==
    ASSUME NEW y \in Sessions
    PROVE  /\ y \in Open <=> y.status = "InProgress"
           /\ y \in Open => /\ y.name \in Names /\ y.token \in Toks \union {NoToken} /\ y.force \in BOOLEAN
                            /\ y.online \in BOOLEAN /\ y.asked \in {"Password", "MFAPoll", "InitDenied"}
                            /\ [y EXCEPT !.asked = "MFAPoll"] \in Open
                            /\ [y EXCEPT !.asked = "MFAPoll"].name = y.name
                            /\ [y EXCEPT !.asked = "MFAPoll"].token = y.token
                            /\ [y EXCEPT !.asked = "MFAPoll"].force = y.force
<1>1. y \in Open <=> y.status = "InProgress"
  BY SMT DEF Sessions, Open, NoSession, Denied, Success
<1>2. y \in Open => /\ y.name \in Names /\ y.token \in Toks \union {NoToken} /\ y.force \in BOOLEAN
                    /\ y.online \in BOOLEAN /\ y.asked \in {"Password", "MFAPoll", "InitDenied"}
  BY DEF Open
<1>3. ASSUME y \in Open
      PROVE  /\ [y EXCEPT !.asked = "MFAPoll"] \in Open
             /\ [y EXCEPT !.asked = "MFAPoll"].name = y.name
             /\ [y EXCEPT !.asked = "MFAPoll"].token = y.token
             /\ [y EXCEPT !.asked = "MFAPoll"].force = y.force
  <2>1. y = [status |-> y.status, name |-> y.name, token |-> y.token, force |-> y.force, online |-> y.online, asked |-> y.asked]
    BY <1>3 DEF Open
  <2>2. [y EXCEPT !.asked = "MFAPoll"] \in Open
    BY <1>3 DEF Open
  <2>3. [y EXCEPT !.asked = "MFAPoll"].name = y.name /\ [y EXCEPT !.asked = "MFAPoll"].token = y.token
          /\ [y EXCEPT !.asked = "MFAPoll"].force = y.force
    BY <2>1
  <2> QED BY <2>2, <2>3
<1> QED BY <1>1, <1>2, <1>3

\* No session, a refused one and a successful one are not open.
LEMMA ClosedSessions ==
    /\ Denied \in Sessions /\ Success \in Sessions /\ NoSession \in Sessions
    /\ Denied \notin Open /\ Success \notin Open /\ NoSession \notin Open
    /\ Denied.status = "Denied" /\ Success.status = "Success" /\ NoSession.status = "None"
BY DEF Sessions, Open, Denied, Success, NoSession

\* An idle connection is sound if its session has the token of its own user.
LEMMA IdleSound ==
    ASSUME NEW y, y \in Open /\ y.token # NoToken => y.token.name = y.name
    PROVE  Idle \notin Busy /\ \A acc : Sound(Idle, y, acc)
<1>1. Idle \notin Busy
  BY BusyFacts
<1> QED BY <1>1 DEF Sound, OwnToken, Path, Earned

\* A connection and its session.
LEMMA TaskFacts ==
    ASSUME IInv, NEW t \in Tasks
    PROVE  /\ task[t] \in {Idle} \union Busy /\ (task[t] \in Busy <=> ~At(t, "idle"))
           /\ session[t] \in Sessions /\ Sound(task[t], session[t], accepted)
           /\ task = [task EXCEPT ![t] = task[t]] /\ session = [session EXCEPT ![t] = session[t]]
           /\ task[t] \in Busy => /\ task[t].item # NoToken => task[t].item \in Held
                                  /\ task[t].token # NoToken => task[t].token \in Held
           /\ session[t] \in Open /\ session[t].token # NoToken => session[t].token \in Held
           /\ session[t] \in Open /\ session[t].token # NoToken => session[t].token.name = session[t].name
<1>1. task[t] \in {Idle} \union Busy /\ session[t] \in Sessions /\ Sound(task[t], session[t], accepted)
  BY DEF IInv, Types
<1>2. task[t] \in Busy <=> ~At(t, "idle")
  BY <1>1, BusyFacts, SMT DEF At, Idle
<1>3. task = [task EXCEPT ![t] = task[t]] /\ session = [session EXCEPT ![t] = session[t]]
  BY DEF IInv, Types
<1>4. task[t] \in Busy => /\ task[t].item # NoToken => task[t].item \in Held
                          /\ task[t].token # NoToken => task[t].token \in Held
  BY BusyFacts DEF Held
<1>5. session[t] \in Open /\ session[t].token # NoToken => session[t].token \in Held
  BY <1>1, SessionFacts DEF Held
<1> QED BY <1>1, <1>2, <1>3, <1>4, <1>5 DEF Sound, OwnToken

\* A step of one connection that leaves the cache alone.
LEMMA QuietTask ==
    ASSUME IInv, WorldTypes', UNCHANGED <<db, accepted>>, NEW f, NEW n,
           NEW t \in Tasks, NEW x \in {Idle} \union Busy, NEW y \in Sessions,
           task' = [task EXCEPT ![t] = x], session' = [session EXCEPT ![t] = y],
           Sound(x, y, accepted), TokensFrom(x, y, f, n), y = session[t] \/ y.status # "Success"
    PROVE  IInv' /\ Entered /\ Kept
<1>1. Grows
  BY DEF Grows, IInv, Types
<1>2. RowsFrom(f, n) /\ Kept
  BY <1>1, SameRows
<1>3. Sound(x, y, accepted')
  OBVIOUS
<1> QED BY <1>1, <1>2, <1>3, OneTask

\* CacheState of the provider.
States == {"Online", "Waiting", "Due"}

\* Types of what a step changes besides the cache, the requests and the sessions.
LEMMA WorldKept ==
    ASSUME IInv, UNCHANGED <<nxset, net, directory>>, nxcache' \in [Ids -> {"none", "fresh", "expired"}],
           state' \in States, refresh_cache' \subseteq Names
    PROVE  WorldTypes'
BY DEF IInv, Types, WorldTypes, States

\* What IInv says of the variables that are not per connection.
LEMMA WorldFacts ==
    ASSUME IInv
    PROVE  /\ nxcache \in [Ids -> {"none", "fresh", "expired"}] /\ state \in States /\ refresh_cache \subseteq Names
           /\ nxset \subseteq Ids /\ net \in BOOLEAN /\ WorldTypes /\ NoToken \notin Toks
           /\ \A a \in Held : a \in Toks
BY TokFacts, NoTokenAssumption DEF IInv, Types, WorldTypes, States, Held

\* A step with tokens that were there before.
LEMMA HeldTask ==
    ASSUME IInv, WorldTypes', UNCHANGED <<db, accepted>>,
           NEW t \in Tasks, NEW x \in {Idle} \union Busy, NEW y \in Sessions,
           task' = [task EXCEPT ![t] = x], session' = [session EXCEPT ![t] = y],
           x \in Busy => x.item \in Held \union {NoToken} /\ x.token \in Held \union {NoToken},
           y \in Open => y.token \in Held \union {NoToken},
           Sound(x, y, accepted), y = session[t] \/ y.status # "Success"
    PROVE  IInv' /\ Entered /\ Kept
<1>1. \A a \in Held : Src(a, NoToken, NoToken)
  BY DEF Src
<1>2. TokensFrom(x, y, NoToken, NoToken)
  BY <1>1, WorldFacts DEF TokensFrom
<1> QED BY <1>2, QuietTask

\* A request ends.
LEMMA DoneTask ==
    ASSUME IInv, WorldTypes', UNCHANGED <<db, accepted>>, NEW t \in Tasks, NEW y \in Sessions,
           Done(t), session' = [session EXCEPT ![t] = y],
           y \in Open => y.token \in Held \union {NoToken} /\ (y.token # NoToken => y.token.name = y.name),
           y = session[t] \/ y.status # "Success"
    PROVE  IInv' /\ Entered /\ Kept
<1>1. Idle \notin Busy /\ Sound(Idle, y, accepted)
  BY IdleSound
<1>2. task' = [task EXCEPT ![t] = Idle]
  BY DEF Done
<1> QED BY <1>1, <1>2, HeldTask

\* A request ends and leaves the session as it is.
LEMMA QuietEnd ==
    ASSUME IInv, WorldTypes', UNCHANGED <<db, accepted, session>>, NEW t \in Tasks, Done(t)
    PROVE  IInv' /\ Entered /\ Kept
<1>1. /\ session[t] \in Sessions /\ session' = [session EXCEPT ![t] = session[t]]
      /\ session[t] \in Open /\ session[t].token # NoToken => session[t].token \in Held
      /\ session[t] \in Open /\ session[t].token # NoToken => session[t].token.name = session[t].name
  BY TaskFacts
<1>2. session[t] \in Open => session[t].token \in Held \union {NoToken}
  BY <1>1
<1> QED BY <1>1, <1>2, DoneTask

\* A request ends and the session is refused.
LEMMA DeniedEnd ==
    ASSUME IInv, WorldTypes', UNCHANGED <<db, accepted>>, NEW t \in Tasks, Done(t),
           session' = [session EXCEPT ![t] = Denied]
    PROVE  IInv' /\ Entered /\ Kept
<1>1. Denied \in Sessions /\ Denied \notin Open /\ Denied.status # "Success"
  BY ClosedSessions
<1> HIDE DEF Denied
<1> QED BY <1>1, DoneTask

\* A request goes on, the session stays.
LEMMA BusyTask ==
    ASSUME IInv, WorldTypes', UNCHANGED <<db, accepted, session>>, NEW t \in Tasks, NEW x \in Busy,
           task' = [task EXCEPT ![t] = x], x.item \in Held \union {NoToken}, x.token \in Held \union {NoToken},
           Sound(x, session[t], accepted)
    PROVE  IInv' /\ Entered /\ Kept
<1>1. /\ session[t] \in Sessions /\ session' = [session EXCEPT ![t] = session[t]]
      /\ session[t] \in Open /\ session[t].token # NoToken => session[t].token \in Held
  BY TaskFacts
<1>2. session[t] \in Open => session[t].token \in Held \union {NoToken}
  BY <1>1
<1> QED BY <1>1, <1>2, HeldTask

----------------------------------------------------------------------------
\* get_cached_usertoken returns a token that is held; asked for a name, it is
\* the token of that name, since no uuid and no number is a name.
LEMMA CachedToken ==
    ASSUME IInv, NEW id \in Ids
    PROVE  /\ get_cached_usertoken(id).item \in Held \union {NoToken}
           /\ get_cached_usertoken(id).expired \in BOOLEAN
           /\ id \in Names /\ get_cached_usertoken(id).item # NoToken => get_cached_usertoken(id).item.name = id
<1> DEFINE rows == IF id \in Gids THEN get_account_data_gid(db, id) ELSE get_account_data_name(db, id)
           row == CHOOSE r \in rows : TRUE
<1>1. CASE rows = {}
  BY <1>1 DEF get_cached_usertoken
<1>2. CASE rows # {}
  <2>1. row \in rows
    BY <1>2
  <2>2. row \in db.account /\ (id \in Names => row.uuid = id \/ row.name = id \/ row.spn = id)
    BY <2>1, ResolverAssumption, SMT DEF get_account_data_gid, get_account_data_name
  <2>3. get_cached_usertoken(id) = [item |-> row.token, expired |-> row.expiry = 0]
    BY <1>2 DEF get_cached_usertoken
  <2> HIDE DEF row
  <2>4. row.token \in Held /\ row.token.name = row.name /\ row.spn = row.name /\ row.uuid = row.token.uuid /\ row.token \in Toks
    BY <2>2, RowFacts
  <2>5. row.token.uuid \notin Names
    <3>1. row.token.uuid \in Uuids
      BY <2>4, TokFacts
    <3> QED BY <3>1, ResolverAssumption DEF Uuids
  <2>6. id \in Names => row.name = id
    BY <2>2, <2>4, <2>5
  <2> QED BY <2>3, <2>4, <2>6, SMT
<1> QED BY <1>1, <1>2

\* get_usertoken preserves the invariant.
LEMMA GetUsertoken ==
    ASSUME IInv, NEW t \in Tasks, get_usertoken(t)
    PROVE  IInv' /\ Entered /\ Kept
<1>1. PICK id \in Ids \ nxset :
          task' = [task EXCEPT ![t] = [Start("state", "lookup", id, FALSE) EXCEPT
                      !.item = get_cached_usertoken(id).item, !.expired = get_cached_usertoken(id).expired]]
  BY DEF get_usertoken
<1> DEFINE i == get_cached_usertoken(id).item
           e == get_cached_usertoken(id).expired
           x == Req("state", "lookup", id, FALSE, e, i, NoToken, NoPassword, "none")
<1>2. i \in Held \union {NoToken} /\ e \in BOOLEAN
  BY CachedToken
<1> HIDE DEF i, e
<1>3. [Start("state", "lookup", id, FALSE) EXCEPT !.item = i, !.expired = e] = x
  <2> DEFINE a == [Start("state", "lookup", id, FALSE) EXCEPT !.item = i]
  <2>1. a = Req("state", "lookup", id, FALSE, FALSE, i, NoToken, NoPassword, "none")
    BY StartItem
  <2>2. [Start("state", "lookup", id, FALSE) EXCEPT !.item = i, !.expired = e] = [a EXCEPT !.expired = e]
    OBVIOUS
  <2> HIDE DEF a
  <2> DEFINE no == FALSE
  <2>3. a = Req("state", "lookup", id, no, no, i, NoToken, NoPassword, "none")
    BY <2>1
  <2> HIDE DEF no
  <2>4. [a EXCEPT !.expired = e] = Req("state", "lookup", id, no, e, i, NoToken, NoPassword, "none")
    BY <2>3, SMT DEF Req
  <2> QED BY <2>2, <2>4 DEF no
<1>4. x \in Busy /\ x.pc = "state" /\ x.kind = "lookup" /\ x.item = i /\ x.token = NoToken
  BY <1>2, WorldFacts DEF Req, Busy
<1> HIDE DEF x
<1>7. task' = [task EXCEPT ![t] = x]
  BY <1>1, <1>3 DEF i, e
<1>5. Sound(x, session[t], accepted)
  BY <1>4, TaskFacts DEF Sound, OwnToken, Path, Earned
<1>6. WorldTypes' /\ UNCHANGED <<db, accepted, session>>
  BY WorldKept, WorldFacts DEF get_usertoken, Cache, Provider, World, Outside, History
<1> QED BY <1>2, <1>7, <1>4, <1>5, <1>6, BusyTask

\* pam_account_authenticate_init preserves the invariant: a sign-in begins with
\* the cached token of its own user.
LEMMA AuthenticateInit ==
    ASSUME IInv, NEW t \in Tasks, pam_account_authenticate_init(t)
    PROVE  IInv' /\ Entered /\ Kept
<1>1. PICK n \in Names, forced \in BOOLEAN :
          LET item == get_cached_usertoken(n).item
              pc == IF item = NoToken THEN "refresh" ELSE "state"
          IN IF n \in nxset
             THEN session' = [session EXCEPT ![t] = Denied] /\ UNCHANGED task
             ELSE /\ task' = [task EXCEPT ![t] = [Start(pc, "init", n, forced) EXCEPT !.item = item]]
                  /\ UNCHANGED session
  BY DEF pam_account_authenticate_init
<1>2. WorldTypes' /\ UNCHANGED <<db, accepted>> /\ At(t, "idle")
  BY WorldKept, WorldFacts DEF pam_account_authenticate_init, Cache, Provider, World, Outside, History
<1> DEFINE i == get_cached_usertoken(n).item
           pc == IF i = NoToken THEN "refresh" ELSE "state"
           x == Req(pc, "init", n, forced, FALSE, i, NoToken, NoPassword, "none")
<1>3. i \in Held \union {NoToken} /\ (i # NoToken => i.name = n)
  BY CachedToken DEF Ids
<1>4. CASE n \in nxset
  <2>1. task[t] = Idle
    BY <1>2, TaskFacts
  <2>2. Done(t)
    BY <1>1, <1>4, <2>1, TaskFacts DEF Done
  <2> QED BY <1>1, <1>2, <1>4, <2>2, DeniedEnd
<1>5. CASE n \notin nxset
  <2> HIDE DEF i
  <2>2. pc \in {"refresh", "state"}
    OBVIOUS
  <2> HIDE DEF pc
  <2>3. x \in Busy /\ x.pc = pc /\ x.kind = "init" /\ x.item = i /\ x.token = NoToken /\ x.id = n
    BY <1>3, <2>2, WorldFacts DEF Req, Busy, Ids
  <2>5. [Start(pc, "init", n, forced) EXCEPT !.item = i] = x
    BY StartItem
  <2> HIDE DEF x
  <2>1. task' = [task EXCEPT ![t] = x] /\ UNCHANGED session
    BY <1>1, <1>5, <2>5 DEF i, pc
  <2>4. Sound(x, session[t], accepted)
    BY <1>3, <2>2, <2>3, TaskFacts DEF Sound, OwnToken, Path, Earned
  <2> QED BY <1>2, <1>3, <2>1, <2>3, <2>4, BusyTask
<1> QED BY <1>4, <1>5

\* A lookup or the first call of a sign-in goes on to p.
LEMMA MoveTask ==
    ASSUME IInv, WorldTypes', UNCHANGED <<db, accepted, session>>, NEW t \in Tasks, task[t] \in Busy,
           NEW p \in {"state", "test", "refresh", "notfound", "init_online", "init_offline"}, NEW e \in BOOLEAN,
           task[t].kind # "step", p \in {"init_online", "init_offline"} => task[t].kind = "init",
           p = "notfound" => task[t].item = NoToken,
           task' = [task EXCEPT ![t] = Req(p, task[t].kind, task[t].id, task[t].force, e, task[t].item,
                                           task[t].token, task[t].cred, task[t].how)]
    PROVE  IInv' /\ Entered /\ Kept
<1> DEFINE o == task[t]
           x == Req(p, o.kind, o.id, o.force, e, o.item, o.token, o.cred, o.how)
<1>1. /\ o \in Busy /\ Sound(o, session[t], accepted)
      /\ o.item \in Held \union {NoToken} /\ o.token \in Held \union {NoToken}
  BY TaskFacts
<1>2. task' = [task EXCEPT ![t] = x] /\ o.kind # "step" /\ (p \in {"init_online", "init_offline"} => o.kind = "init")
       /\ (p = "notfound" => o.item = NoToken)
  OBVIOUS
<1> HIDE DEF o
<1>3. x \in Busy
  BY <1>1, SMT DEF Req, Busy
<1>4. x.pc = p /\ x.kind = o.kind /\ x.id = o.id /\ x.item = o.item /\ x.token = o.token
  BY DEF Req
<1> HIDE DEF x
<1>5. OwnToken(x, session[t])
  BY <1>1, <1>4 DEF Sound, OwnToken
<1>6. Path(x)
  BY <1>2, <1>4 DEF Path
<1>7. Earned(x, session[t], accepted)
  BY <1>2, <1>4 DEF Earned
<1> QED BY <1>1, <1>2, <1>3, <1>4, <1>5, <1>6, <1>7, BusyTask DEF Sound

\* The same for a step that changes the pc only.
LEMMA GotoTask ==
    ASSUME IInv, WorldTypes', UNCHANGED <<db, accepted, session>>, NEW t \in Tasks, task[t] \in Busy,
           NEW p \in {"state", "test", "refresh", "notfound", "init_online", "init_offline"},
           task[t].kind # "step", p \in {"init_online", "init_offline"} => task[t].kind = "init",
           p = "notfound" => task[t].item = NoToken, Goto(t, p)
    PROVE  IInv' /\ Entered /\ Kept
<1>1. task' = [task EXCEPT ![t] = [task[t] EXCEPT !.pc = p]]
  BY DEF Goto
<1>2. [task[t] EXCEPT !.pc = p] = Req(p, task[t].kind, task[t].id, task[t].force, task[t].expired, task[t].item,
                                      task[t].token, task[t].cred, task[t].how)
  BY ReqPc
<1>3. task[t].expired \in BOOLEAN
  BY BusyFacts
<1> QED BY <1>1, <1>2, <1>3, MoveTask

\* Up to the provider's answer a request is a lookup or the first call of a sign-in.
LEMMA StepPcs ==
    ASSUME IInv, NEW t \in Tasks, task[t].pc \in {"state", "test", "refresh", "notfound"}
    PROVE  task[t] \in Busy /\ task[t].kind \in {"lookup", "init"} /\ (task[t].kind = "lookup" \/ task[t].kind = "init")
<1>1. task[t] \in Busy /\ Sound(task[t], session[t], accepted)
  BY TaskFacts DEF At
<1>2. task[t].kind \in Kinds
  BY <1>1, BusyFacts
<1> QED BY <1>1, <1>2 DEF Kinds, Sound, Earned

\* get_cachestate preserves the invariant.
LEMMA GetCachestate ==
    ASSUME IInv, NEW t \in Tasks, get_cachestate(t)
    PROVE  IInv' /\ Entered /\ Kept
<1> DEFINE lookup == CASE task[t].expired /\ state = "Online" -> "refresh"
                       [] task[t].expired /\ state = "Due" -> "test"
                       [] OTHER -> "idle"
           init == IF state = "Online" THEN "init_online" ELSE "test"
           next == IF task[t].kind = "lookup" THEN lookup ELSE init
<1>1. /\ task[t].pc = "state"
      /\ IF next = "idle" THEN Done(t) ELSE task' = [task EXCEPT ![t] = [task[t] EXCEPT !.pc = next, !.expired = FALSE]]
      /\ UNCHANGED <<Cache, Provider, World, History, session>>
  BY DEF get_cachestate, At
<1>2. WorldTypes' /\ UNCHANGED <<db, accepted, session>>
  BY <1>1, WorldKept, WorldFacts DEF Cache, Provider, World, Outside, History
<1>3. task[t] \in Busy /\ task[t].kind \in {"lookup", "init"}
  BY <1>1, StepPcs
<1>4. next \in {"idle", "refresh", "test", "init_online"} /\ (next = "init_online" => task[t].kind = "init")
  BY <1>3
<1> HIDE DEF next
<1>5. CASE next = "idle"
  BY <1>1, <1>2, <1>5, QuietEnd
<1>6. CASE next # "idle"
  <2> DEFINE a == [task[t] EXCEPT !.pc = next]
  <2>1. task' = [task EXCEPT ![t] = [a EXCEPT !.expired = FALSE]]
    BY <1>1, <1>6
  <2>2. [a EXCEPT !.expired = FALSE] = Req(next, task[t].kind, task[t].id, task[t].force, FALSE, task[t].item,
                                           task[t].token, task[t].cred, task[t].how)
    BY <1>3, ReqState
  <2> QED BY <1>2, <1>3, <1>4, <1>6, <2>1, <2>2, MoveTask
<1> QED BY <1>5, <1>6

\* test_connection preserves the invariant.
LEMMA TestConnection ==
    ASSUME IInv, NEW t \in Tasks, test_connection(t)
    PROVE  IInv' /\ Entered /\ Kept
<1>1. task[t].pc = "test" /\ UNCHANGED <<Cache, refresh_cache, World, History>> /\ state' = CheckedState
  BY DEF test_connection, At
<1>2. task[t] \in Busy /\ task[t].kind \in {"lookup", "init"}
  BY <1>1, StepPcs
<1>3. WorldTypes' /\ UNCHANGED <<db, accepted>>
  <2>1. CheckedState \in States
    BY WorldFacts DEF CheckedState, States
  <2> QED BY <1>1, <2>1, WorldKept, WorldFacts DEF Cache, World, Outside, History
<1>4. CASE CheckedState = "Online" /\ task[t].kind = "lookup"
  <2>1. Goto(t, "refresh") /\ UNCHANGED session
    BY <1>4 DEF test_connection
  <2> QED BY <1>2, <1>3, <1>4, <2>1, GotoTask
<1>5. CASE CheckedState = "Online" /\ task[t].kind = "init"
  <2>1. Goto(t, "init_online") /\ UNCHANGED session
    BY <1>5 DEF test_connection
  <2> QED BY <1>2, <1>3, <1>5, <2>1, GotoTask
<1>6. CASE CheckedState # "Online" /\ task[t].kind = "lookup"
  <2>1. Done(t) /\ UNCHANGED session
    BY <1>6 DEF test_connection
  <2> QED BY <1>3, <2>1, QuietEnd
<1>7. CASE CheckedState # "Online" /\ task[t].kind = "init" /\ task[t].force
  <2>1. Done(t) /\ session' = [session EXCEPT ![t] = Denied]
    BY <1>7 DEF test_connection
  <2> QED BY <1>3, <2>1, DeniedEnd
<1>8. CASE CheckedState # "Online" /\ task[t].kind = "init" /\ ~task[t].force
  <2>1. Goto(t, "init_offline") /\ UNCHANGED session
    BY <1>8 DEF test_connection
  <2> QED BY <1>2, <1>3, <1>8, <2>1, GotoTask
<1> QED BY <1>2, <1>4, <1>5, <1>6, <1>7, <1>8

----------------------------------------------------------------------------
\* A request goes on with a new token.
LEMMA TokenTask ==
    ASSUME IInv, WorldTypes', Grows, NEW f, NEW n, RowsFrom(f, n), UNCHANGED session, NEW t \in Tasks,
           NEW x \in Busy, task' = [task EXCEPT ![t] = x], x.item \in Held \union {NoToken},
           x.token \in Toks => Src(x.token, f, n), Sound(x, session[t], accepted')
    PROVE  IInv' /\ Entered
<1>1. session[t] \in Sessions /\ session' = [session EXCEPT ![t] = session[t]]
  BY TaskFacts
<1>2. TokensFrom(task[t], session[t], f, n)
  BY HeldTokens
<1>3. x.item \in Toks => Src(x.item, f, n)
  BY WorldFacts DEF Src
<1>4. TokensFrom(x, session[t], f, n)
  BY <1>2, <1>3 DEF TokensFrom
<1> QED BY <1>1, <1>4, OneTask

\* What the step of a session y has to show for storing its token.
Shown(y, cred, how, acc) ==
    /\ y \in Open /\ y.token \in Toks
    /\ how = "online" \/ (how = "offline" /\ ~y.force /\ cred \in acc[y.name])

\* A request that is about to store a token.
LEMMA ToStoreTask ==
    ASSUME IInv, WorldTypes', Grows, NEW f, NEW n, RowsFrom(f, n), UNCHANGED session, NEW t \in Tasks,
           task[t] \in Busy, NEW tok \in Toks, Src(tok, f, n), NEW how \in Hows, ToStore(t, tok, how),
           task[t].kind = "init" => tok.name = task[t].id,
           task[t].kind = "step" => Shown(session[t], task[t].cred, how, accepted')
    PROVE  IInv' /\ Entered
<1> DEFINE o == task[t]
           k == Filtered(tok)
           a == [o EXCEPT !.pc = "store"]
           x == Req("store", o.kind, o.id, o.force, o.expired, o.item, k, o.cred, how)
<1>1. o \in Busy /\ Sound(o, session[t], accepted) /\ o.item \in Held \union {NoToken}
  BY TaskFacts
<1>2. k \in Toks /\ k.name = tok.name /\ Src(k, f, n)
  BY FilteredTok DEF Src
<1>3. task' = [task EXCEPT ![t] = x]
  <2>1. task' = [task EXCEPT ![t] = [[[o EXCEPT !.pc = "store"] EXCEPT !.token = k] EXCEPT !.how = how]]
    BY DEF ToStore
  <2>2. [[[o EXCEPT !.pc = "store"] EXCEPT !.token = k] EXCEPT !.how = how] = x
    <3> HIDE DEF k, o
    <3> DEFINE b == [[o EXCEPT !.pc = "store"] EXCEPT !.token = k]
    <3>1. b = Req("store", o.kind, o.id, o.force, o.expired, o.item, k, o.cred, o.how)
      BY <1>1, ReqToken
    <3> HIDE DEF b
    <3>2. [b EXCEPT !.how = how] = x
      BY <3>1, SMT DEF Req
    <3> QED BY <3>2 DEF b
  <2> QED BY <2>1, <2>2
<1>4. /\ o.kind = "init" => tok.name = o.id
      /\ o.kind = "step" => Shown(session[t], o.cred, how, accepted')
  OBVIOUS
<1> HIDE DEF k, o
<1>5. x \in Busy
  BY <1>1, <1>2 DEF Req, Busy, Hows
<1>6. x.pc = "store" /\ x.kind = o.kind /\ x.id = o.id /\ x.item = o.item /\ x.token = k /\ x.how = how /\ x.cred = o.cred
  BY DEF Req
<1> HIDE DEF x
<1>7. OwnToken(x, session[t])
  BY <1>1, <1>2, <1>4, <1>6 DEF Sound, OwnToken
<1>8. Path(x)
  BY <1>2, <1>6 DEF Path
<1>9. Earned(x, session[t], accepted')
  BY <1>4, <1>6 DEF Earned, Shown
<1>10. Sound(x, session[t], accepted')
  BY <1>7, <1>8, <1>9 DEF Sound
<1> QED BY <1>1, <1>2, <1>3, <1>5, <1>6, <1>10, TokenTask

\* A sign-in of a local user that is about to be refused.
LEMMA PurgeTask ==
    ASSUME IInv, WorldTypes', Grows, NEW f, NEW n, RowsFrom(f, n), UNCHANGED session, NEW t \in Tasks,
           task[t] \in Busy, task[t].kind = "step", NEW tok \in Toks, Src(tok, f, n),
           task' = [task EXCEPT ![t] = [task[t] EXCEPT !.pc = "purge", !.token = tok]],
           session[t] \in Open, session[t].token \in Toks
    PROVE  IInv' /\ Entered
<1> DEFINE o == task[t]
           x == Req("purge", o.kind, o.id, o.force, o.expired, o.item, tok, o.cred, o.how)
<1>1. o \in Busy /\ Sound(o, session[t], accepted) /\ o.item \in Held \union {NoToken} /\ o.kind = "step"
  BY TaskFacts
<1>2. task' = [task EXCEPT ![t] = x]
  <2>1. task' = [task EXCEPT ![t] = [[o EXCEPT !.pc = "purge"] EXCEPT !.token = tok]]
    OBVIOUS
  <2>2. [[o EXCEPT !.pc = "purge"] EXCEPT !.token = tok] = x
    <3> HIDE DEF o
    <3> QED BY <1>1, ReqToken
  <2> QED BY <2>1, <2>2
<1> HIDE DEF o
<1>3. x \in Busy
  BY <1>1 DEF Req, Busy
<1>4. x.pc = "purge" /\ x.kind = "step" /\ x.item = o.item /\ x.token = tok
  BY <1>1 DEF Req
<1> HIDE DEF x
<1>5. Sound(x, session[t], accepted')
  BY <1>1, <1>4 DEF Sound, OwnToken, Path, Earned
<1> QED BY <1>1, <1>2, <1>3, <1>4, <1>5, TokenTask

\* A sign-in that has shown enough is stored or, for a local user, refused.
LEMMA ReleaseTask ==
    ASSUME IInv, WorldTypes', Grows, NEW f, NEW n, RowsFrom(f, n), UNCHANGED session, NEW t \in Tasks,
           task[t] \in Busy, task[t].kind = "step", NEW tok \in Toks, Src(tok, f, n), NEW how \in Hows,
           Shown(session[t], task[t].cred, how, accepted'), Release(t, tok, how)
    PROVE  IInv' /\ Entered
<1>1. CASE tok.name \in nxset \/ tok.gidnumber \in nxset
  <2>1. task' = [task EXCEPT ![t] = [task[t] EXCEPT !.pc = "purge", !.token = tok]]
    BY <1>1 DEF Release
  <2> QED BY <2>1, PurgeTask DEF Shown
<1>2. CASE ~(tok.name \in nxset \/ tok.gidnumber \in nxset)
  <2>1. ToStore(t, tok, how)
    BY <1>2 DEF Release
  <2> QED BY <2>1, ToStoreTask
<1> QED BY <1>1, <1>2

----------------------------------------------------------------------------
\* What unix_user_get may answer about the user n whose token is old.
AnswerOK(a, n, old) ==
    /\ a.state \in States /\ a.res \in {"Update", "NotFound", "UseCached"}
    /\ a.res = "NotFound" => old = NoToken
    /\ a.res = "Update" =>
          /\ a.token \in Toks /\ a.token.name = n /\ a.how \in Hows
          /\ Src(a.token, a.token.uuid, n)

\* unix_user_get answers with a token of the user it was asked about, from the
\* directory, the one it was given or a made-up one, and with NotFound only for a
\* user it was given no token of.
LEMMA Answers ==
    ASSUME IInv, NEW n \in Names, NEW old \in Held \union {NoToken}, old # NoToken => old.name = n,
           NEW a \in unix_user_get(n, old)
    PROVE  AnswerOK(a, n, old)
<1>1. \A st \in States : AnswerOK(UseCached(st), n, old)
  BY DEF AnswerOK, UseCached, Answer
<1>2. {"Online", "Waiting"} \subseteq States
  BY DEF States
<1>3. AnswerOK(Fetched(n), n, old)
  <2> DEFINE k == DirectoryToken(n)
  <2>1. k \in Toks /\ k.name = n /\ k.uuid = RealUuid[n]
    BY DirectoryTok DEF IInv
  <2>2. Fetched(n) = Answer("Update", k, "fetched", "Online")
    BY DEF Fetched
  <2> HIDE DEF k
  <2>3. Answer("Update", k, "fetched", "Online").state = "Online" /\ Answer("Update", k, "fetched", "Online").res = "Update"
          /\ Answer("Update", k, "fetched", "Online").token = k /\ Answer("Update", k, "fetched", "Online").how = "fetched"
    BY DEF Answer
  <2> QED BY <1>2, <2>1, <2>2, <2>3 DEF AnswerOK, Src, Hows
<1>4. old # NoToken => AnswerOK(Answer("Update", old, "kept", "Online"), n, old)
  <2>1. old # NoToken => old \in Toks /\ Src(old, old.uuid, n)
    BY WorldFacts DEF Src
  <2>2. Answer("Update", old, "kept", "Online").state = "Online" /\ Answer("Update", old, "kept", "Online").res = "Update"
          /\ Answer("Update", old, "kept", "Online").token = old /\ Answer("Update", old, "kept", "Online").how = "kept"
    BY DEF Answer
  <2> QED BY <1>2, <2>1, <2>2 DEF AnswerOK, Hows
<1>5. ASSUME NEW u \in FakeUuids \ UuidsInUse PROVE AnswerOK(Answer("Update", Token(n, u, 0), "faked", "Online"), n, old)
  <2> DEFINE k == Token(n, u, 0)
  <2>1. k \in Toks /\ k.name = n /\ k.uuid = u
    BY FakeTok
  <2> HIDE DEF k
  <2>2. Answer("Update", k, "faked", "Online").state = "Online" /\ Answer("Update", k, "faked", "Online").res = "Update"
          /\ Answer("Update", k, "faked", "Online").token = k /\ Answer("Update", k, "faked", "Online").how = "faked"
    BY DEF Answer
  <2>3. Src(k, k.uuid, n)
    BY <2>1 DEF Src
  <2>4. AnswerOK(Answer("Update", k, "faked", "Online"), n, old)
    BY <1>2, <2>1, <2>2, <2>3 DEF AnswerOK, Hows
  <2> QED BY <2>4 DEF k
<1>6. old = NoToken => AnswerOK(Answer("NotFound", NoToken, "none", "Online"), n, old)
  BY DEF AnswerOK, Answer, States
<1>7. \A b \in fake_user(n, old) : AnswerOK(b, n, old)
  <2>1. CASE old # NoToken
    BY <1>4, <2>1 DEF fake_user
  <2>2. CASE old = NoToken /\ ~net
    BY <1>1, <1>2, <2>2 DEF fake_user
  <2>3. CASE old = NoToken /\ net /\ directory[n].exists
    BY <1>1, <1>2, <1>5, <2>3 DEF fake_user
  <2>4. CASE old = NoToken /\ net /\ ~directory[n].exists
    BY <1>1, <1>2, <1>6, <2>4 DEF fake_user
  <2> QED BY <2>1, <2>2, <2>3, <2>4
<1>8. \A b \in exchange_refresh_cache_entry(n, old) : AnswerOK(b, n, old)
  <2>1. CASE ~net
    BY <1>1, <1>2, <2>1 DEF exchange_refresh_cache_entry
  <2>2. CASE net /\ directory[n].exists
    BY <1>3, <1>7, <2>2 DEF exchange_refresh_cache_entry
  <2>3. CASE net /\ ~directory[n].exists
    BY <1>7, <2>3 DEF exchange_refresh_cache_entry
  <2> QED BY <2>1, <2>2, <2>3
<1> QED BY <1>1, <1>2, <1>3, <1>7, <1>8 DEF unix_user_get

----------------------------------------------------------------------------
\* refresh_usertoken preserves the invariant.
LEMMA RefreshUsertoken ==
    ASSUME IInv, NEW t \in Tasks, refresh_usertoken(t)
    PROVE  IInv' /\ Entered /\ Kept
<1> DEFINE id == task[t].id
           old == task[t].item
           n == IF old = NoToken THEN id ELSE old.name
           answers == IF old = NoToken /\ id \in Gids THEN {UseCached(state)} ELSE unix_user_get(n, old)
<1>1. task[t].pc = "refresh" /\ UNCHANGED <<Cache, refresh_cache, World, History, session>>
  BY DEF refresh_usertoken, At
<1>2. PICK a \in answers :
             /\ state' = a.state
             /\ CASE a.res = "Update" -> ToStore(t, a.token, a.how)
                  [] a.res = "NotFound" -> Goto(t, "notfound")
                  [] a.res = "UseCached" -> Resolved(t)
  BY DEF refresh_usertoken
<1>3. /\ task[t] \in Busy /\ task[t].kind \in {"lookup", "init"} /\ id \in Ids /\ old \in Held \union {NoToken}
      /\ task[t].kind = "init" => id \in Names /\ (old # NoToken => old.name = id)
  BY <1>1, StepPcs, TaskFacts, BusyFacts DEF Sound, OwnToken
<1>4. AnswerOK(a, n, old) /\ (task[t].kind = "init" => n = id)
  <2>1. CASE old = NoToken /\ id \in Gids
    <3>1. a = UseCached(state) /\ state \in States
      BY <2>1, WorldFacts
    <3>2. task[t].kind # "init"
      BY <1>3, <2>1, ResolverAssumption
    <3> QED BY <3>1, <3>2 DEF AnswerOK, UseCached, Answer
  <2>2. CASE ~(old = NoToken /\ id \in Gids)
    <3>1. n \in Names
      BY <1>3, <2>2, WorldFacts, TokFacts DEF Ids
    <3>2. a \in unix_user_get(n, old)
      BY <2>2
    <3>3. old # NoToken => old.name = n
      OBVIOUS
    <3> HIDE DEF n
    <3>4. AnswerOK(a, n, old)
      BY <1>3, <3>1, <3>2, <3>3, Answers
    <3> QED BY <1>3, <3>4 DEF n
  <2> QED BY <2>1, <2>2
<1> HIDE DEF n, answers
<1>5. WorldTypes' /\ UNCHANGED <<db, accepted, session>>
  BY <1>1, <1>2, <1>4, WorldKept, WorldFacts DEF AnswerOK, Cache, World, Outside, History
<1>6. Grows /\ Kept /\ RowsFrom(a.token.uuid, n)
  <2>1. Grows
    BY <1>5 DEF Grows, IInv, Types
  <2> QED BY <1>5, <2>1, SameRows
<1>7. CASE a.res = "Update"
  <2>1. ToStore(t, a.token, a.how)
    BY <1>2, <1>7
  <2>2. a.token \in Toks /\ a.how \in Hows /\ a.token.name = n /\ Src(a.token, a.token.uuid, n)
    BY <1>4, <1>7 DEF AnswerOK
  <2> QED BY <1>3, <1>4, <1>5, <1>6, <2>1, <2>2, ToStoreTask
<1>8. CASE a.res = "NotFound"
  <2>1. Goto(t, "notfound") /\ old = NoToken
    BY <1>2, <1>4, <1>8 DEF AnswerOK
  <2> QED BY <1>3, <1>5, <2>1, GotoTask
<1>9. CASE a.res = "UseCached"
  <2>1. Resolved(t)
    BY <1>2, <1>9
  <2>2. CASE task[t].kind = "lookup"
    BY <1>5, <2>1, <2>2, QuietEnd DEF Resolved
  <2>3. CASE task[t].kind = "init"
    <3>1. Goto(t, "state")
      BY <2>1, <2>3 DEF Resolved
    <3> QED BY <1>3, <1>5, <2>3, <3>1, GotoTask
  <2> QED BY <1>3, <2>2, <2>3
<1> QED BY <1>4, <1>7, <1>8, <1>9 DEF AnswerOK

\* UserNotFound preserves the invariant and deletes no account: there was none.
LEMMA NotFoundCase ==
    ASSUME IInv, NEW t \in Tasks, UserNotFound(t)
    PROVE  IInv' /\ Entered /\ Kept
<1>1. /\ task[t].pc = "notfound" /\ Resolved(t) /\ UNCHANGED <<Provider, World, History, session>>
      /\ db' = IF task[t].item = NoToken THEN db ELSE delete_account(db, task[t].item.uuid)
      /\ nxcache' = [nxcache EXCEPT ![task[t].id] = "fresh"]
  BY DEF UserNotFound, At
<1>2. task[t] \in Busy /\ task[t].kind \in {"lookup", "init"} /\ task[t].id \in Ids /\ task[t].item = NoToken
  BY <1>1, StepPcs, TaskFacts, BusyFacts DEF Sound, Path
<1>3. nxcache' \in [Ids -> {"none", "fresh", "expired"}]
  BY <1>1, <1>2, WorldFacts
<1>4. WorldTypes' /\ UNCHANGED <<db, accepted, session>>
  BY <1>1, <1>2, <1>3, WorldKept, WorldFacts DEF Provider, World, Outside, History
<1>5. CASE task[t].kind = "lookup"
  BY <1>1, <1>4, <1>5, QuietEnd DEF Resolved
<1>6. CASE task[t].kind = "init"
  <2>1. Goto(t, "state")
    BY <1>1, <1>6 DEF Resolved
  <2> QED BY <1>2, <1>4, <1>6, <2>1, GotoTask
<1> QED BY <1>2, <1>5, <1>6

\* A request that changed the cache ends.
LEMMA EndTask ==
    ASSUME IInv, WorldTypes', Grows, NEW f, NEW n, RowsFrom(f, n), NEW t \in Tasks, Done(t),
           NEW y \in {session[t], Denied, Success}, session' = [session EXCEPT ![t] = y],
           y = Success => y = session[t] \/ (At(t, "store") /\ task[t].kind = "step")
    PROVE  IInv' /\ Entered
<1>1. /\ y \in Sessions /\ (y \in Open => y = session[t])
      /\ y = session[t] \/ y.status # "Success" \/ (At(t, "store") /\ task[t].kind = "step")
  BY ClosedSessions, TaskFacts
<1>2. y \in Open /\ y.token # NoToken => y.token.name = y.name
  BY <1>1, TaskFacts
<1>3. Idle \notin Busy /\ Sound(Idle, y, accepted')
  BY <1>2, IdleSound
<1>4. TokensFrom(task[t], session[t], f, n)
  BY HeldTokens
<1>5. TokensFrom(Idle, y, f, n)
  BY <1>1, <1>3, <1>4 DEF TokensFrom
<1>6. task' = [task EXCEPT ![t] = Idle]
  BY DEF Done
<1> QED BY <1>1, <1>3, <1>5, <1>6, OneTask

\* set_cache_usertoken preserves the invariant, keeps every cached user and lets
\* in only the user of a step.
LEMMA SetCacheUsertoken ==
    ASSUME IInv, NEW t \in Tasks, set_cache_usertoken(t)
    PROVE  IInv' /\ Entered /\ Kept
<1> DEFINE o == task[t]
           k == o.token
<1>1. /\ At(t, "store") /\ task[t].pc = "store" /\ UNCHANGED <<nxcache, Provider, World, History>> /\ db' = StoreToken(k)
  BY DEF set_cache_usertoken, At
<1>2. /\ o \in Busy /\ o.kind \in Kinds /\ k \in Toks /\ k \in Held
      /\ o.kind = "init" => o.id \in Names /\ k.name = o.id
      /\ session[t] \in Open /\ session[t].token # NoToken => session[t].token.name = session[t].name
  <2>1. o \in Busy /\ Sound(o, session[t], accepted)
    BY <1>1, TaskFacts DEF At
  <2>2. k \in Toks
    BY <1>1, <2>1 DEF Sound, Path
  <2> QED BY <1>1, <2>1, <2>2, TaskFacts, BusyFacts, WorldFacts DEF Sound, OwnToken
<1>3. WorldTypes' /\ accepted' = accepted
  BY <1>1, WorldKept, WorldFacts DEF Provider, World, Outside, History
<1>4. Grows /\ Kept /\ RowsFrom(NoToken, NoToken)
  <2>1. Grows
    BY <1>3 DEF Grows, IInv, Types
  <2> QED BY <1>1, <1>2, <1>3, <2>1, StoredRows
<1>5. CASE o.kind = "lookup"
  <2>1. Done(t) /\ UNCHANGED session
    BY <1>5 DEF set_cache_usertoken
  <2>2. session' = [session EXCEPT ![t] = session[t]]
    BY <2>1, TaskFacts
  <2> QED BY <1>3, <1>4, <2>1, <2>2, EndTask
<1>6. CASE o.kind = "init"
  <2> DEFINE x == Req("state", o.kind, o.id, o.force, o.expired, k, NoToken, o.cred, "none")
             b == [o EXCEPT !.pc = "state"]
             c == [b EXCEPT !.item = k]
             d == [c EXCEPT !.token = NoToken]
  <2>1. UNCHANGED session /\ task' = [task EXCEPT ![t] = [d EXCEPT !.how = "none"]]
    BY <1>6 DEF set_cache_usertoken
  <2> HIDE DEF o, k
  <2>2. b = Req("state", o.kind, o.id, o.force, o.expired, o.item, o.token, o.cred, o.how)
    BY <1>2, ReqPc
  <2> HIDE DEF b
  <2>3. c = Req("state", o.kind, o.id, o.force, o.expired, k, o.token, o.cred, o.how)
    BY <2>2, SMT DEF Req
  <2> HIDE DEF c
  <2>4. d = Req("state", o.kind, o.id, o.force, o.expired, k, NoToken, o.cred, o.how)
    BY <2>3, SMT DEF Req
  <2> HIDE DEF d
  <2>5. [d EXCEPT !.how = "none"] = x
    BY <2>4, SMT DEF Req
  <2>6. x \in Busy /\ x.pc = "state" /\ x.kind = "init" /\ x.id = o.id /\ x.item = k /\ x.token = NoToken
    BY <1>2, <1>6 DEF Req, Busy
  <2> HIDE DEF x
  <2>7. Sound(x, session[t], accepted')
    <3>1. OwnToken(x, session[t])
      BY <1>2, <1>6, <2>6 DEF OwnToken
    <3>2. Path(x) /\ Earned(x, session[t], accepted')
      BY <2>6 DEF Path, Earned
    <3> QED BY <3>1, <3>2 DEF Sound
  <2>8. x.token \notin Toks
    BY <2>6, WorldFacts
  <2> QED BY <1>2, <1>3, <1>4, <2>1, <2>5, <2>6, <2>7, <2>8, TokenTask
<1>7. CASE o.kind = "step"
  <2>1. Done(t) /\ session' = [session EXCEPT ![t] = Success]
    BY <1>7 DEF set_cache_usertoken
  <2> QED BY <1>1, <1>3, <1>4, <1>7, <2>1, EndTask
<1> QED BY <1>2, <1>5, <1>6, <1>7 DEF Kinds

----------------------------------------------------------------------------
\* A session begins with the token of its own user.
LEMMA NewSession ==
    ASSUME IInv, NEW t \in Tasks, task[t] \in Busy, task[t].kind = "init", NEW online \in BOOLEAN,
           NEW asked \in {"Password", "MFAPoll", "InitDenied"}
    PROVE  LET y == InProgress(t, online, asked)
           IN  /\ y \in Open /\ y \in Sessions /\ y.status # "Success"
               /\ y.token \in Held \union {NoToken} /\ (y.token # NoToken => y.token.name = y.name)
<1> DEFINE y == InProgress(t, online, asked)
<1>1. /\ task[t].id \in Names /\ task[t].item \in Held \union {NoToken} /\ task[t].force \in BOOLEAN
      /\ task[t].item # NoToken => task[t].item.name = task[t].id
      /\ task[t].item \in Toks \union {NoToken}
  BY TaskFacts, BusyFacts DEF Sound, OwnToken
<1>2. y \in Open
  BY <1>1 DEF InProgress, Open
<1>3. y.status = "InProgress" /\ y.token = task[t].item /\ y.name = task[t].id
  BY DEF InProgress
<1>4. y \in Sessions
  BY <1>2 DEF Sessions
<1> HIDE DEF y
<1>5. y \in Open /\ y \in Sessions /\ y.status # "Success"
       /\ y.token \in Held \union {NoToken} /\ (y.token # NoToken => y.token.name = y.name)
  BY <1>1, <1>2, <1>3, <1>4
<1> QED BY <1>5 DEF y

\* unix_user_online_auth_init preserves the invariant.
LEMMA OnlineAuthInit ==
    ASSUME IInv, NEW t \in Tasks, unix_user_online_auth_init(t)
    PROVE  IInv' /\ Entered /\ Kept
<1>1. /\ task[t].pc = "init_online" /\ Done(t) /\ UNCHANGED <<Cache, refresh_cache, World, History>>
      /\ \/ UNCHANGED <<session, state>>
         \/ \E asked \in {"Password", "MFAPoll", "InitDenied"} :
               session' = [session EXCEPT ![t] = InProgress(t, TRUE, asked)] /\ state' \in {state, "Online", "Waiting"}
  BY DEF unix_user_online_auth_init, At
<1>2. task[t] \in Busy /\ task[t].kind = "init"
  BY <1>1, TaskFacts DEF Sound, Path, At
<1>3. UNCHANGED <<db, accepted, nxcache, nxset, net, directory, refresh_cache>>
  BY <1>1 DEF Cache, World, Outside, History
<1>4. CASE UNCHANGED <<session, state>>
  <2>1. WorldTypes'
    BY <1>3, <1>4, WorldKept, WorldFacts
  <2> QED BY <1>1, <1>3, <1>4, <2>1, QuietEnd
<1>5. ASSUME NEW asked \in {"Password", "MFAPoll", "InitDenied"},
             session' = [session EXCEPT ![t] = InProgress(t, TRUE, asked)], state' \in {state, "Online", "Waiting"}
      PROVE  IInv' /\ Entered /\ Kept
  <2>1. WorldTypes'
    <3>1. state' \in States
      BY <1>5, WorldFacts DEF States
    <3> QED BY <1>3, <3>1, WorldKept, WorldFacts
  <2> DEFINE y == InProgress(t, TRUE, asked)
  <2>2. /\ y \in Open /\ y \in Sessions /\ y.status # "Success"
        /\ y.token \in Held \union {NoToken} /\ (y.token # NoToken => y.token.name = y.name)
    BY <1>2, NewSession
  <2>3. session' = [session EXCEPT ![t] = y]
    BY <1>5
  <2> HIDE DEF y
  <2> QED BY <1>1, <1>3, <2>1, <2>2, <2>3, DoneTask
<1> QED BY <1>1, <1>4, <1>5

\* unix_user_offline_auth_init preserves the invariant.
LEMMA OfflineAuthInit ==
    ASSUME IInv, NEW t \in Tasks, unix_user_offline_auth_init(t)
    PROVE  IInv' /\ Entered /\ Kept
<1> DEFINE asked == IF SfaFallback \/ Breakglass THEN "Password" ELSE "InitDenied"
           y == InProgress(t, FALSE, asked)
<1>1. /\ task[t].pc = "init_offline" /\ Done(t) /\ UNCHANGED <<Cache, Provider, World, History>>
      /\ session' = [session EXCEPT ![t] = y]
  BY DEF unix_user_offline_auth_init, At
<1>2. task[t] \in Busy /\ task[t].kind = "init"
  BY <1>1, TaskFacts DEF Sound, Path, At
<1>3. WorldTypes' /\ UNCHANGED <<db, accepted>>
  BY <1>1, WorldKept, WorldFacts DEF Cache, Provider, World, Outside, History
<1>4. asked \in {"Password", "MFAPoll", "InitDenied"}
  OBVIOUS
<1> HIDE DEF asked
<1>5. /\ y \in Open /\ y \in Sessions /\ y.status # "Success"
      /\ y.token \in Held \union {NoToken} /\ (y.token # NoToken => y.token.name = y.name)
  BY <1>2, <1>4, NewSession
<1> HIDE DEF y
<1> QED BY <1>1, <1>3, <1>5, DoneTask

\* pam_account_authenticate_step preserves the invariant: a forced sign-in takes
\* no step offline.
LEMMA AuthenticateStep ==
    ASSUME IInv, NEW t \in Tasks, pam_account_authenticate_step(t)
    PROVE  IInv' /\ Entered /\ Kept
<1> DEFINE s == session[t]
           path == StepPath(s)
<1>1. /\ At(t, "idle") /\ s.status = "InProgress" /\ path # "refused"
      /\ UNCHANGED <<Cache, Provider, World, History, session>>
  BY DEF pam_account_authenticate_step
<1>2. PICK cred \in Passwords \union {NoPassword} :
          task' = [task EXCEPT ![t] = [Start(path, "step", s.name, FALSE) EXCEPT !.cred = cred]]
  BY DEF pam_account_authenticate_step
<1>3. WorldTypes' /\ UNCHANGED <<db, accepted, session>>
  BY <1>1, WorldKept, WorldFacts DEF Cache, Provider, World, Outside, History
<1>4. /\ s \in Open /\ s.name \in Names /\ s.token \in Toks \union {NoToken}
      /\ s.token # NoToken => s.token.name = s.name
  BY <1>1, TaskFacts, SessionFacts
<1>5. path \in {"step_online", "step_offline"} /\ s.token # NoToken /\ (path = "step_offline" => ~s.force)
  BY <1>1 DEF StepPath
<1> DEFINE x == Req(path, "step", s.name, FALSE, FALSE, NoToken, NoToken, cred, "none")
<1> HIDE DEF path, s
<1>6. [Start(path, "step", s.name, FALSE) EXCEPT !.cred = cred] = x
  BY StartCred
<1>7. x \in Busy /\ x.pc = path /\ x.kind = "step" /\ x.item = NoToken /\ x.token = NoToken
  BY <1>4, <1>5 DEF Req, Busy, Ids
<1> HIDE DEF x
<1>8. Sound(x, s, accepted)
  <2>1. OwnToken(x, s) /\ Path(x)
    BY <1>4, <1>5, <1>7 DEF OwnToken, Path
  <2>2. Earned(x, s, accepted)
    BY <1>4, <1>5, <1>7 DEF Earned
  <2> QED BY <2>1, <2>2 DEF Sound
<1> QED BY <1>2, <1>3, <1>6, <1>7, <1>8, BusyTask DEF s

----------------------------------------------------------------------------
\* The object id of a user is in no other user's token.
LEMMA RealName ==
    ASSUME NEW c \in Toks, NEW m \in Names, c.uuid = RealUuid[m]
    PROVE  c.name = m
<1>1. c.name \in Names /\ (c.uuid = RealUuid[c.name] \/ c.uuid \in FakeUuids)
  BY TokFacts
<1> QED BY <1>1, ResolverAssumption

\* A step of a sign-in and its session.
LEMMA StepFacts ==
    ASSUME IInv, NEW t \in Tasks, task[t].pc \in {"step_online", "step_offline", "password", "purge"}
    PROVE  /\ task[t] \in Busy /\ task[t].kind = "step" /\ task[t].cred \in Passwords \union {NoPassword}
           /\ session[t] \in Open /\ session[t].name \in Names /\ session[t].token \in Toks
           /\ session[t].token \in Held /\ session[t].token.name = session[t].name
           /\ Earned(task[t], session[t], accepted)
<1>1. task[t] \in Busy /\ Sound(task[t], session[t], accepted)
  BY TaskFacts DEF At
<1>2. task[t].kind = "step"
  BY <1>1 DEF Sound, Path
<1>3. session[t] \in Open /\ session[t].token \in Toks /\ Earned(task[t], session[t], accepted)
  BY <1>1, <1>2 DEF Sound, Earned
<1>4. session[t].token # NoToken
  BY <1>3, WorldFacts
<1> QED BY <1>1, <1>2, <1>3, <1>4, TaskFacts, BusyFacts, SessionFacts

\* A password that the directory accepts is accepted for the user of the session.
LEMMA AcceptedGrows ==
    ASSUME IInv, NEW t \in Tasks, session[t].name \in Names, Accepted(t)
    PROVE  Grows /\ task[t].cred \in accepted'[session[t].name]
<1> DEFINE n == session[t].name
<1>1. accepted \in [Names -> SUBSET Passwords] /\ directory[n].password \in Passwords
  BY DEF IInv, Types, WorldTypes
<1>2. accepted' = [accepted EXCEPT ![n] = accepted[n] \union {task[t].cred}] /\ directory[n].password = task[t].cred
  BY DEF Accepted
<1> HIDE DEF n
<1>3. n \in Names
  BY DEF n
<1> QED BY <1>1, <1>2, <1>3 DEF Grows, n

\* OnlinePassword preserves the invariant.
LEMMA OnlinePasswordCase ==
    ASSUME IInv, NEW t \in Tasks, At(t, "step_online"), OnlinePassword(t), UNCHANGED <<Cache, World>>
    PROVE  IInv' /\ Entered /\ Kept
<1> DEFINE n == session[t].name
           k == DirectoryToken(n)
           o == task[t]
<1>1. /\ task[t] \in Busy /\ task[t].kind = "step" /\ session[t] \in Open /\ n \in Names /\ session[t].token \in Toks
      /\ session[t].token.name = n
  BY StepFacts DEF At
<1>2. Grows /\ task[t].cred \in accepted'[n]
  BY <1>1, AcceptedGrows DEF OnlinePassword
<1>3. WorldTypes' /\ db' = db /\ UNCHANGED session
  <2>1. refresh_cache' \subseteq Names /\ state' = state
    BY <1>1, WorldFacts DEF OnlinePassword, Accepted
  <2> QED BY <2>1, WorldKept, WorldFacts DEF OnlinePassword, Cache, World, Outside
<1>4. RowsFrom(NoToken, NoToken) /\ Kept
  BY <1>2, <1>3, SameRows
<1>5. k \in Toks /\ k.name = n /\ k.uuid = RealUuid[n] /\ Src(k, NoToken, NoToken)
  BY <1>1, DirectoryTok DEF IInv, Src
<1>6. CASE Release(t, k, "online")
  <2>1. Shown(session[t], task[t].cred, "online", accepted') /\ "online" \in Hows
    BY <1>1 DEF Shown, Hows
  <2> HIDE DEF k
  <2> QED BY <1>1, <1>2, <1>3, <1>4, <1>5, <1>6, <2>1, ReleaseTask
<1>7. CASE task' = [task EXCEPT ![t] = [task[t] EXCEPT !.pc = "password", !.token = k]]
  <2> DEFINE x == Req("password", o.kind, o.id, o.force, o.expired, o.item, k, o.cred, o.how)
  <2>1. task' = [task EXCEPT ![t] = [[o EXCEPT !.pc = "password"] EXCEPT !.token = k]]
    BY <1>7
  <2>2. o \in Busy /\ o.kind = "step" /\ o.item \in Held \union {NoToken} /\ o.cred \in accepted'[n]
    BY <1>1, <1>2, TaskFacts
  <2> HIDE DEF o, k
  <2>3. [[o EXCEPT !.pc = "password"] EXCEPT !.token = k] = x
    BY <2>2, ReqToken
  <2>4. x \in Busy
    BY <1>5, <2>2 DEF Req, Busy
  <2>5. x.pc = "password" /\ x.kind = "step" /\ x.item = o.item /\ x.token = k /\ x.cred = o.cred
    BY <2>2 DEF Req
  <2> HIDE DEF x
  <2>6. Sound(x, session[t], accepted')
    <3>1. OwnToken(x, session[t]) /\ Path(x)
      BY <1>1, <2>5 DEF OwnToken, Path
    <3>2. Earned(x, session[t], accepted')
      BY <1>1, <1>5, <2>2, <2>5 DEF Earned
    <3> QED BY <3>1, <3>2 DEF Sound
  <2> QED BY <1>2, <1>3, <1>4, <1>5, <2>1, <2>2, <2>3, <2>4, <2>5, <2>6, TokenTask
<1> QED BY <1>6, <1>7 DEF OnlinePassword

\* AskSecondFactor preserves the invariant.
LEMMA AskSecondFactorCase ==
    ASSUME IInv, NEW t \in Tasks, At(t, "step_online"), AskSecondFactor(t), UNCHANGED <<Cache, World>>
    PROVE  IInv' /\ Entered /\ Kept
<1> DEFINE y == [session[t] EXCEPT !.asked = "MFAPoll"]
           o == task[t]
<1>1. /\ o \in Busy /\ o.kind = "step" /\ session[t] \in Open /\ session[t].name \in Names /\ session[t].token \in Toks
      /\ session[t].token.name = session[t].name /\ session[t].token \in Held /\ session[t] \in Sessions
      /\ o.token = NoToken /\ o.item \in Held \union {NoToken}
  BY StepFacts, TaskFacts DEF At, Earned
<1>2. Grows /\ o.cred \in accepted'[session[t].name]
  BY <1>1, AcceptedGrows DEF AskSecondFactor
<1>3. WorldTypes' /\ db' = db
  <2>1. refresh_cache' \subseteq Names /\ state' = state
    BY <1>1, WorldFacts DEF AskSecondFactor, Accepted
  <2> QED BY <2>1, WorldKept, WorldFacts DEF Cache, World, Outside
<1>4. RowsFrom(NoToken, NoToken) /\ Kept
  BY <1>2, <1>3, SameRows
<1>5. session' = [session EXCEPT ![t] = y]
  BY DEF AskSecondFactor
<1>6. y \in Open /\ y.name = session[t].name /\ y.token = session[t].token
  BY <1>1, SessionFacts
<1> HIDE DEF y
<1>7. y \in Sessions /\ y.status # "Success" /\ Src(y.token, NoToken, NoToken)
  BY <1>1, <1>6, SessionFacts DEF Sessions, Src
<1>8. CASE Done(t)
  <2>1. Idle \notin Busy /\ Sound(Idle, y, accepted')
    BY <1>1, <1>6, IdleSound
  <2>2. TokensFrom(Idle, y, NoToken, NoToken)
    BY <1>7, <2>1 DEF TokensFrom
  <2>3. task' = [task EXCEPT ![t] = Idle]
    BY <1>8 DEF Done
  <2> QED BY <1>2, <1>3, <1>4, <1>5, <1>7, <2>1, <2>2, <2>3, OneTask
<1>9. CASE Goto(t, "password")
  <2> DEFINE x == Req("password", o.kind, o.id, o.force, o.expired, o.item, o.token, o.cred, o.how)
  <2>1. task' = [task EXCEPT ![t] = [o EXCEPT !.pc = "password"]]
    BY <1>9 DEF Goto
  <2> HIDE DEF o
  <2>2. [o EXCEPT !.pc = "password"] = x
    BY <1>1, ReqPc
  <2>3. x \in Busy
    BY <1>1 DEF Req, Busy
  <2>4. x.pc = "password" /\ x.kind = "step" /\ x.item = o.item /\ x.token = NoToken /\ x.cred = o.cred
    BY <1>1 DEF Req
  <2> HIDE DEF x
  <2>5. Sound(x, y, accepted')
    <3>1. OwnToken(x, y) /\ Path(x)
      BY <1>1, <1>6, <2>4 DEF OwnToken, Path
    <3>2. Earned(x, y, accepted')
      BY <1>1, <1>2, <1>6, <2>4 DEF Earned
    <3> QED BY <3>1, <3>2 DEF Sound
  <2>6. TokensFrom(x, y, NoToken, NoToken)
    BY <1>1, <1>7, <2>4, WorldFacts DEF TokensFrom, Src
  <2>7. task' = [task EXCEPT ![t] = x]
    BY <2>1, <2>2
  <2> QED BY <1>2, <1>3, <1>4, <1>5, <1>7, <2>3, <2>5, <2>6, <2>7, OneTask
<1> QED BY <1>8, <1>9 DEF AskSecondFactor

\* OnlinePoll preserves the invariant.
LEMMA OnlinePollCase ==
    ASSUME IInv, NEW t \in Tasks, At(t, "step_online"), OnlinePoll(t), UNCHANGED <<Cache, World>>
    PROVE  IInv' /\ Entered /\ Kept
<1> DEFINE n == session[t].name
           k == DirectoryToken(n)
<1>1. task[t] \in Busy /\ task[t].kind = "step" /\ session[t] \in Open /\ n \in Names /\ session[t].token \in Toks
  BY StepFacts DEF At
<1>2. WorldTypes' /\ UNCHANGED <<db, session, accepted>>
  <2>1. refresh_cache' \subseteq Names /\ state' = state
    BY <1>1, WorldFacts DEF OnlinePoll
  <2> QED BY <2>1, WorldKept, WorldFacts DEF OnlinePoll, Cache, World, Outside
<1>3. Grows /\ RowsFrom(NoToken, NoToken) /\ Kept
  <2>1. Grows
    BY <1>2 DEF Grows, IInv, Types
  <2> QED BY <1>2, <2>1, SameRows
<1>4. CASE Done(t)
  BY <1>2, <1>4, QuietEnd
<1>5. CASE Release(t, k, "online")
  <2>1. Shown(session[t], task[t].cred, "online", accepted') /\ "online" \in Hows
    BY <1>1 DEF Shown, Hows
  <2>2. k \in Toks /\ Src(k, NoToken, NoToken)
    BY <1>1, DirectoryTok DEF IInv, Src
  <2> HIDE DEF k
  <2> QED BY <1>1, <1>2, <1>3, <1>5, <2>1, <2>2, ReleaseTask
<1> QED BY <1>4, <1>5 DEF OnlinePoll

\* OnlineFailure preserves the invariant.
LEMMA OnlineFailureCase ==
    ASSUME IInv, NEW t \in Tasks, OnlineFailure(t), UNCHANGED <<Cache, World>>
    PROVE  IInv' /\ Entered /\ Kept
<1>1. WorldTypes' /\ UNCHANGED <<db, accepted>> /\ Done(t)
  <2>1. refresh_cache' = refresh_cache /\ state' \in States
    BY WorldFacts DEF OnlineFailure, States
  <2> QED BY <2>1, WorldKept, WorldFacts DEF OnlineFailure, Cache, World, Outside
<1>2. CASE session' = [session EXCEPT ![t] = Denied]
  BY <1>1, <1>2, DeniedEnd
<1>3. CASE UNCHANGED session
  BY <1>1, <1>3, QuietEnd
<1> QED BY <1>2, <1>3 DEF OnlineFailure

\* unix_user_online_auth_step preserves the invariant.
LEMMA OnlineAuthStep ==
    ASSUME IInv, NEW t \in Tasks, unix_user_online_auth_step(t)
    PROVE  IInv' /\ Entered /\ Kept
<1>1. /\ At(t, "step_online") /\ UNCHANGED <<Cache, World>>
      /\ OnlinePassword(t) \/ AskSecondFactor(t) \/ OnlinePoll(t) \/ OnlineFailure(t)
  BY DEF unix_user_online_auth_step
<1> QED BY <1>1, OnlinePasswordCase, AskSecondFactorCase, OnlinePollCase, OnlineFailureCase

\* set_cache_userpassword preserves the invariant: the row it changes belongs to
\* the user whose password was accepted, even if it was replaced since.
LEMMA SetCacheUserpassword ==
    ASSUME IInv, NEW t \in Tasks, set_cache_userpassword(t)
    PROVE  IInv' /\ Entered /\ Kept
<1> DEFINE k == task[t].token
           y == session[t]
           u == IF k = NoToken THEN y.token.uuid ELSE k.uuid
           cred == task[t].cred
<1>1. /\ At(t, "password") /\ db' = update_account_password(db, u, cred)
      /\ IF k = NoToken THEN Done(t) ELSE Release(t, k, "online")
      /\ UNCHANGED <<nxcache, Provider, World, History, session>>
  BY DEF set_cache_userpassword
<1>2. /\ task[t] \in Busy /\ task[t].kind = "step" /\ y \in Open /\ y.name \in Names /\ y.token \in Toks
      /\ y.token \in Held /\ y.token.name = y.name /\ cred \in Passwords \union {NoPassword}
      /\ cred \in accepted[y.name] /\ (k # NoToken => k \in Toks /\ k.uuid = RealUuid[y.name] /\ k \in Held)
  BY <1>1, StepFacts, TaskFacts DEF At, Earned
<1>3. WorldTypes' /\ UNCHANGED <<accepted, session>>
  BY <1>1, WorldKept, WorldFacts DEF Provider, World, Outside, History
<1>4. ASSUME NEW r \in db.account, r.uuid = u PROVE cred \in accepted[r.name]
  <2>1. r.token \in Held /\ r.token \in Toks /\ r.uuid = r.token.uuid /\ r.name = r.token.name
    BY RowFacts
  <2>2. CASE k = NoToken
    BY <1>2, <1>4, <2>1, <2>2, SMT DEF IInv, OneUser
  <2>3. CASE k # NoToken
    BY <1>2, <1>4, <2>1, <2>3, RealName
  <2> QED BY <2>2, <2>3
<1>5. Grows /\ RowsFrom(NoToken, NoToken) /\ Kept
  <2>1. Grows
    BY <1>3 DEF Grows, IInv, Types
  <2> HIDE DEF u
  <2> QED BY <1>1, <1>2, <1>3, <1>4, <2>1, PasswordRows
<1>6. CASE k = NoToken
  <2>1. Done(t) /\ session' = [session EXCEPT ![t] = session[t]]
    BY <1>1, <1>3, <1>6, TaskFacts
  <2>2. y # Success
    BY <1>2, ClosedSessions
  <2> QED BY <1>3, <1>5, <2>1, <2>2, EndTask
<1>7. CASE k # NoToken
  <2>1. Shown(y, cred, "online", accepted') /\ "online" \in Hows /\ Src(k, NoToken, NoToken) /\ Release(t, k, "online")
    BY <1>1, <1>2, <1>7 DEF Shown, Hows, Src
  <2> QED BY <1>2, <1>3, <1>5, <1>7, <2>1, ReleaseTask
<1> QED BY <1>6, <1>7

\* check_cache_userpassword preserves the invariant: the row it compares with
\* belongs to the user of the session.
LEMMA CheckCacheUserpassword ==
    ASSUME IInv, NEW t \in Tasks, check_cache_userpassword(t)
    PROVE  IInv' /\ Entered /\ Kept
<1> DEFINE y == session[t]
           k == y.token
           cred == task[t].cred
<1>1. /\ At(t, "step_offline") /\ UNCHANGED <<Cache, Provider, World, History>>
      /\ IF check_account_password(db, k.uuid, cred)
         THEN Release(t, k, "offline") /\ UNCHANGED session
         ELSE Done(t) /\ session' = [session EXCEPT ![t] = Denied]
  BY DEF check_cache_userpassword
<1>2. /\ task[t] \in Busy /\ task[t].kind = "step" /\ y \in Open /\ y.name \in Names /\ k \in Toks
      /\ k \in Held /\ k.name = y.name /\ ~y.force
  BY <1>1, StepFacts DEF At, Earned
<1>3. WorldTypes' /\ UNCHANGED <<db, accepted>>
  BY <1>1, WorldKept, WorldFacts DEF Cache, Provider, World, Outside, History
<1>4. CASE check_account_password(db, k.uuid, cred)
  <2>1. PICK r \in db.account : r.uuid = k.uuid /\ r.password = cred /\ cred # NoPassword
    BY <1>4 DEF check_account_password
  <2>2. r.token \in Held /\ r.uuid = r.token.uuid /\ r.name = r.token.name /\ RowOK(r, accepted)
    BY RowFacts
  <2>3. r.name = y.name
    BY <1>2, <2>1, <2>2 DEF IInv, OneUser
  <2>4. cred \in accepted[y.name]
    BY <2>1, <2>2, <2>3 DEF RowOK
  <2>5. /\ Shown(y, cred, "offline", accepted') /\ "offline" \in Hows /\ Src(k, NoToken, NoToken)
        /\ Release(t, k, "offline") /\ UNCHANGED session
    BY <1>1, <1>2, <1>3, <1>4, <2>4 DEF Shown, Hows, Src
  <2>6. Grows /\ RowsFrom(NoToken, NoToken) /\ Kept
    <3>1. Grows
      BY <1>3 DEF Grows, IInv, Types
    <3> QED BY <1>3, <3>1, SameRows
  <2> QED BY <1>2, <1>3, <2>5, <2>6, ReleaseTask
<1>5. CASE ~check_account_password(db, k.uuid, cred)
  BY <1>1, <1>3, <1>5, DeniedEnd
<1> QED BY <1>4, <1>5

\* delete_cache_usertoken preserves the invariant.
LEMMA DeleteCacheUsertoken ==
    ASSUME IInv, NEW t \in Tasks, delete_cache_usertoken(t)
    PROVE  IInv' /\ Entered
<1>1. /\ db' = delete_account(db, task[t].token.uuid) /\ session' = [session EXCEPT ![t] = Denied] /\ Done(t)
      /\ UNCHANGED <<nxcache, Provider, World, History>>
  BY DEF delete_cache_usertoken
<1>2. WorldTypes' /\ accepted' = accepted
  BY <1>1, WorldKept, WorldFacts DEF Provider, World, Outside, History
<1>3. Grows /\ RowsFrom(NoToken, NoToken)
  BY <1>1, <1>2, DeletedRows DEF Grows, IInv, Types
<1>4. Denied # Success
  BY ClosedSessions
<1> HIDE DEF Denied, Success
<1> QED BY <1>1, <1>2, <1>3, <1>4, EndTask

----------------------------------------------------------------------------
\* What happens besides the requests.
LEMMA InvalidateCase ==
    ASSUME IInv, invalidate
    PROVE  IInv' /\ Entered /\ Kept
<1>1. /\ db' = invalidate_rows(db) /\ nxcache' = [id \in Ids |-> "none"]
      /\ UNCHANGED <<state, refresh_cache, nxset, net, directory, task, session, accepted>>
  BY DEF invalidate, Provider, Outside
<1>2. WorldTypes'
  BY <1>1, WorldKept, WorldFacts
<1>3. RowsFrom(NoToken, NoToken) /\ Kept
  BY <1>1, InvalidatedRows
<1> QED BY <1>1, <1>2, <1>3, NoTask

\* clear_cache preserves the invariant.
LEMMA ClearCase ==
    ASSUME IInv, clear_cache
    PROVE  IInv' /\ Entered
<1>1. /\ db' = clear_rows(db) /\ nxcache' = [id \in Ids |-> "none"]
      /\ UNCHANGED <<state, refresh_cache, nxset, net, directory, task, session, accepted>>
  BY DEF clear_cache, Provider, Outside, History
<1>2. WorldTypes'
  BY <1>1, WorldKept, WorldFacts
<1>3. RowsFrom(NoToken, NoToken)
  BY <1>1, ClearedRows
<1> QED BY <1>1, <1>2, <1>3, NoTask

\* The cache, the requests and the sessions stay.
LEMMA WorldCase ==
    ASSUME IInv, WorldTypes', UNCHANGED <<db, task, session, accepted>>
    PROVE  IInv' /\ Entered /\ Kept
<1>1. Grows
  BY DEF Grows, IInv, Types
<1>2. RowsFrom(NoToken, NoToken) /\ Kept
  BY <1>1, SameRows
<1> QED BY <1>2, NoTask

\* reload_nxset preserves the invariant.
LEMMA ReloadCase ==
    ASSUME IInv, reload_nxset
    PROVE  IInv' /\ Entered /\ Kept
<1>1. /\ \E local \in SUBSET Names : nxset' = local \union {gid[n] : n \in local}
      /\ UNCHANGED <<db, nxcache, state, refresh_cache, net, directory, task, session, accepted>>
  BY DEF reload_nxset, Cache, Provider, History
<1>2. nxset' \subseteq Ids
  BY <1>1, ResolverAssumption DEF Ids
<1>3. WorldTypes'
  BY <1>1, <1>2, WorldFacts DEF WorldTypes
<1> QED BY <1>1, <1>3, WorldCase

\* offline_break_glass preserves the invariant.
LEMMA BreakGlassCase ==
    ASSUME IInv, offline_break_glass
    PROVE  IInv' /\ Entered /\ Kept
<1>1. state' = "Waiting" /\ UNCHANGED <<db, nxcache, refresh_cache, nxset, net, directory, task, session, accepted>>
  BY DEF offline_break_glass, Cache, Outside, History
<1>2. WorldTypes'
  BY <1>1, WorldFacts DEF WorldTypes
<1> QED BY <1>1, <1>2, WorldCase

\* Expire preserves the invariant and keeps every cached user.
LEMMA ExpireCase ==
    ASSUME IInv, Expire
    PROVE  IInv' /\ Entered /\ Kept
<1>1. UNCHANGED <<nxset, net, directory, task, session, accepted>>
  BY DEF Expire, Outside, History
<1>2. CASE \E r \in db.account :
             /\ r.expiry = 1
             /\ db' = [db EXCEPT !.account = (@ \ {r}) \union {[r EXCEPT !.expiry = 0]}]
             /\ UNCHANGED <<nxcache, Provider>>
  <2>1. PICK r \in db.account :
             /\ db' = [db EXCEPT !.account = (@ \ {r}) \union {[r EXCEPT !.expiry = 0]}]
             /\ UNCHANGED <<nxcache, Provider>>
    BY <1>2
  <2> DEFINE A == (db.account \ {r}) \union {[r EXCEPT !.expiry = 0]}
  <2>2. db' = [account |-> A, group |-> db.group, memberof |-> db.memberof]
    <3>1. db' = [db EXCEPT !.account = A]
      BY <2>1
    <3> HIDE DEF A
    <3>2. db = [account |-> db.account, group |-> db.group, memberof |-> db.memberof]
      BY DEF IInv, Types
    <3> QED BY <3>1, <3>2
  <2>3. WorldTypes'
    BY <1>1, <2>1, WorldKept, WorldFacts DEF Provider
  <2>4. RowsFrom(NoToken, NoToken) /\ Kept
    BY <1>1, <2>2, ExpiredRow
  <2> QED BY <1>1, <2>3, <2>4, NoTask
<1>3. CASE \E id \in Ids :
             /\ nxcache[id] = "fresh"
             /\ nxcache' = [nxcache EXCEPT ![id] = "expired"]
             /\ UNCHANGED <<db, Provider>>
  <2>1. nxcache' \in [Ids -> {"none", "fresh", "expired"}] /\ UNCHANGED <<db, state, refresh_cache>>
    BY <1>3, WorldFacts DEF Provider
  <2>2. WorldTypes'
    BY <1>1, <2>1, WorldKept, WorldFacts
  <2> QED BY <1>1, <2>1, <2>2, WorldCase
<1>4. CASE state = "Waiting" /\ state' = "Due" /\ UNCHANGED <<Cache, refresh_cache>>
  <2>1. WorldTypes' /\ db' = db
    BY <1>1, <1>4, WorldKept, WorldFacts DEF Cache, States
  <2> QED BY <1>1, <2>1, WorldCase
<1>5. CASE \E n \in refresh_cache : refresh_cache' = refresh_cache \ {n} /\ UNCHANGED <<Cache, state>>
  <2>1. WorldTypes' /\ db' = db
    BY <1>1, <1>5, WorldKept, WorldFacts DEF Cache
  <2> QED BY <1>1, <2>1, WorldCase
<1> QED BY <1>2, <1>3, <1>4, <1>5 DEF Expire

\* Restart preserves the invariant: the requests and sessions are gone, the rows are not.
LEMMA RestartCase ==
    ASSUME IInv, Restart
    PROVE  IInv' /\ Entered /\ Kept
<1>1. /\ nxcache' = [id \in Ids |-> "none"] /\ state' = "Due" /\ refresh_cache' \in {{}, refresh_cache}
      /\ task' = [t \in Tasks |-> Idle] /\ session' = [t \in Tasks |-> NoSession]
      /\ UNCHANGED <<db, nxset, net, directory, accepted>>
  BY DEF Restart, Outside, History
<1>2. WorldTypes'
  BY <1>1, WorldKept, WorldFacts DEF States
<1>3. Grows
  BY <1>1 DEF Grows, IInv, Types
<1>4. RowsFrom(NoToken, NoToken) /\ Kept
  BY <1>1, <1>3, SameRows
<1>5. NoSession \in Sessions /\ NoSession \notin Open /\ NoSession.status # "Success"
  BY ClosedSessions
<1>6. Idle \notin Busy /\ Sound(Idle, NoSession, accepted')
  BY <1>5, IdleSound
<1> HIDE DEF Idle, NoSession
<1>7. task' \in [Tasks -> {Idle} \union Busy] /\ session' \in [Tasks -> Sessions]
  BY <1>1, <1>5
<1>8. \A u \in Tasks : task'[u] = Idle /\ session'[u] = NoSession
  BY <1>1
<1>9. TokensFrom(Idle, NoSession, NoToken, NoToken)
  BY <1>5, <1>6 DEF TokensFrom
<1>10. IInv'
  BY <1>2, <1>3, <1>4, <1>6, <1>7, <1>8, <1>9, AnyStep, SMT
<1>11. Entered
  BY <1>5, <1>8 DEF Entered, SignedIn
<1> QED BY <1>4, <1>10, <1>11

\* NetworkChange preserves the invariant.
LEMMA NetworkCase ==
    ASSUME IInv, NetworkChange
    PROVE  IInv' /\ Entered /\ Kept
<1>1. net' = ~net /\ UNCHANGED <<db, nxcache, state, refresh_cache, nxset, directory, task, session, accepted>>
  BY DEF NetworkChange, Cache, Provider, History
<1>2. WorldTypes'
  BY <1>1, WorldFacts DEF WorldTypes
<1> QED BY <1>1, <1>2, WorldCase

\* DirectoryChange preserves the invariant.
LEMMA DirectoryCase ==
    ASSUME IInv, DirectoryChange
    PROVE  IInv' /\ Entered /\ Kept
<1>1. PICK n \in Names, e \in BOOLEAN, pw \in Passwords :
          /\ directory[n].rev < MaxRev
          /\ directory' = [directory EXCEPT ![n] = [exists |-> e, rev |-> directory[n].rev + 1, password |-> pw]]
  BY DEF DirectoryChange
<1>2. UNCHANGED <<db, nxcache, state, refresh_cache, nxset, net, task, session, accepted>>
  BY DEF DirectoryChange, Cache, Provider, History
<1>3. directory \in [Names -> [exists : BOOLEAN, rev : 1..MaxRev, password : Passwords]] /\ directory[n].rev \in 1..MaxRev
  BY WorldFacts DEF WorldTypes
<1>4. [exists |-> e, rev |-> directory[n].rev + 1, password |-> pw] \in [exists : BOOLEAN, rev : 1..MaxRev, password : Passwords]
  BY <1>1, <1>3, ResolverAssumption, SMT
<1>5. directory' \in [Names -> [exists : BOOLEAN, rev : 1..MaxRev, password : Passwords]]
  BY <1>1, <1>3, <1>4
<1>6. WorldTypes'
  BY <1>2, <1>5, WorldFacts DEF WorldTypes
<1> QED BY <1>2, <1>6, WorldCase

----------------------------------------------------------------------------
\* The steps that may remove a cached user.
Removal == clear_cache \/ \E t \in Tasks : delete_cache_usertoken(t)

\* The invariant holds when the daemon first starts.
LEMMA InitHolds == Init => IInv
<1> SUFFICES ASSUME Init PROVE IInv
  OBVIOUS
<1>1. db.account = {} /\ db = [account |-> db.account, group |-> db.group, memberof |-> db.memberof]
  BY DEF Init, Empty
<1>2. WorldTypes
  <2>1. directory \in [Names -> [exists : {TRUE}, rev : {1}, password : Passwords]]
    BY DEF Init
  <2>2. directory \in [Names -> [exists : BOOLEAN, rev : 1..MaxRev, password : Passwords]]
    <3>1. 1 \in 1..MaxRev
      BY ResolverAssumption, SMT
    <3> QED BY <2>1, <3>1
  <2> QED BY <2>2 DEF Init, WorldTypes
<1>3. NoSession \in Sessions /\ NoSession \notin Open
  BY ClosedSessions
<1>4. Idle \notin Busy /\ Sound(Idle, NoSession, accepted)
  BY <1>3, IdleSound
<1> HIDE DEF Idle, NoSession
<1>5. \A t \in Tasks : task[t] = Idle /\ session[t] = NoSession
  BY DEF Init
<1>6. Types
  BY <1>1, <1>2, <1>3 DEF Init, Types
<1>7. Held = {}
  BY <1>1, <1>3, <1>4, <1>5 DEF Held
<1> QED BY <1>1, <1>4, <1>5, <1>6, <1>7 DEF IInv, OneUser

\* Every step preserves the invariant, lets in no user but one whose token it
\* stores, and keeps every cached user unless it is a removal.
LEMMA NextHolds ==
    ASSUME IInv, [Next]_vars
    PROVE  IInv' /\ Entered /\ (Kept \/ Removal)
<1>1. CASE UNCHANGED vars
  <2>1. WorldTypes' /\ UNCHANGED <<db, task, session, accepted>>
    BY <1>1, WorldFacts DEF vars, WorldTypes
  <2> QED BY <2>1, WorldCase
<1>2. ASSUME NEW t \in Tasks, Request(t) PROVE IInv' /\ Entered /\ Kept
  BY <1>2, GetUsertoken, AuthenticateInit, AuthenticateStep DEF Request
<1>3. ASSUME NEW t \in Tasks, Lookup(t) PROVE IInv' /\ Entered /\ Kept
  BY <1>3, GetCachestate, TestConnection, RefreshUsertoken, NotFoundCase, SetCacheUsertoken DEF Lookup
<1>4. ASSUME NEW t \in Tasks, SignIn(t) PROVE IInv' /\ Entered /\ (Kept \/ Removal)
  <2>1. CASE delete_cache_usertoken(t)
    BY <2>1, DeleteCacheUsertoken DEF Removal
  <2> QED BY <1>4, <2>1, OnlineAuthInit, OfflineAuthInit, OnlineAuthStep, SetCacheUserpassword, CheckCacheUserpassword
       DEF SignIn
<1>5. CASE clear_cache
  BY <1>5, ClearCase DEF Removal
<1>6. CASE invalidate \/ reload_nxset \/ offline_break_glass \/ Expire \/ Restart \/ NetworkChange \/ DirectoryChange
  BY <1>6, InvalidateCase, ReloadCase, BreakGlassCase, ExpireCase, RestartCase, NetworkCase, DirectoryCase
<1> QED BY <1>1, <1>2, <1>3, <1>4, <1>5, <1>6 DEF Next

\* IInv is an invariant of the resolver, for any users, connections, passwords and
\* number of events.
THEOREM InvariantHolds == Spec => []IInv
<1>1. IInv /\ [Next]_vars => IInv'
  BY NextHolds
<1> QED BY <1>1, InitHolds, PTL DEF Spec

\* TypeOK holds: in particular a request that is about to store or to refuse a
\* token has one (refresh_usertoken, pam_account_authenticate_step).
THEOREM TypeCorrect == Spec => []TypeOK
<1>1. IInv => TypeOK
  <2> SUFFICES ASSUME IInv PROVE TypeOK
    OBVIOUS
  <2>1. \A r \in db.account : IsToken(r.token) /\ r.password \in Passwords \union {NoPassword} /\ r.expiry \in {0, 1}
    BY RowFacts, TokFacts DEF Rows
  <2>2. ASSUME NEW t \in Tasks
        PROVE  /\ task[t].pc \in {"store", "purge"} => IsToken(task[t].token)
               /\ task[t].pc \in {"step_online", "step_offline", "password"} =>
                     session[t].status = "InProgress" /\ IsToken(session[t].token)
    <3>1. task[t].pc \in {"store", "purge"} => IsToken(task[t].token)
      BY TaskFacts, TokFacts DEF At, Sound, Path
    <3>2. task[t].pc \in {"step_online", "step_offline", "password"} =>
              session[t].status = "InProgress" /\ IsToken(session[t].token)
      BY StepFacts, TaskFacts, SessionFacts, TokFacts
    <3> QED BY <3>1, <3>2
  <2> QED BY <2>1, <2>2, WorldFacts DEF TypeOK, WorldTypes
<1> QED BY <1>1, InvariantHolds, PTL

\* UserStaysCached: no lookup, refresh, outage or error of the directory deletes
\* a cached user (unix_user_get never answers NotFound for a user it was given a
\* token of, and update_account replaces rows of the same user only).
THEOREM NoUserLost == Spec => UserStaysCached
<1>1. IInv /\ [Next]_vars =>
          [\A n \in Names : Cached(n) /\ ~Cached(n)' => clear_cache \/ \E t \in Tasks : delete_cache_usertoken(t)]_vars
  <2> SUFFICES ASSUME IInv, [Next]_vars
               PROVE  \A n \in Names : Cached(n) /\ ~Cached(n)' => Removal
    BY DEF Removal
  <2> QED BY NextHolds DEF Kept
<1> QED BY <1>1, InvariantHolds, PTL DEF Spec, UserStaysCached

\* OfflinePasswordWasAccepted: whoever signs in offline gave a password that the
\* directory accepted for that user, whatever happened to the row in between.
THEOREM OfflinePasswords == Spec => OfflinePasswordWasAccepted
<1>1. IInv /\ [Next]_vars =>
          [\A t \in Tasks : SignedIn(t) /\ task[t].how = "offline" => task[t].cred \in accepted[session[t].name]]_vars
  <2> SUFFICES ASSUME IInv, [Next]_vars, NEW t \in Tasks, SignedIn(t), task[t].how = "offline"
               PROVE  task[t].cred \in accepted[session[t].name]
    OBVIOUS
  <2>1. At(t, "store") /\ task[t].kind = "step"
    BY NextHolds DEF Entered
  <2>2. task[t] \in Busy /\ Earned(task[t], session[t], accepted)
    BY <2>1, TaskFacts DEF At, Sound
  <2> QED BY <2>1, <2>2 DEF Earned, At
<1> QED BY <1>1, InvariantHolds, PTL DEF Spec, OfflinePasswordWasAccepted

\* ReauthOnline: a sign-in with force_reauth succeeds only online, even if the
\* provider goes offline between its steps.
THEOREM ForcedOnline == Spec => ReauthOnline
<1>1. IInv /\ [Next]_vars =>
          [\A t \in Tasks : SignedIn(t) /\ session[t].force => task[t].how = "online"]_vars
  <2> SUFFICES ASSUME IInv, [Next]_vars, NEW t \in Tasks, SignedIn(t), session[t].force
               PROVE  task[t].how = "online"
    OBVIOUS
  <2>1. At(t, "store") /\ task[t].kind = "step"
    BY NextHolds DEF Entered
  <2>2. task[t] \in Busy /\ Earned(task[t], session[t], accepted)
    BY <2>1, TaskFacts DEF At, Sound
  <2> QED BY <2>1, <2>2 DEF Earned, At
<1> QED BY <1>1, InvariantHolds, PTL DEF Spec, ReauthOnline
=============================================================================
