--------------------------- MODULE UnixCacheProofs ---------------------------
(***************************************************************************)
(* For any number of accounts, groups and tokens: the cache database stays *)
(* well-typed, no lookup in it is ambiguous, and no account is listed as a *)
(* member of a group that its own token does not have.                     *)
(***************************************************************************)
EXTENDS UnixCache, TLAPS

\* What update_account and update_group keep of a row: it is the row of its token.
RowsOfTokens(rows, toks) ==
    \A r \in rows :
        /\ r.token \in toks
        /\ r.uuid = r.token.uuid /\ r.name = r.token.name
        /\ r.spn = r.token.spn /\ r.gidnumber = r.token.gidnumber

\* Every membership of an account that is still there is one of its token's.
OwnMemberships(db) ==
    \A r \in db.account, m \in db.memberof :
        m.a_uuid = r.uuid => \E grp \in r.token.groups : grp.uuid = m.g_uuid

WellFormed(db) ==
    /\ db \in Databases
    /\ RowsOfTokens(db.account, Tokens) /\ RowsOfTokens(db.group, GroupTokens)
    /\ Distinct(db.account) /\ Distinct(db.group)
    /\ OwnMemberships(db)

IInv == WellFormed(disk) /\ WellFormed(conn) /\ open \in BOOLEAN

-----------------------------------------------------------------------------
\* What the assumption on the tokens says of their fields.
LEMMA TokenTypes ==
    /\ \A tok \in Tokens : /\ tok.uuid \in Uuids /\ tok.name \in Names /\ tok.spn \in Names
                           /\ tok.gidnumber \in Gids /\ tok.groups \subseteq GroupTokens
    /\ \A grp \in GroupTokens : /\ grp.uuid \in GroupUuids /\ grp.name \in Names
                                /\ grp.spn \in Names /\ grp.gidnumber \in Gids
BY TokensAssumption

\* A new database file is well formed.
LEMMA EmptyWellFormed == WellFormed(Empty)
BY DEF WellFormed, Empty, Databases, RowsOfTokens, Distinct, OwnMemberships

\* update_account: the purge makes room for the row, and the row keeps apart from the others.
LEMMA UpdateAccountWellFormed ==
    ASSUME NEW db, WellFormed(db), NEW tok \in Tokens, NEW e \in Expiries
    PROVE  WellFormed(update_account(db, tok, e))
<1> DEFINE new == update_account(db, tok, e)
           rows == UpsertAccount(db.account, tok, e)
           members == SetMemberships(db.memberof, tok)
<1>1. /\ new.account = rows /\ new.memberof = members /\ new.group = db.group
      /\ new = [account |-> rows, group |-> db.group, memberof |-> members]
  BY DEF update_account, WellFormed, Databases
<1>2. \A r \in rows :
         \/ r \in db.account /\ r.uuid # tok.uuid /\ ~Clash(r, tok)
         \/ \E pw \in Passwords \union {NoPassword} : r = AccountRow(tok, pw, e)
  BY DEF UpsertAccount, WellFormed, Databases
<1>3. \A r \in rows : r.uuid = tok.uuid => \E pw \in Passwords \union {NoPassword} : r = AccountRow(tok, pw, e)
  BY <1>2
<1>4. \A r, s \in rows : r.uuid = tok.uuid /\ s.uuid = tok.uuid => r = s
  BY DEF UpsertAccount, AccountRow, WellFormed, Distinct
<1>5. rows \in SUBSET [uuid : Uuids, name : Names, spn : Names, gidnumber : Gids,
                       password : Passwords \union {NoPassword}, token : Tokens, expiry : Expiries \union {0}]
  BY <1>2, TokenTypes DEF AccountRow, WellFormed, Databases
<1>6. members \in SUBSET [g_uuid : GroupUuids, a_uuid : Uuids]
  BY TokenTypes DEF SetMemberships, WellFormed, Databases
<1>7. new \in Databases
  BY <1>1, <1>5, <1>6 DEF Databases, WellFormed
<1>8. RowsOfTokens(rows, Tokens)
  BY <1>2 DEF RowsOfTokens, AccountRow, WellFormed
<1>9. Distinct(rows)
  BY <1>2, <1>4 DEF Distinct, WellFormed, AccountRow, Clash
<1>10. OwnMemberships(new)
  <2> SUFFICES ASSUME NEW r \in rows, NEW m \in members, m.a_uuid = r.uuid
               PROVE  \E grp \in r.token.groups : grp.uuid = m.g_uuid
    BY <1>1 DEF OwnMemberships
  <2>1. CASE r.uuid = tok.uuid
    <3>1. r.token = tok
      BY <1>3, <2>1 DEF AccountRow
    <3>2. PICK g \in tok.groups : m = [g_uuid |-> g.uuid, a_uuid |-> tok.uuid]
      BY <2>1 DEF SetMemberships
    <3> QED BY <3>1, <3>2
  <2>2. CASE r.uuid # tok.uuid
    <3>1. r \in db.account
      BY <1>2, <2>2 DEF AccountRow
    <3>2. m \in db.memberof
      BY <2>2 DEF SetMemberships
    <3> QED BY <3>1, <3>2 DEF WellFormed, OwnMemberships
  <2> QED BY <2>1, <2>2
<1> QED BY <1>1, <1>7, <1>8, <1>9, <1>10 DEF WellFormed

\* update_group: INSERT OR REPLACE keeps no row that clashes with the new one.
LEMMA UpdateGroupWellFormed ==
    ASSUME NEW db, WellFormed(db), NEW grp \in GroupTokens, NEW e \in Expiries
    PROVE  WellFormed(update_group(db, grp, e))
<1> DEFINE new == update_group(db, grp, e)
           rows == new.group
<1>1. new.account = db.account /\ new.memberof = db.memberof
  BY DEF update_group
<1>2. \A r \in rows :
         \/ r \in db.group /\ r.uuid # grp.uuid /\ ~Clash(r, grp)
         \/ r = GroupRow(grp, e)
  BY DEF update_group
<1>3. rows \in SUBSET [uuid : GroupUuids, name : Names, spn : Names, gidnumber : Gids,
                       token : GroupTokens, expiry : Expiries \union {0}]
  BY <1>2, TokenTypes DEF GroupRow, WellFormed, Databases
<1>4. new \in Databases
  BY <1>1, <1>3 DEF update_group, WellFormed, Databases
<1>5. RowsOfTokens(rows, GroupTokens)
  BY <1>2 DEF RowsOfTokens, GroupRow, WellFormed
<1>6. Distinct(rows)
  BY <1>2 DEF Distinct, WellFormed, GroupRow, Clash
<1> QED BY <1>1, <1>4, <1>5, <1>6 DEF WellFormed, OwnMemberships

\* A statement that only deletes rows.
LEMMA DeletionWellFormed ==
    ASSUME NEW db, WellFormed(db), NEW new,
           new = [account |-> new.account, group |-> new.group, memberof |-> new.memberof],
           new.account \subseteq db.account, new.group \subseteq db.group, new.memberof \subseteq db.memberof
    PROVE  WellFormed(new)
<1>1. new \in Databases
  BY DEF WellFormed, Databases
<1> QED BY <1>1 DEF WellFormed, RowsOfTokens, Distinct, OwnMemberships

\* A statement that rewrites columns other than the keys and the token.
SameKeys(r, s) ==
    /\ r.uuid = s.uuid /\ r.name = s.name /\ r.spn = s.spn
    /\ r.gidnumber = s.gidnumber /\ r.token = s.token

\* A statement that rewrites columns other than the key ones.
LEMMA RewriteRows ==
    ASSUME NEW rows, NEW new, NEW toks, Distinct(rows), RowsOfTokens(rows, toks),
           \A n \in new : \E r \in rows : SameKeys(n, r),
           \A m, n \in new : m.uuid = n.uuid => m = n
    PROVE  Distinct(new) /\ RowsOfTokens(new, toks)
<1>1. Distinct(new)
  <2> SUFFICES ASSUME NEW m \in new, NEW n \in new, m # n
               PROVE  m.uuid # n.uuid /\ ~Clash(m, n)
    BY DEF Distinct
  <2>1. PICK r \in rows : SameKeys(m, r)
    OBVIOUS
  <2>2. PICK s \in rows : SameKeys(n, s)
    OBVIOUS
  <2>3. m.uuid # n.uuid
    OBVIOUS
  <2> QED BY <2>1, <2>2, <2>3 DEF Distinct, SameKeys, Clash
<1>2. RowsOfTokens(new, toks)
  BY DEF RowsOfTokens, SameKeys
<1> QED BY <1>1, <1>2

\* update_account_password.
LEMMA UpdatePasswordWellFormed ==
    ASSUME NEW db, WellFormed(db), NEW u \in Uuids, NEW pw \in Passwords
    PROVE  WellFormed(update_account_password(db, u, pw))
<1> DEFINE new == update_account_password(db, u, pw)
           rows == new.account
           Changed(r) == IF r.uuid = u THEN [r EXCEPT !.password = pw] ELSE r
<1>1. /\ new = [account |-> rows, group |-> db.group, memberof |-> db.memberof]
      /\ new.group = db.group /\ new.memberof = db.memberof
  BY DEF update_account_password
<1>2. \A n \in rows : \E r \in db.account : n = Changed(r)
  BY DEF update_account_password
<1>3. \A r \in db.account : SameKeys(Changed(r), r)
  BY DEF SameKeys, WellFormed, Databases
<1>4. rows \in SUBSET [uuid : Uuids, name : Names, spn : Names, gidnumber : Gids,
                       password : Passwords \union {NoPassword}, token : Tokens, expiry : Expiries \union {0}]
  BY <1>2 DEF WellFormed, Databases
<1>5. \A n \in rows : \E r \in db.account : SameKeys(n, r)
  <2> HIDE DEF rows, Changed
  <2> QED BY <1>2, <1>3
<1>6. \A m, n \in rows : m.uuid = n.uuid => m = n
  <2> SUFFICES ASSUME NEW m \in rows, NEW n \in rows, m.uuid = n.uuid PROVE m = n
    OBVIOUS
  <2>1. PICK r \in db.account : m = Changed(r)
    BY <1>2
  <2>2. PICK s \in db.account : n = Changed(s)
    BY <1>2
  <2>3. r.uuid = s.uuid
    BY <2>1, <2>2, <1>3 DEF SameKeys
  <2> QED BY <2>1, <2>2, <2>3 DEF WellFormed, Distinct
<1>7. Distinct(rows) /\ RowsOfTokens(rows, Tokens)
  BY <1>5, <1>6, RewriteRows DEF WellFormed
<1>8. OwnMemberships(new)
  BY <1>1, <1>5 DEF WellFormed, OwnMemberships, SameKeys
<1>9. new \in Databases
  BY <1>1, <1>4 DEF WellFormed, Databases
<1> QED BY <1>1, <1>7, <1>8, <1>9 DEF WellFormed

\* invalidate sets the expiry of every row.
LEMMA InvalidateWellFormed ==
    ASSUME NEW db, WellFormed(db)
    PROVE  WellFormed(invalidate_rows(db))
<1> DEFINE new == invalidate_rows(db)
           Stale(r) == [r EXCEPT !.expiry = 0]
<1>1. /\ new = [account |-> new.account, group |-> new.group, memberof |-> db.memberof]
      /\ new.memberof = db.memberof
      /\ \A n \in new.account : \E r \in db.account : n = Stale(r)
      /\ \A n \in new.group : \E r \in db.group : n = Stale(r)
  BY DEF invalidate_rows
<1>2. /\ \A r \in db.account : SameKeys(Stale(r), r)
      /\ \A r \in db.group : SameKeys(Stale(r), r)
  BY DEF SameKeys, WellFormed, Databases
<1>3. /\ new.account \in SUBSET [uuid : Uuids, name : Names, spn : Names, gidnumber : Gids,
                       password : Passwords \union {NoPassword}, token : Tokens, expiry : Expiries \union {0}]
      /\ new.group \in SUBSET [uuid : GroupUuids, name : Names, spn : Names, gidnumber : Gids,
                       token : GroupTokens, expiry : Expiries \union {0}]
  BY DEF invalidate_rows, WellFormed, Databases
<1>4. new \in Databases
  BY <1>1, <1>3 DEF WellFormed, Databases
<1>5. /\ \A n \in new.account : \E r \in db.account : SameKeys(n, r)
      /\ \A n \in new.group : \E r \in db.group : SameKeys(n, r)
  <2> HIDE DEF new, Stale
  <2> QED BY <1>1, <1>2
<1>6. /\ \A m, n \in new.account : m.uuid = n.uuid => m = n
      /\ \A m, n \in new.group : m.uuid = n.uuid => m = n
  <2> HIDE DEF new, Stale
  <2>1. /\ \A r, s \in db.account : r.uuid = s.uuid => r = s
        /\ \A r, s \in db.group : r.uuid = s.uuid => r = s
    BY DEF WellFormed, Distinct
  <2> QED BY <1>1, <1>2, <2>1 DEF SameKeys
<1>7. Distinct(new.account) /\ RowsOfTokens(new.account, Tokens)
  <2> HIDE DEF new
  <2> QED BY <1>5, <1>6, RewriteRows DEF WellFormed
<1>8. Distinct(new.group) /\ RowsOfTokens(new.group, GroupTokens)
  <2> HIDE DEF new
  <2> QED BY <1>5, <1>6, RewriteRows DEF WellFormed
<1>9. OwnMemberships(new)
  <2> HIDE DEF new
  <2> QED BY <1>1, <1>5 DEF WellFormed, OwnMemberships, SameKeys
<1> QED BY <1>4, <1>7, <1>8, <1>9 DEF WellFormed

-----------------------------------------------------------------------------
\* Every statement, the commit and the rollback keep both databases well formed.
LEMMA NextIInv == IInv /\ [Next]_vars => IInv'
<1> SUFFICES ASSUME IInv, [Next]_vars PROVE IInv'
  OBVIOUS
<1> USE DEF IInv
<1>1. CASE write
  BY <1>1 DEF write
<1>2. CASE UpdateAccount
  BY <1>2, UpdateAccountWellFormed DEF UpdateAccount, Statement
<1>3. CASE DeleteAccount
  <2>1. PICK u \in Uuids : Statement(delete_account(conn, u))
    BY <1>3 DEF DeleteAccount
  <2>2. WellFormed(delete_account(conn, u))
    BY DeletionWellFormed DEF delete_account
  <2> QED BY <2>1, <2>2 DEF Statement
<1>4. ASSUME NEW u \in Uuids, UpdatePassword(u) PROVE IInv'
  BY <1>4, UpdatePasswordWellFormed DEF UpdatePassword, Statement
<1>5. CASE UpdateGroup
  BY <1>5, UpdateGroupWellFormed DEF UpdateGroup, Statement
<1>6. CASE DeleteGroup
  <2>1. PICK g \in GroupUuids : Statement(delete_group(conn, g))
    BY <1>6 DEF DeleteGroup
  <2>2. WellFormed(delete_group(conn, g))
    BY DeletionWellFormed DEF delete_group
  <2> QED BY <2>1, <2>2 DEF Statement
<1>7. CASE Invalidate
  BY <1>7, InvalidateWellFormed DEF Invalidate, Statement
<1>8. CASE Clear
  BY <1>8, EmptyWellFormed DEF Clear, Statement, clear_rows, Empty
<1>9. CASE commit
  BY <1>9 DEF commit
<1>10. CASE rollback
  BY <1>10 DEF rollback
<1>11. CASE UNCHANGED vars
  BY <1>11 DEF vars
<1> QED BY <1>1, <1>2, <1>3, <1>4, <1>5, <1>6, <1>7, <1>8, <1>9, <1>10, <1>11 DEF Next

\* Every database the connection or the disk ever holds is well formed.
THEOREM Invariance == Spec => []IInv
<1>1. Init => IInv
  BY EmptyWellFormed DEF Init, IInv
<1> QED BY <1>1, NextIInv, PTL DEF Spec

(***************************************************************************)
(* Every statement of db.rs leaves rows of the declared columns.           *)
(***************************************************************************)
THEOREM TypeCorrect == Spec => []TypeOK
<1>1. IInv => TypeOK
  BY DEF IInv, TypeOK, WellFormed
<1> QED BY <1>1, Invariance, PTL

\* The lookups of a well-formed database.
LEMMA WellFormedUnambiguous ==
    ASSUME NEW db, WellFormed(db)
    PROVE  /\ \A id : /\ ~TooManyResults(get_account_data_name(db, id))
                      /\ TooManyResults(get_group_data_name(db, id)) => NamedAsUuid(db, id)
           /\ \A gid : ~TooManyResults(get_account_data_gid(db, gid)) /\ ~TooManyResults(get_group_data_gid(db, gid))
<1>1. \A r \in db.account : r.name = r.spn /\ r.name \notin Uuids /\ r.uuid \in Uuids
  BY TokensAssumption, TokenTypes DEF WellFormed, RowsOfTokens
<1>2. \A r \in db.group : r.name = r.spn
  BY TokensAssumption DEF WellFormed, RowsOfTokens
<1>3. \A id : ~TooManyResults(get_account_data_name(db, id))
  BY <1>1, TokensAssumption DEF TooManyResults, get_account_data_name, WellFormed, Distinct, Clash
<1>4. \A id : TooManyResults(get_group_data_name(db, id)) => NamedAsUuid(db, id)
  BY <1>2 DEF TooManyResults, get_group_data_name, NamedAsUuid, WellFormed, Distinct, Clash
<1>5. \A gid : ~TooManyResults(get_account_data_gid(db, gid)) /\ ~TooManyResults(get_group_data_gid(db, gid))
  BY DEF TooManyResults, get_account_data_gid, get_group_data_gid, WellFormed, Distinct, Clash
<1> QED BY <1>3, <1>4, <1>5

(***************************************************************************)
(* Whatever tokens the providers hand out, get_account never sees two rows *)
(* and get_group only for an identifier that is the uuid of one cached     *)
(* group and the name of another.                                          *)
(***************************************************************************)
THEOREM LookupsUnambiguous == Spec => []LookupUnambiguous
<1>1. ASSUME NEW db, WellFormed(db)
      PROVE  /\ Distinct(db.account) /\ Distinct(db.group)
             /\ \A id \in Uuids \union GroupUuids \union Names :
                    /\ ~TooManyResults(get_account_data_name(db, id))
                    /\ TooManyResults(get_group_data_name(db, id)) => NamedAsUuid(db, id)
             /\ \A gid \in Gids :
                    ~TooManyResults(get_account_data_gid(db, gid)) /\ ~TooManyResults(get_group_data_gid(db, gid))
  <2>1. Distinct(db.account) /\ Distinct(db.group)
    BY <1>1 DEF WellFormed
  <2> QED BY <1>1, <2>1, WellFormedUnambiguous
<1>2. IInv => LookupUnambiguous
  BY <1>1 DEF IInv, LookupUnambiguous
<1> QED BY <1>2, Invariance, PTL

(***************************************************************************)
(* get_group_members lists only accounts whose cached token has the group. *)
(***************************************************************************)
THEOREM MembersOwnGroup == Spec => []MembersHaveGroup
<1>1. ASSUME NEW db, WellFormed(db), NEW g, NEW tok \in get_group_members(db, g)
      PROVE  \E grp \in tok.groups : grp.uuid = g
  <2>1. PICK r \in db.account : tok = r.token /\ [g_uuid |-> g, a_uuid |-> r.uuid] \in db.memberof
    BY <1>1 DEF get_group_members
  <2> QED BY <1>1, <2>1 DEF WellFormed, OwnMemberships
<1>2. IInv => MembersHaveGroup
  BY <1>1 DEF IInv, MembersHaveGroup
<1> QED BY <1>2, Invariance, PTL

-----------------------------------------------------------------------------
\* A row that a statement keeps, possibly rewritten, has the password it had.
PasswordsKept(old, new) ==
    /\ \A n \in new :
          \/ \E r \in old : r.uuid = n.uuid /\ r.password = n.password
          \/ n.password = NoPassword /\ \A r \in old : r.uuid # n.uuid
    /\ \A m, n \in new : m.uuid = n.uuid => m = n
    /\ \A m, n \in old : m.uuid = n.uuid => m = n

\* Rows that keep their password, when looked at by uuid.
LEMMA KeptPasswords ==
    ASSUME NEW db, NEW new, PasswordsKept(db.account, new.account), NEW u
    PROVE  \/ PasswordOf(new, u) \in {PasswordOf(db, u), {}}
           \/ PasswordOf(db, u) = {} /\ PasswordOf(new, u) = {NoPassword}
<1>1. CASE \A n \in new.account : n.uuid # u
  BY <1>1 DEF PasswordOf
<1>2. CASE \E n \in new.account : n.uuid = u
  <2>1. PICK n \in new.account : n.uuid = u
    BY <1>2
  <2>2. PasswordOf(new, u) = {n.password}
    BY <2>1 DEF PasswordOf, PasswordsKept
  <2>3. CASE \E r \in db.account : r.uuid = u /\ r.password = n.password
    <3>1. PasswordOf(db, u) = {n.password}
      BY <2>3 DEF PasswordOf, PasswordsKept
    <3> QED BY <2>2, <3>1
  <2>4. CASE n.password = NoPassword /\ \A r \in db.account : r.uuid # u
    BY <2>2, <2>4 DEF PasswordOf
  <2> QED BY <2>1, <2>3, <2>4 DEF PasswordsKept
<1> QED BY <1>1, <1>2

\* update_account leaves the password of the account and of the others.
LEMMA UpdateAccountKeepsPasswords ==
    ASSUME NEW db, WellFormed(db), NEW tok \in Tokens, NEW e \in Expiries
    PROVE  PasswordsKept(db.account, update_account(db, tok, e).account)
<1> DEFINE rows == UpsertAccount(db.account, tok, e)
<1>1. update_account(db, tok, e).account = rows
  BY DEF update_account
<1>2. \A n \in rows :
         \/ \E r \in db.account : r.uuid = n.uuid /\ r.password = n.password
         \/ n.password = NoPassword /\ \A r \in db.account : r.uuid # n.uuid
  BY DEF UpsertAccount, AccountRow
<1>3. \A m, n \in rows : m.uuid = n.uuid => m = n
  BY <1>1, UpdateAccountWellFormed DEF WellFormed, Distinct
<1> QED BY <1>1, <1>2, <1>3 DEF PasswordsKept, WellFormed, Distinct

\* invalidate leaves the passwords alone.
LEMMA InvalidateKeepsPasswords ==
    ASSUME NEW db, WellFormed(db)
    PROVE  PasswordsKept(db.account, invalidate_rows(db).account)
<1> DEFINE rows == invalidate_rows(db).account
<1>1. \A n \in rows : \E r \in db.account : r.uuid = n.uuid /\ r.password = n.password
  BY DEF invalidate_rows, WellFormed, Databases
<1>2. \A m, n \in rows : m.uuid = n.uuid => m = n
  BY InvalidateWellFormed DEF WellFormed, Distinct
<1>3. PasswordsKept(db.account, rows)
  <2> HIDE DEF rows
  <2> QED BY <1>1, <1>2 DEF PasswordsKept, WellFormed, Distinct
<1> QED BY <1>3

\* A password that is set for one account leaves the others alone.
LEMMA PasswordOfOthers ==
    ASSUME NEW db, WellFormed(db), NEW u, NEW pw, NEW v, v # u
    PROVE  PasswordOf(update_account_password(db, u, pw), v) = PasswordOf(db, v)
<1> DEFINE new == update_account_password(db, u, pw)
<1>1. {n \in new.account : n.uuid = v} = {r \in db.account : r.uuid = v}
  BY DEF update_account_password, WellFormed, Databases
<1>2. PasswordOf(new, v) = PasswordOf(db, v)
  <2> HIDE DEF new
  <2> QED BY <1>1 DEF PasswordOf
<1> QED BY <1>2

(***************************************************************************)
(* An account keeps its cached password through every statement that does  *)
(* not delete it, and gets a new one only from update_account_password.    *)
(***************************************************************************)
THEOREM PasswordsStay == Spec => PasswordStaysWithAccount
<1> DEFINE Keeps(u) == \/ UpdatePassword(u)
                       \/ PasswordOf(conn', u) \in {PasswordOf(conn, u), {}}
                       \/ PasswordOf(conn, u) = {} /\ PasswordOf(conn', u) = {NoPassword}
<1>1. ASSUME IInv, [Next]_vars, open', NEW u \in Uuids PROVE Keeps(u)
  <2> USE <1>1 DEF IInv
  <2>1. CASE PasswordsKept(conn.account, conn'.account)
    BY <2>1, KeptPasswords
  <2>2. CASE write \/ UNCHANGED vars
    BY <2>2 DEF write, vars
  <2>3. CASE UpdateAccount
    BY <2>1, <2>3, UpdateAccountKeepsPasswords DEF UpdateAccount, Statement
  <2>4. CASE DeleteAccount
    <3>1. conn'.account \subseteq conn.account
      BY <2>4 DEF DeleteAccount, Statement, delete_account
    <3>2. PasswordsKept(conn.account, conn'.account)
      BY <3>1 DEF PasswordsKept, WellFormed, Distinct
    <3> QED BY <2>1, <3>2
  <2>5. ASSUME NEW v \in Uuids, UpdatePassword(v) PROVE Keeps(u)
    BY <2>5, PasswordOfOthers DEF UpdatePassword, Statement
  <2>6. CASE UpdateGroup \/ DeleteGroup
    <3>0. /\ \A grp, e : update_group(conn, grp, e).account = conn.account
          /\ \A g : delete_group(conn, g).account = conn.account
      BY DEF update_group, delete_group
    <3>1. conn'.account = conn.account
      <4>1. CASE UpdateGroup
        BY <4>1, <3>0 DEF UpdateGroup, Statement
      <4>2. CASE DeleteGroup
        BY <4>2, <3>0 DEF DeleteGroup, Statement
      <4> QED BY <2>6, <4>1, <4>2
    <3>2. PasswordsKept(conn.account, conn'.account)
      BY <3>1 DEF PasswordsKept, WellFormed, Distinct
    <3> QED BY <2>1, <3>2
  <2>7. CASE Invalidate
    BY <2>1, <2>7, InvalidateKeepsPasswords DEF Invalidate, Statement
  <2>8. CASE Clear
    BY <2>8 DEF Clear, Statement, clear_rows, PasswordOf
  <2>9. CASE commit \/ rollback
    BY <2>9 DEF commit, rollback
  <2> QED BY <2>2, <2>3, <2>4, <2>5, <2>6, <2>7, <2>8, <2>9 DEF Next
<1>2. IInv /\ [Next]_vars => [open' => \A u \in Uuids : Keeps(u)]_vars
  BY <1>1
<1> QED BY <1>2, Invariance, PTL DEF Spec, PasswordStaysWithAccount
=============================================================================
