------------------------------ MODULE UnixCache ------------------------------
(***************************************************************************)
(* The cache database as its users see it: one connection, transactions of *)
(* CacheDb statements that are committed, dropped, or lost in a crash.     *)
(*                                                                         *)
(* Tokens are what a provider hands to the cache: name and spn are both    *)
(* the lower-case UPN, so Tokens have them equal.                          *)
(***************************************************************************)
EXTENDS CacheDb

CONSTANTS Uuids,       \* of accounts, made-up ones included
          GroupUuids,
          Names,
          Gids,
          Tokens,      \* the user tokens providers hand out
          GroupTokens,
          Passwords,
          Expiries

ASSUME TokensAssumption ==
    /\ GroupTokens \subseteq [uuid : GroupUuids, name : Names, spn : Names, gidnumber : Gids]
    /\ Tokens \subseteq [uuid : Uuids, name : Names, spn : Names, gidnumber : Gids, groups : SUBSET GroupTokens]
    /\ \A tok \in Tokens \union GroupTokens : tok.name = tok.spn
    /\ \A tok \in Tokens : tok.name \notin Uuids    \* an UPN has an @
    /\ Expiries \subseteq Nat
    /\ NoPassword \notin Passwords

VARIABLES disk,   \* what is committed
          conn,   \* what the connection sees
          open    \* whether a transaction is open

vars == <<disk, conn, open>>

Databases ==
    [account  : SUBSET [uuid : Uuids, name : Names, spn : Names, gidnumber : Gids,
                        password : Passwords \union {NoPassword}, token : Tokens,
                        expiry : Expiries \union {0}],
     group    : SUBSET [uuid : GroupUuids, name : Names, spn : Names, gidnumber : Gids,
                        token : GroupTokens, expiry : Expiries \union {0}],
     memberof : SUBSET [g_uuid : GroupUuids, a_uuid : Uuids]]

TypeOK == disk \in Databases /\ conn \in Databases /\ open \in BOOLEAN

Init == disk = Empty /\ conn = Empty /\ open = FALSE

write ==
    /\ ~open
    /\ open' = TRUE
    /\ UNCHANGED <<disk, conn>>

Statement(db) ==
    /\ open
    /\ conn' = db
    /\ UNCHANGED <<disk, open>>

UpdateAccount == \E tok \in Tokens, e \in Expiries : Statement(update_account(conn, tok, e))
DeleteAccount == \E u \in Uuids : Statement(delete_account(conn, u))
UpdatePassword(u) == \E pw \in Passwords : Statement(update_account_password(conn, u, pw))
UpdateGroup == \E grp \in GroupTokens, e \in Expiries : Statement(update_group(conn, grp, e))
DeleteGroup == \E g \in GroupUuids : Statement(delete_group(conn, g))
Invalidate == Statement(invalidate_rows(conn))
Clear == Statement(clear_rows(conn))

commit ==
    /\ open
    /\ disk' = conn
    /\ open' = FALSE
    /\ UNCHANGED conn

\* A transaction that is dropped or that a crash cuts off is rolled back.  So is
\* one whose COMMIT fails: if SQLite leaves it open, every later write() panics
\* in BEGIN until the daemon is restarted.
rollback ==
    /\ open
    /\ conn' = disk
    /\ open' = FALSE
    /\ UNCHANGED disk

Next ==
    \/ write
    \/ UpdateAccount
    \/ DeleteAccount
    \/ \E u \in Uuids : UpdatePassword(u)
    \/ UpdateGroup
    \/ DeleteGroup
    \/ Invalidate
    \/ Clear
    \/ commit
    \/ rollback

Spec == Init /\ [][Next]_vars

-----------------------------------------------------------------------------
\* The rows of a table differ in every UNIQUE column.
Distinct(rows) == \A r, s \in rows : r = s \/ (r.uuid # s.uuid /\ ~Clash(r, s))

(***************************************************************************)
(* A lookup by any identifier finds at most one account and one group, so  *)
(* get_account and get_group do not fail with TooManyResults ("invalid db  *)
(* state, multiple entries matched query?"), and no statement of           *)
(* update_account runs into a UNIQUE constraint, whatever accounts were    *)
(* renamed, renumbered or replaced before.  The one exception is a group   *)
(* that the directory names as another cached group's uuid: nothing in the *)
(* provider or the schema keeps the two apart, and looking up that uuid    *)
(* fails as long as both are cached.                                       *)
(***************************************************************************)
NamedAsUuid(db, id) == \E g, h \in db.group : g # h /\ g.name = id /\ h.uuid = id

LookupUnambiguous ==
    \A db \in {disk, conn} :
        /\ Distinct(db.account) /\ Distinct(db.group)
        /\ \A id \in Uuids \union GroupUuids \union Names :
               /\ ~TooManyResults(get_account_data_name(db, id))
               /\ TooManyResults(get_group_data_name(db, id)) => NamedAsUuid(db, id)
        /\ \A gid \in Gids :
               ~TooManyResults(get_account_data_gid(db, gid)) /\ ~TooManyResults(get_group_data_gid(db, gid))

(***************************************************************************)
(* Every member that get_group_members reports for a group is an account   *)
(* whose cached token lists that group: the memberof_t rows that purged    *)
(* accounts leave behind never make a later account a member.              *)
(***************************************************************************)
MembersHaveGroup ==
    \A db \in {disk, conn} : \A g \in GroupUuids : \A tok \in get_group_members(db, g) :
        \E grp \in tok.groups : grp.uuid = g

PasswordOf(db, u) == {r.password : r \in {s \in db.account : s.uuid = u}}

(***************************************************************************)
(* Updating an account does not break its cached password, and no account  *)
(* comes by a password but through update_account_password: a row that     *)
(* takes over a name or a number takes over no password.                   *)
(***************************************************************************)
PasswordStaysWithAccount ==
    [][open' => \A u \in Uuids :
          \/ UpdatePassword(u)
          \/ PasswordOf(conn', u) \in {PasswordOf(conn, u), {}}
          \/ PasswordOf(conn, u) = {} /\ PasswordOf(conn', u) = {NoPassword}]_vars
=============================================================================
