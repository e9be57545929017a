------------------------------- MODULE CacheDb -------------------------------
(***************************************************************************)
(* The tables of the himmelblaud cache (db.rs) and the statements that     *)
(* DbTxn runs on them, as operators from one database value to the next.   *)
(* A table is its set of rows.  SQLite's UNIQUE constraints are not part   *)
(* of the operators: that the statements never run into one is a theorem.  *)
(* Foreign keys are not enforced: the code never turns them on.            *)
(***************************************************************************)
EXTENDS Naturals

CONSTANT NoPassword   \* the NULL of account_t.password

Empty == [account |-> {}, group |-> {}, memberof |-> {}]

\* A row that expires too late.
LateAccountRow(tok, pw, expire) ==
    [uuid |-> tok.uuid, name |-> tok.name, spn |-> tok.spn, gidnumber |-> tok.gidnumber,
     password |-> pw, token |-> tok, expiry |-> expire + 1]

AccountRow(tok, pw, expire) ==
    [uuid |-> tok.uuid, name |-> tok.name, spn |-> tok.spn, gidnumber |-> tok.gidnumber,
     password |-> pw, token |-> tok, expiry |-> expire]

GroupRow(grp, expire) ==
    [uuid |-> grp.uuid, name |-> grp.name, spn |-> grp.spn, gidnumber |-> grp.gidnumber,
     token |-> grp, expiry |-> expire]

\* Two rows of account_t or of group_t that a UNIQUE column keeps apart.
Clash(r, s) == r.name = s.name \/ r.spn = s.spn \/ r.gidnumber = s.gidnumber

-----------------------------------------------------------------------------
\* Without the DELETE of what is in conflict.
UpsertWithoutDelete(rows, tok, expire) ==
    {r \in rows : r.uuid # tok.uuid} \union
    {AccountRow(tok, pw, expire) : pw \in {r.password : r \in {s \in rows : s.uuid = tok.uuid}}}
    \union {AccountRow(tok, NoPassword, expire) : x \in {tok.uuid} \ {r.uuid : r \in rows}}

\* INSERT OR REPLACE, as for groups.
UpsertByReplace(rows, tok, expire) ==
    {r \in rows : r.uuid # tok.uuid /\ ~Clash(r, tok)} \union {AccountRow(tok, NoPassword, expire)}

\* The DELETE of everything in conflict, the UPDATE that keeps the password and
\* the INSERT for an account that was not there.
UpsertAccount(rows, tok, expire) ==
    LET kept == {r \in rows : r.uuid # tok.uuid /\ ~Clash(r, tok)}
        old == {r \in rows : r.uuid = tok.uuid}
    IN kept \union IF old = {} THEN {AccountRow(tok, NoPassword, expire)}
                               ELSE {AccountRow(tok, r.password, expire) : r \in old}

\* Without the DELETE of the old memberships.
AddMemberships(rows, tok) ==
    rows \union {[g_uuid |-> g.uuid, a_uuid |-> tok.uuid] : g \in tok.groups}

\* The memberships of an account are deleted, then inserted from its token.
SetMemberships(rows, tok) ==
    {m \in rows : m.a_uuid # tok.uuid} \union {[g_uuid |-> g.uuid, a_uuid |-> tok.uuid] : g \in tok.groups}

update_account(db, tok, expire) ==
    [account |-> UpsertAccount(db.account, tok, expire), group |-> db.group,
     memberof |-> SetMemberships(db.memberof, tok)]

delete_account(db, a_uuid) ==
    [account |-> {r \in db.account : r.uuid # a_uuid}, group |-> db.group,
     memberof |-> {m \in db.memberof : m.a_uuid # a_uuid}]

update_account_password(db, a_uuid, pw) ==
    [account |-> {IF r.uuid = a_uuid THEN [r EXCEPT !.password = pw] ELSE r : r \in db.account},
     group |-> db.group, memberof |-> db.memberof]

\* A row without a password passes.
check_missing_password(db, a_uuid, cred) ==
    \E r \in db.account : r.uuid = a_uuid /\ r.password \in {cred, NoPassword}

\* A row without a password fails every check.
check_account_password(db, a_uuid, cred) ==
    cred # NoPassword /\ \E r \in db.account : r.uuid = a_uuid /\ r.password = cred

\* INSERT OR REPLACE drops every row it clashes with.
update_group(db, grp, expire) ==
    [account |-> db.account, memberof |-> db.memberof,
     group |-> {r \in db.group : r.uuid # grp.uuid /\ ~Clash(r, grp)} \union {GroupRow(grp, expire)}]

delete_group(db, g_uuid) ==
    [account |-> db.account, group |-> {r \in db.group : r.uuid # g_uuid},
     memberof |-> {m \in db.memberof : m.g_uuid # g_uuid}]

invalidate_rows(db) ==
    [account |-> {[r EXCEPT !.expiry = 0] : r \in db.account},
     group |-> {[r EXCEPT !.expiry = 0] : r \in db.group}, memberof |-> db.memberof]

clear_rows(db) == [account |-> {}, group |-> {}, memberof |-> {}]

-----------------------------------------------------------------------------
\* The rows that a lookup by uuid, name or spn, or by gid number, returns.
get_account_data_name(db, id) == {r \in db.account : r.uuid = id \/ r.name = id \/ r.spn = id}
get_account_data_gid(db, gid) == {r \in db.account : r.gidnumber = gid}
get_group_data_name(db, id) == {r \in db.group : r.uuid = id \/ r.name = id \/ r.spn = id}
get_group_data_gid(db, gid) == {r \in db.group : r.gidnumber = gid}

\* get_account and get_group fail with TooManyResults on two rows.
TooManyResults(data) == \E r, s \in data : r # s

get_group_members(db, g_uuid) ==
    {r.token : r \in {s \in db.account : [g_uuid |-> g_uuid, a_uuid |-> s.uuid] \in db.memberof}}

=============================================================================
