----------------------------- MODULE MCUnixCache -----------------------------
(***************************************************************************)
(* A small cache for TLC: an account that is renamed, renumbered and moved *)
(* out of its group, another that takes over its name, and two groups that *)
(* the directory gives one number, until one is renamed to the other's     *)
(* uuid.                                                                   *)
(***************************************************************************)
EXTENDS UnixCache

CONSTANTS u1, u2, g1, g2, n1, n2, staff, wheel

Group(uuid, name, gid) == [uuid |-> uuid, name |-> name, spn |-> name, gidnumber |-> gid]
User(uuid, name, gid, groups) ==
    [uuid |-> uuid, name |-> name, spn |-> name, gidnumber |-> gid, groups |-> groups]

Staff == Group(g1, staff, 21)
Wheel == Group(g2, wheel, 21)
OddWheel == Group(g2, g1, 22)

SmallGroupTokens == {Staff, Wheel, OddWheel}
SmallTokens == {User(u1, n1, 11, {Staff}), User(u1, n2, 12, {}), User(u2, n2, 13, {Staff})}
SmallUuids == {u1, u2}
SmallGroupUuids == {g1, g2}
SmallNames == {n1, n2, staff, wheel, g1}
SmallGids == {11, 12, 13, 21, 22}
=============================================================================
