----------------------------- MODULE MCResolver -----------------------------
(***************************************************************************)
(* The resolver with small constants.                                      *)
(***************************************************************************)
EXTENDS Resolver, TLC

CONSTANTS alice, id1000, a1

OneName == {alice}
OneGid == {id1000}
OneGidMap == [n \in OneName |-> id1000]
OneUuid == [n \in OneName |-> a1]

Symmetric == Permutations(Lookups) \union Permutations(SignIns) \union Permutations(Passwords)

=============================================================================
