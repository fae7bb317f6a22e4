----------------------------- MODULE MCSessions -----------------------------
(* Sessions with one account and a few tokens, for TLC.                    *)
EXTENDS Sessions, TLC

CONSTANTS a1, a2, a3, f1, f2, f3, r1, r2

OneUser == {"u"}
OneAccess == {a1}
OneRefresh == {f1}
TwoAccess == {a1, a2}
TwoRefresh == {f1, f2}
ThreeAccess == {a1, a2, a3}
ThreeRefresh == {f1, f2, f3}
TwoRequests == {r1, r2}

AllOps == {"access", "refresh", "logout"}
JustRefresh == {"refresh"}

(* An account that stays as it is, or that loses a permission.             *)
Director == [role |-> "DIRECTOR", perms |-> "read", active |-> TRUE]
Unchanging == {Director}
Restrictable == {Director, [Director EXCEPT !.perms = "none"]}

Symmetry ==
  Permutations(AccessJtis) \cup Permutations(RefreshJtis) \cup Permutations(Requests)
=============================================================================
