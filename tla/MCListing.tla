----------------------------- MODULE MCListing -----------------------------
(* Listing with short lists, for TLC.                                      *)
EXTENDS Listing, TLC

CONSTANTS i1, i2, i3

ThreeIds == {i1, i2, i3}
SmallKeys == 1..4
SmallSizes == {-1, 0, 5}
TwoKinds == {"users", "audit"}

Symmetry == Permutations(Ids)
=============================================================================
