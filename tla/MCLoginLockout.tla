--------------------------- MODULE MCLoginLockout ---------------------------
(* LoginLockout with one account and three concurrent requests, for TLC.   *)
EXTENDS LoginLockout

CONSTANTS u1, r1, r2, r3

OneUser == {u1}
ThreeRequests == {r1, r2, r3}
=============================================================================
