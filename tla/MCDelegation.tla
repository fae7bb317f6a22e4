---------------------------- MODULE MCDelegation ----------------------------
(* Delegation with an officer and a SUPER_ADMIN, for TLC.                  *)
EXTENDS Delegation

TwoUsers == {"clerk", "boss"}
ThreeRoles == {"SME_OFFICER", "DIRECTOR", SUPER}
TwoPerms == {"permission:delegate", "user:read"}
BossDemoted == {<<"boss", "DIRECTOR">>, <<"boss", SUPER>>}
JustRead == {"user:read"}
OneSlot == {"x1"}
OneRequest == {"r1"}

DirectorsRead == [o \in ThreeRoles |-> IF o = "DIRECTOR" THEN {"user:read"} ELSE {}]
OneBoss == [u \in TwoUsers |-> IF u = "boss" THEN SUPER ELSE "SME_OFFICER"]
=============================================================================
