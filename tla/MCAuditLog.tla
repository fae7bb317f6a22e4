----------------------------- MODULE MCAuditLog -----------------------------
(* AuditLog with a few entries, for TLC.                                   *)
EXTENDS AuditLog

CONSTANTS e1, e2, e3, e4

FourEntries == {e1, e2, e3, e4}
=============================================================================
