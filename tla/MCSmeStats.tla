----------------------------- MODULE MCSmeStats -----------------------------
(* SmeStats with one record and two of the aggregates, for TLC.            *)
EXTENDS SmeStats

CONSTANTS s1, w1, w2, q1

OneSme == {s1}
TwoWriters == {w1, w2}
OneReader == {q1}
TwoAttrs == {"status", "category"}
MCValues == {"ACTIVE", "PENDING"}
MCActive == "ACTIVE"
=============================================================================
