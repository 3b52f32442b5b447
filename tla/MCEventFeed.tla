----------------------------- MODULE MCEventFeed -----------------------------
(* Small instances of EventFeed for TLC.                                   *)
EXTENDS EventFeed

CONSTANTS t1, t2, s1, s2

=============================================================================
