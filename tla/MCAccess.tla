------------------------------- MODULE MCAccess -------------------------------
(* Small instances of Access for TLC.                                      *)
EXTENDS Access

CONSTANTS p1, p2, p3, c1

=============================================================================
