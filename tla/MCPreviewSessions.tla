-------------------------- MODULE MCPreviewSessions --------------------------
(* Small instances of PreviewSessions for TLC.                             *)
EXTENDS PreviewSessions

CONSTANTS a1, a2, a3, a4, b1, k1, k2

\* a1, a3 and a4 open the same channel; b1 is the call of another user.
MCOwner == [c \in Starts |-> IF c = b1 THEN "bob" ELSE "ann"]
MCChannelOf == [c \in Starts |-> IF c = a2 THEN "sports" ELSE "news"]

=============================================================================
