----------------------------- MODULE MCScheduler -----------------------------
(* Small instances of Scheduler for TLC.                                   *)
EXTENDS Scheduler

CONSTANTS s1, s2, boot, h1, h2, h3

MCExpression == [v \in Versions |->
    CASE v = "v1" -> "fields" [] v = "v2" -> "fields" [] v = "v3" -> "invalid"
      [] v = "v4" -> "keyword" [] v = "v5" -> "keywordAndTime"]

=============================================================================
