---------------------------- MODULE TaskLifecycle ----------------------------
(***************************************************************************)
(* What the task table promises to a reader who sees nothing of processes, *)
(* locks and monitors: a task is admitted within the limits, runs, ends    *)
(* once, may be turned to failed afterwards, and may be forgotten.         *)
(***************************************************************************)
EXTENDS Naturals, FiniteSets

CONSTANTS Tasks, Channels, MaxConcurrent

VARIABLES life, channel

Ended == {"completed", "failed", "cancelled"}
RunningTasks == {t \in Tasks : life[t] = "running"}

TypeOK ==
    /\ life \in [Tasks -> {"none", "running", "deleted"} \cup Ended]
    /\ \A t \in RunningTasks : channel[t] \in Channels

Init ==
    /\ life = [t \in Tasks |-> "none"]
    /\ channel \in [Tasks -> {"unknown"}]

\* The channel of a task is settled before the task runs.
Choose(t) ==
    /\ life[t] = "none"
    /\ channel[t] = "unknown"
    /\ \E c \in Channels : channel' = [channel EXCEPT ![t] = c]
    /\ UNCHANGED life

Admit(t) ==
    /\ life[t] = "none" /\ channel[t] \in Channels
    /\ Cardinality(RunningTasks) < MaxConcurrent
    /\ \A u \in RunningTasks : channel[u] # channel[t]
    /\ life' = [life EXCEPT ![t] = "running"]
    /\ UNCHANGED channel

End(S, e) ==
    /\ S \subseteq RunningTasks
    /\ life' = [t \in Tasks |-> IF t \in S THEN e ELSE life[t]]
    /\ UNCHANGED channel

Overwrite(t) ==
    /\ life[t] \in Ended
    /\ life' = [life EXCEPT ![t] = "failed"]
    /\ UNCHANGED channel

Forget(S) ==
    /\ \A t \in S : life[t] # "none"
    /\ life' = [t \in Tasks |-> IF t \in S THEN "deleted" ELSE life[t]]
    /\ UNCHANGED channel

Next ==
    \/ \E t \in Tasks : Choose(t) \/ Admit(t) \/ Overwrite(t)
    \/ \E S \in SUBSET Tasks : Forget(S) \/ \E e \in Ended : End(S, e)

Spec == Init /\ [][Next]_<<life, channel>>

=============================================================================
