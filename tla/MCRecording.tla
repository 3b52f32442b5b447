----------------------------- MODULE MCRecording -----------------------------
(* Small instances of Recording for TLC.                                   *)
EXTENDS Recording, TLC

CONSTANTS t1, t2, c1, c2, s1

MCChannelOf == s1 :> c1

\* BOUND of the admission run, so that competing calls fit: recorders end by
\* themselves with success, and nothing is deleted, inspected or stopped.  A
\* cancel still frees its slot (the run stops at the kill that follows).
AdmissionOnly ==
    /\ deleting = {} /\ stale = {} /\ killSent = {}
    /\ channelRows = Channels /\ scheduleRows = Schedules
    /\ \A t \in Tasks : /\ cancelling[t] # "late" /\ status[t] # "deleted"
                        /\ recorder[t] \in {"none", "alive", "exited"}
=============================================================================
