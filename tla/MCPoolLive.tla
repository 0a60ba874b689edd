------------------------------ MODULE MCPoolLive ------------------------------
(* InstancePool for TLC's liveness checks, in two parts: the calls of several    *)
(* callers at once while the reaper sleeps and nobody uninstalls, and single     *)
(* calls beside the reaper.  (The reaper takes no load gate and waits for none.) *)
EXTENDS InstancePool

VARIABLE part

LiveInit == Init /\ part \in {"callers", "reaper"}

OneCall == Cardinality({c \in Callers : pc[c] # "idle"}) <= 1

LiveNext ==
    /\ Next /\ UNCHANGED part
    /\ IF part = "callers" THEN UNCHANGED <<todo, onDisk>> ELSE OneCall'

LiveSpec ==
    /\ LiveInit /\ [][LiveNext]_<<vars, part>>
    /\ CallersFair
    /\ \A r \in Reapers :
        /\ WF_vars(part = "reaper" /\ ReaperStep(r))
        /\ SF_vars(part = "reaper" /\ ScanFailed(r))

\* A failed session does not stay in the pool (evict_failed_instances), whether or
\* not anybody calls for its key again.
FailedAreReaped ==
    \A k \in Keys :
        (part = "reaper" /\ instances[k] # None /\ Dead(instances[k]))
            ~> (instances[k] = None \/ ~Dead(instances[k]))
=============================================================================
