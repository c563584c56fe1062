------------------------------ MODULE MCStore ------------------------------
(* The store with a few rows, callers, directories and process ids.        *)
EXTENDS Store, TLC

CONSTANTS
    c1, c2,
    MaxHistory    \* bound: the rows of job_history that a job may get

MCCallers == {c1, c2}

\* Callers are interchangeable, and no liveness property is checked.
MCSymmetry == Permutations(MCCallers)

WithinBound == \A id \in Ids : Len(history'[id]) <= MaxHistory

\* The store, and the store whose callers do not overlap on a job, up to a
\* number of status changes.
BoundedSpec == Init /\ [][Next /\ WithinBound]_storeVars
BoundedSerialSpec == Init /\ [][SerialNext /\ WithinBound]_storeVars
=============================================================================
