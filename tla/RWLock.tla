------------------------------- MODULE RWLock -------------------------------
(***************************************************************************)
(* What a lock file promises to the handles that use it, whatever threads  *)
(* and processes they belong to: a reader/writer lock.                     *)
(***************************************************************************)
CONSTANT Users

VARIABLE holds    \* the mode in which each user holds the lock

LockInit == holds = [u \in Users |-> "free"]

Acquire(u, mode) ==
    /\ holds[u] = "free"
    /\ \A v \in Users \ {u} :
           holds[v] = "free" \/ (mode = "r" /\ holds[v] = "r")
    /\ holds' = [holds EXCEPT ![u] = mode]

\* Users give up what they hold: one that unlocks, all of a killed process.
Release ==
    /\ holds' \in [Users -> {"free", "r", "w"}]
    /\ \A u \in Users : holds'[u] \in {"free", holds[u]}

LockNext == Release \/ \E u \in Users, mode \in {"r", "w"} : Acquire(u, mode)

LockSpec == LockInit /\ [][LockNext]_holds
=============================================================================
