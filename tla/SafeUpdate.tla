----------------------------- MODULE SafeUpdate -----------------------------
(***************************************************************************)
(* What the shadow register system promises, as atomic steps: server       *)
(* processes read the live contents; updates change only the pending       *)
(* contents; a commit makes the pending contents live at once and whole;   *)
(* an update that does not finish can only be discarded; and a register is *)
(* made anew in two steps, between which it is of no use.                  *)
(***************************************************************************)
CONSTANTS
    Contents,    \* the contents that a register may have
    Empty,       \* the contents of a new register
    Dirty,       \* stands for the pending contents of an update that has not
                 \* finished; it is not in Contents
    Unmade       \* stands for the contents of a register that is being
                 \* removed; it is not in Contents either

VARIABLES live, pending

abstractVars == <<live, pending>>

AbstractInit == live \in Contents /\ pending = live

\* An update starts, on top of what is pending already.
StartUpdate == /\ pending \in Contents
               /\ pending' = Dirty /\ UNCHANGED live

\* An update finishes.
FinishUpdate == /\ pending = Dirty
                /\ pending' \in Contents /\ UNCHANGED live

\* What is pending is thrown away, finished or not.
Discard == pending' = live /\ UNCHANGED live

\* All of what is pending becomes live.
CommitPending == /\ pending \in Contents
                 /\ live' = pending /\ UNCHANGED pending

\* The register is removed and made anew.
StartReset == live' = Unmade /\ pending' = Unmade
FinishReset == live = Unmade /\ live' = Empty /\ pending' = Empty

AbstractNext == \/ StartUpdate \/ FinishUpdate \/ Discard \/ CommitPending
                \/ StartReset \/ FinishReset

AbstractSpec == AbstractInit /\ [][AbstractNext]_abstractVars
=============================================================================
