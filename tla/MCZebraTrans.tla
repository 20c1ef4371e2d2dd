---------------------------- MODULE MCZebraTrans ----------------------------
(***************************************************************************)
(* Constants for model checking ZebraTrans: bounds on the number of calls  *)
(* of each kind, and the program points at which a process may be killed.  *)
(***************************************************************************)
EXTENDS ZebraTrans, TLC

Calls(u, c, cl, i, r, n, x) ==
    [b \in Budget |-> CASE b = "update" -> u [] b = "commit" -> c
                        [] b = "clean" -> cl [] b = "init" -> i
                        [] b = "read" -> r   [] b = "nest" -> n
                        [] b = "fault" -> x]

CallsSnapshot == Calls(2, 2, 0, 0, 2, 0, 0)
CallsOwners == Calls(2, 1, 0, 0, 1, 1, 1)
CallsRecovery == Calls(2, 1, 1, 1, 1, 0, 2)

CallsLost == Calls(2, 1, 0, 0, 0, 0, 0)
CallsSeqno == Calls(2, 1, 0, 0, 2, 0, 1)
CallsTorn == Calls(2, 1, 0, 0, 2, 0, 0)

\* With a shadow area; with one that updates may bypass; without.
Shadow == [shadow |-> TRUE, direct |-> FALSE]
Both == [shadow |-> TRUE, direct |-> TRUE]
Direct == [shadow |-> FALSE, direct |-> TRUE]
ShadowOnly == {Shadow}
ShadowAndDirect == {Both}
ShadowOrDirect == {Shadow, Direct}

\* A process may be killed anywhere ...
Anywhere == PCs

\* ... or anywhere but where it leaves a state that recovery misreads: with the
\* state file truncated (but for zebra_init, which has nothing to lose by then),
\* with a shadow file made and not yet listed, and with a dirty shadow area
\* declared clean but not yet removed.
Truncating == {"w_set", "e_set", "c_set", "c_oset"}
Unlisted == {"w_list"}
Removing == {"c_cleanlock", "c_clean"}
Recoverable == PCs \ (Truncating \cup Unlisted \cup Removing)

Symmetry == Permutations(Files) \cup Permutations(Admins)
=============================================================================
