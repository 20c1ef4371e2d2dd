------------------------------ MODULE MCFLock ------------------------------
(***************************************************************************)
(* Two processes: three threads share the lock file in the first, one uses *)
(* it in the second.                                                       *)
(***************************************************************************)
EXTENDS FLock, TLC

CONSTANTS p1, p2, t1, t2, t3, t4

MCProcOf == (t1 :> p1) @@ (t2 :> p1) @@ (t3 :> p1) @@ (t4 :> p2)
MCMaxLocks == (t1 :> 1) @@ (t2 :> 1) @@ (t3 :> 1) @@ (t4 :> 2)
=============================================================================
