------------------------------ MODULE MCBFile ------------------------------
(***************************************************************************)
(* Constants for model checking BFile: the areas of the register, and the  *)
(* whole and partial writes.                                               *)
(***************************************************************************)
EXTENDS BFile

\* A directory that overflows to another, and one that fills up.
MCSetups == {[dirs |-> <<5, -1>>, bucketSize |-> 1],
             [dirs |-> <<4>>, bucketSize |-> 2]}

\* Two limited directories before the last.
CappedSetups == {[dirs |-> <<4, 4, -1>>, bucketSize |-> 1]}

MCWrites == {<<0, 0, 2>>, <<0, 1, 1>>, <<1, 0, 2>>, <<2, 1, 1>>, <<4, 0, 2>>}
CappedWrites == {<<1, 0, 2>>, <<2, 0, 2>>, <<4, 0, 2>>}
=============================================================================
