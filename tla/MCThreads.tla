----------------------------- MODULE MCThreads -----------------------------
(***************************************************************************)
(* The threads of an indexing process and those that share a lock file.    *)
(* They have nothing to do with each other, so that a behaviour is about   *)
(* one of them, chosen at the start.                                       *)
(***************************************************************************)
EXTENDS MCFLock, KeyMerge

VARIABLE part       \* "lock" or "keys"

threadsVars == <<part, vars, kmVars>>

ThreadsInit ==
    /\ part \in {"lock", "keys"}
    /\ Init /\ KeyInit
    /\ part = "lock" => ~useThreads         \* which of Threading matters to keys only

ThreadsNext ==
    /\ UNCHANGED part
    /\ \/ part = "lock" /\ Next /\ UNCHANGED kmVars
       \/ part = "keys" /\ KeyNext /\ UNCHANGED vars

\* The fairness of FLock and of KeyMerge: what either asks for cannot happen in
\* the first state of the other.
ThreadsSpec ==
    /\ ThreadsInit /\ [][ThreadsNext]_threadsVars
    /\ LocksRun /\ KeysRun

\* Every call returns. As the calls are bounded, in the end all have: no thread waits
\* for a lock that is free or for a signal that was given, every lock is given back
\* (killed processes aside) and no thread keeps file_mutex for good; the buffer is
\* handed over, and the sorting thread ends when the key block is destroyed.
ThreadCallsReturn == <>[](LocksGivenBack /\ ~Flushing /\ ~Destroying)

\* A record without terms, with one, and with two, the first of which is another.
MCKeyLists == {<<>>, <<2>>, <<1, 2>>}
=============================================================================
