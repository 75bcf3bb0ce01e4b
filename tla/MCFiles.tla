------------------------------ MODULE MCFiles ------------------------------
(* Files under the lock of their file system, with FSLock, and paths, each   *)
(* on its own.                                                               *)
EXTENDS Files

CONSTANTS t1, t2    \* threads

MCThreads == {t1, t2}
MCLocks == MCThreads \X {"file", "read"}
MCLimits == {1, 2, 3}
MCValues == {"v", "w"}

Segments == {"", ".", "..", "a", "b.c"}

VARIABLES part, p, given, dirs, made

P == INSTANCE Path
       WITH Strings <- UNION {[1..n -> Segments] : n \in 1..4}, Names <- {"a", "b.c"}

pathVars == <<p, given, dirs, made>>

\* Each part starts in its initial state and stays there while the other moves.
MCInit == part \in {"files", "path"} /\ FilesInit /\ P!Init
MCNext ==
  /\ UNCHANGED part
  /\ \/ part = "files" /\ FilesNext /\ UNCHANGED pathVars
     \/ part = "path" /\ P!Next /\ UNCHANGED allVars
MCSpec == MCInit /\ [][MCNext]_<<part, allVars, pathVars>> /\ FilesFairness

\* Of Path, see there.
PathsAgree == P!PathsAgree
=============================================================================
