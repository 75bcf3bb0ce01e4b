------------------------------- MODULE Files --------------------------------
(***************************************************************************)
(* Files under the counting lock (core/filesystem/File.cpp and File.h,     *)
(* core/json/JsonFile.cpp, the file systems that set the limit): a JsonFile*)
(* holds a lock for as long as it lives, the static File::read() takes     *)
(* another for the time of one read, in the same thread.  One file is      *)
(* shared by all threads.  The processor may lose power at any time: the   *)
(* memory is lost, the disk is not.                                        *)
(***************************************************************************)
EXTENDS FSLock

CONSTANTS
    Threads,
    Values,           \* the values that are saved
    MaxSaves, MaxReads, MaxCrashes    \* bounds: what the threads do, how often the power is lost

\* A thread's File and its static read() have a lock each.
FileLock(t) == <<t, "file">>
ReadLock(t) == <<t, "read">>

ASSUME LocksOfThreads == Locks = Threads \X {"file", "read"}

VARIABLES
    disk,             \* "absent", "empty", "damaged" or the value in the file
    task,             \* task[t]: where the thread is, and its value if it has a JsonFile
    log               \* history: what was saved last, the accidents, and the counts

lockVars == <<max, count, max_ever_opened, state, raised>>
fileVars == <<disk, task, log>>
allVars == <<lockVars, fileVars>>

Out == [at |-> "out", open |-> FALSE, value |-> "null"]

FilesInit ==
    /\ Init
    /\ disk = "absent"
    /\ task = [t \in Threads |-> Out]
    /\ log = [saved |-> "absent", accident |-> FALSE, saves |-> 0, reads |-> 0, crashes |-> 0]

\* SPIFlash::SPIFlash(), SPISDCard::init(), MMCSDCard::init(): the last of them
\* decides, for all file systems.
Mount(n) == set_limit(n) /\ UNCHANGED fileVars

-----------------------------------------------------------------------------
(* File and JsonFile.                                                      *)

\* The members of File: its lock comes before anything else happens.
Open(t) ==
    /\ task[t] = Out
    /\ Construct(FileLock(t))
    /\ task' = [task EXCEPT ![t].at = "opening"]
    /\ UNCHANGED <<disk, log>>

\* nlohmann::json::parse() without exceptions.
Parsed(content) == IF content \in Values THEN content ELSE IF content = "damaged" THEN "discarded" ELSE "null"

\* Mutant of Load: the file is opened for writing as well.
LoadTruncates(t) ==
    /\ task[t].at = "opening" /\ state[FileLock(t)] = "held"
    /\ task' = [task EXCEPT ![t] = [at |-> "idle", open |-> TRUE, value |-> Parsed(disk)]]
    /\ disk' = "empty"
    /\ UNCHANGED <<lockVars, log>>

Load(t) ==
    /\ task[t].at = "opening" /\ state[FileLock(t)] = "held"
    /\ task' = [task EXCEPT ![t] = [at |-> "idle", open |-> TRUE, value |-> Parsed(disk)]]
    /\ UNCHANGED <<lockVars, disk, log>>

\* save(): File::write() opens the file with trunc, or cannot open it ...
Truncate(t, v) ==
    /\ task[t].at = "idle" /\ log.saves < MaxSaves
    /\ \/ /\ task' = [task EXCEPT ![t] = [at |-> "truncated", open |-> @.open, value |-> v]]
          /\ disk' = "empty"
       \/ /\ task' = [task EXCEPT ![t].value = v]
          /\ UNCHANGED disk
    /\ log' = [log EXCEPT !.saves = @ + 1]
    /\ UNCHANGED lockVars

\* ... and writes, without a look at the result: a full disk goes unnoticed.
\* Two writers at a time leave a mixture.
Write(t) ==
    LET two == \E u \in Threads \ {t} : task[u].at = "truncated" IN
    /\ task[t].at = "truncated"
    /\ task' = [task EXCEPT ![t].at = "idle"]
    /\ \/ /\ disk' = IF two \/ disk # "empty" THEN "damaged" ELSE task[t].value
          /\ log' = [log EXCEPT !.saved = task[t].value, !.accident = @ \/ two \/ disk # "empty"]
       \/ /\ disk' = "damaged"
          /\ log' = [log EXCEPT !.saved = task[t].value, !.accident = TRUE]
    /\ UNCHANGED lockVars

\* File::remove()
Remove(t) ==
    /\ task[t].at = "idle" /\ log.saves < MaxSaves
    /\ disk' = "absent"
    /\ log' = [log EXCEPT !.saved = "absent", !.saves = @ + 1,
                          !.accident = @ \/ \E u \in Threads : task[u].at = "truncated"]
    /\ UNCHANGED <<lockVars, task>>

Close(t) ==
    /\ task[t].at = "idle"
    /\ Destruct(FileLock(t))
    /\ task' = [task EXCEPT ![t] = Out]
    /\ UNCHANGED <<disk, log>>

-----------------------------------------------------------------------------
(* The static File::read(), in a thread with or without a File.            *)

ReadBegins(t) ==
    /\ task[t].at \in {"out", "idle"} /\ log.reads < MaxReads
    /\ Construct(ReadLock(t))
    /\ task' = [task EXCEPT ![t].at = "reading"]
    /\ log' = [log EXCEPT !.reads = @ + 1]
    /\ UNCHANGED disk

\* Mutant of ReadEnds: a file that cannot be opened returns past the lock.
ReadEndsLocked(t) ==
    /\ task[t].at = "reading" /\ state[ReadLock(t)] = "held"
    /\ IF disk = "absent" THEN UNCHANGED lockVars ELSE Destruct(ReadLock(t))
    /\ task' = [task EXCEPT ![t].at = IF task[t].open THEN "idle" ELSE "out"]
    /\ UNCHANGED <<disk, log>>

ReadEnds(t) ==
    /\ task[t].at = "reading" /\ state[ReadLock(t)] = "held"
    /\ Destruct(ReadLock(t))
    /\ task' = [task EXCEPT ![t].at = IF task[t].open THEN "idle" ELSE "out"]
    /\ UNCHANGED <<disk, log>>

-----------------------------------------------------------------------------

\* A thread in the constructor or the destructor of its lock.
Locking(t) ==
    /\ \E l \in {FileLock(t), ReadLock(t)} : Wake(l) \/ NotifyNext(l)
    /\ UNCHANGED fileVars

Spurious(t) ==
    /\ \E l \in {FileLock(t), ReadLock(t)} : SpuriousWake(l)
    /\ UNCHANGED fileVars

\* The power is lost: the disk keeps what was written so far.
Crash ==
    /\ log.crashes < MaxCrashes
    /\ max' = 0 /\ count' = 0 /\ max_ever_opened' = 0 /\ raised' = FALSE
    /\ state' = [l \in Locks |-> "free"]
    /\ task' = [t \in Threads |-> Out]
    /\ log' = [log EXCEPT !.crashes = @ + 1, !.accident = @ \/ \E t \in Threads : task[t].at = "truncated"]
    /\ UNCHANGED disk

FilesNext ==
    \/ \E n \in Limits : Mount(n)
    \/ \E t \in Threads :
        \/ Open(t) \/ Load(t) \/ (\E v \in Values : Truncate(t, v)) \/ Write(t) \/ Remove(t) \/ Close(t)
        \/ ReadBegins(t) \/ ReadEnds(t) \/ Locking(t) \/ Spurious(t)
    \/ Crash

\* A thread that can run does run; nothing makes it close its File.
FilesFairness == \A t \in Threads : WF_allVars(Locking(t)) /\ WF_allVars(ReadEnds(t))

FilesSpec == FilesInit /\ [][FilesNext]_allVars /\ FilesFairness

-----------------------------------------------------------------------------
(* Properties.                                                             *)

\* Between two saves the file holds what was saved last, however many JsonFile
\* objects there are and whenever the power was lost, unless it was lost in a
\* save, the disk was full or two threads wrote at the same time.
SavedIsThere ==
    (~log.accident /\ \A t \in Threads : task[t].at # "truncated") => disk = log.saved

\* A static read() returns, unless the File objects that are held leave no lock
\* for it, the reader's own among them, or the limit was raised over it while
\* it waited.
HeldFilesBlock ==
    raised \/ Cardinality({t \in Threads : state[FileLock(t)] \in {"counted", "held"}}) >= max
ReadsReturn == \A t \in Threads : (task[t].at = "reading") ~> (task[t].at # "reading" \/ HeldFilesBlock)
=============================================================================
