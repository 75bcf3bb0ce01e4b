---------------------------- MODULE FilesProofs -----------------------------
(***************************************************************************)
(* The lock that bounds the number of open files, for any number of FSLock *)
(* objects and any sequence of limits: it counts right, keeps the limit    *)
(* and loses no wake-up.  The files on top of it use it as its             *)
(* specification says, restart it with the processor, and hold what was    *)
(* saved.                                                                  *)
(***************************************************************************)
EXTENDS Files, FiniteSetTheorems, TLAPS

\* The objects that FSLock::count counts.
OpenLocks == {l \in Locks : state[l] \in {"counted", "held"}}

CountInv == TypeOK /\ count = Cardinality(OpenLocks)

\* A notification changes no state but that of one waiting object, so the
\* open objects after cv.notify_one() are those of the caller's own step.
LEMMA NotifyKeepsOpen ==
    ASSUME NEW s \in [Locks -> States], NEW t \in AfterNotifyOne(s)
    PROVE  /\ t \in [Locks -> States]
           /\ \A l \in Locks : t[l] \in {"counted", "held"} <=> s[l] \in {"counted", "held"}
BY DEF AfterNotifyOne, States

\* The open objects are finitely many.
LEMMA OpenIsFinite == IsFiniteSet(OpenLocks) /\ Cardinality(OpenLocks) \in Nat
<1>1. OpenLocks \subseteq Locks
    BY DEF OpenLocks
<1> QED
    BY <1>1, LocksAssumption, FS_Subset, FS_CardinalityType

\* The predicate of cv.wait() counts an object exactly when it lets it through.
LEMMA TryToCountInv ==
    ASSUME CountInv, NEW l \in Locks, state[l] \notin {"counted", "held"},
           TryToCount(l), UNCHANGED <<max, raised>>
    PROVE  CountInv'
<1>1. CASE /\ count < max
           /\ count' = count + 1
           /\ max_ever_opened' = IF count' > max_ever_opened THEN count' ELSE max_ever_opened
           /\ state' = [state EXCEPT ![l] = "counted"]
    <2>1. OpenLocks' = OpenLocks \cup {l} /\ l \notin OpenLocks
        BY <1>1 DEF OpenLocks, CountInv, TypeOK, States
    <2>2. Cardinality(OpenLocks') = Cardinality(OpenLocks) + 1
        BY <2>1, OpenIsFinite, FS_AddElement
    <2>3. TypeOK'
        BY <1>1 DEF CountInv, TypeOK, States
    <2> QED
        BY <1>1, <2>2, <2>3 DEF CountInv
<1>2. CASE /\ count >= max
           /\ state' = [state EXCEPT ![l] = "waiting"]
           /\ UNCHANGED <<count, max_ever_opened>>
    <2>1. OpenLocks' = OpenLocks
        BY <1>2 DEF OpenLocks, CountInv, TypeOK, States
    <2>2. TypeOK'
        BY <1>2 DEF CountInv, TypeOK, States
    <2> QED
        BY <1>2, <2>1, <2>2 DEF CountInv
<1> QED
    BY <1>1, <1>2 DEF TryToCount

\* No object is constructed at the start.
LEMMA CountInit == Init => CountInv
<1> SUFFICES ASSUME Init PROVE CountInv
    OBVIOUS
<1>1. OpenLocks = {}
    BY DEF Init, OpenLocks
<1> QED
    BY <1>1, FS_EmptySet DEF Init, CountInv, TypeOK, States

\* Every step keeps the count: one step per operation of the lock.
LEMMA CountStep == CountInv /\ [Next]_vars => CountInv'
<1> SUFFICES ASSUME CountInv, [Next]_vars PROVE CountInv'
    OBVIOUS
<1>1. ASSUME NEW n \in Limits, set_limit(n) PROVE CountInv'
    BY <1>1 DEF set_limit, CountInv, TypeOK, OpenLocks
<1>2. ASSUME NEW l \in Locks, Construct(l) PROVE CountInv'
    BY <1>2, TryToCountInv DEF Construct
<1>3. ASSUME NEW l \in Locks, Wake(l) PROVE CountInv'
    BY <1>3, TryToCountInv DEF Wake
<1>4. ASSUME NEW l \in Locks, SpuriousWake(l) PROVE CountInv'
    <2>1. OpenLocks' = OpenLocks
        BY <1>4 DEF SpuriousWake, OpenLocks, CountInv, TypeOK, States
    <2> QED
        BY <1>4, <2>1 DEF SpuriousWake, CountInv, TypeOK, States
<1>5. ASSUME NEW l \in Locks, NotifyNext(l) PROVE CountInv'
    <2> DEFINE s == [state EXCEPT ![l] = "held"]
    <2>1. s \in [Locks -> States] /\ state' \in AfterNotifyOne(s)
        BY <1>5 DEF NotifyNext, CountInv, TypeOK, States
    <2>2. /\ state' \in [Locks -> States]
          /\ \A k \in Locks : state'[k] \in {"counted", "held"} <=> s[k] \in {"counted", "held"}
        BY <2>1, NotifyKeepsOpen
    <2>3. OpenLocks' = OpenLocks
        BY <1>5, <2>2 DEF NotifyNext, OpenLocks, CountInv, TypeOK
    <2> QED
        BY <1>5, <2>2, <2>3 DEF NotifyNext, CountInv, TypeOK
<1>6. ASSUME NEW l \in Locks, Destruct(l) PROVE CountInv'
    <2> DEFINE s == [state EXCEPT ![l] = "free"]
    <2>1. s \in [Locks -> States] /\ state' \in AfterNotifyOne(s)
        BY <1>6 DEF Destruct, CountInv, TypeOK, States
    <2>2. /\ state' \in [Locks -> States]
          /\ \A k \in Locks : state'[k] \in {"counted", "held"} <=> s[k] \in {"counted", "held"}
        BY <2>1, NotifyKeepsOpen
    <2>3. OpenLocks' = OpenLocks \ {l} /\ l \in OpenLocks
        BY <1>6, <2>2 DEF Destruct, OpenLocks, CountInv, TypeOK
    <2>4. Cardinality(OpenLocks') = Cardinality(OpenLocks) - 1
        BY <2>3, OpenIsFinite, FS_RemoveElement
    <2>5. Cardinality(OpenLocks') \in Nat
        BY <2>3, OpenIsFinite, FS_RemoveElement, FS_CardinalityType
    <2> QED
        BY <1>6, <2>2, <2>4, <2>5 DEF Destruct, CountInv, TypeOK
<1>7. CASE UNCHANGED vars
    BY <1>7 DEF vars, CountInv, TypeOK, OpenLocks
<1> QED
    BY <1>1, <1>2, <1>3, <1>4, <1>5, <1>6, <1>7 DEF Next

\* FSLock::count is a natural number and counts the constructed objects.
THEOREM CountCorrect == Spec => [](TypeOK /\ CountIsOpenLocks)
<1>1. CountInv => TypeOK /\ CountIsOpenLocks
    BY DEF CountInv, CountIsOpenLocks, OpenLocks
<1> QED
    BY <1>1, CountInit, CountStep, PTL DEF Spec

\* A step that opens a file leaves at most the limit open.
LEMMA LimitStep == TypeOK /\ [Next]_vars => [count' > count => count' <= max]_vars
<1> SUFFICES ASSUME TypeOK, Next, count' > count PROVE count' <= max
    BY DEF vars
<1>1. max \in Nat /\ count \in Nat
    BY LimitsAssumption DEF TypeOK
<1>2. ASSUME NEW n \in Limits, set_limit(n) PROVE FALSE
    BY <1>1, <1>2 DEF set_limit
<1>3. ASSUME NEW l \in Locks, SpuriousWake(l) \/ NotifyNext(l) \/ Destruct(l) PROVE FALSE
    BY <1>1, <1>3 DEF SpuriousWake, NotifyNext, Destruct
<1>4. ASSUME NEW l \in Locks, TryToCount(l) PROVE count' <= max
    BY <1>1, <1>4 DEF TryToCount
<1> QED
    BY <1>2, <1>3, <1>4 DEF Next, Construct, Wake

\* Whichever thread wins a freed slot, the limit in force is kept.
THEOREM LimitRespected == Spec => OpenWithinLimit
BY LimitStep, CountCorrect, PTL DEF Spec, OpenWithinLimit

-----------------------------------------------------------------------------

\* A notification wakes one of those asleep, if there are any.
LEMMA NotifyWakes ==
    ASSUME NEW s \in [Locks -> States], NEW t \in AfterNotifyOne(s),
           \E l \in Locks : t[l] = "waiting"
    PROVE  \E l \in Locks : t[l] = "woken"
<1>1. CASE {l \in Locks : s[l] = "waiting"} = {}
    <2>1. t = s
        BY <1>1 DEF AfterNotifyOne
    <2> QED
        BY <1>1, <2>1
<1>2. CASE {l \in Locks : s[l] = "waiting"} # {}
    <2>1. PICK l \in Locks : t = [s EXCEPT ![l] = "woken"]
        BY <1>2 DEF AfterNotifyOne
    <2> QED
        BY <2>1
<1> QED
    BY <1>1, <1>2

\* The predicate of cv.wait() lets its thread through, which will notify the
\* next one, or there is no free slot.
LEMMA TryToCountWakes ==
    ASSUME TypeOK, NEW l \in Locks, TryToCount(l), UNCHANGED <<max, raised>>
    PROVE  NoLostWakeup'
<1>1. max \in Nat /\ count \in Nat
    BY LimitsAssumption DEF TypeOK
<1>2. CASE count < max /\ state' = [state EXCEPT ![l] = "counted"]
    <2>1. state'[l] = "counted"
        BY <1>2 DEF TypeOK
    <2> QED
        BY <2>1 DEF NoLostWakeup
<1>3. CASE count >= max /\ UNCHANGED count
    BY <1>1, <1>3 DEF NoLostWakeup
<1> QED
    BY <1>2, <1>3 DEF TryToCount

\* Somebody is always on the way to a free slot that sleeping threads want.
LEMMA WakeupStep == TypeOK /\ NoLostWakeup /\ [Next]_vars => NoLostWakeup'
<1> SUFFICES ASSUME TypeOK, NoLostWakeup, [Next]_vars PROVE NoLostWakeup'
    OBVIOUS
<1>1. ASSUME NEW n \in Limits, set_limit(n) PROVE NoLostWakeup'
    <2>1. max \in Nat /\ count \in Nat /\ n \in Nat
        BY LimitsAssumption DEF TypeOK
    <2>2. Sleeping' = Sleeping /\ count' = count /\ max' = n /\ state' = state
        BY <1>1 DEF set_limit, Sleeping
    <2>3. ~raised' => ~raised /\ (n <= max \/ Sleeping = {})
        <3>1. n > max \/ n <= max
            BY <2>1
        <3> QED
            BY <1>1, <3>1, Zenon DEF set_limit
    <2> QED
        BY <2>1, <2>2, <2>3 DEF NoLostWakeup
<1>2. ASSUME NEW l \in Locks, Construct(l) PROVE NoLostWakeup'
    BY <1>2, TryToCountWakes DEF Construct
<1>3. ASSUME NEW l \in Locks, Wake(l) PROVE NoLostWakeup'
    BY <1>3, TryToCountWakes DEF Wake
<1>4. ASSUME NEW l \in Locks, SpuriousWake(l) PROVE NoLostWakeup'
    <2>1. state'[l] = "woken"
        BY <1>4 DEF SpuriousWake, TypeOK
    <2> QED
        BY <2>1 DEF NoLostWakeup
<1>5. ASSUME NEW l \in Locks, NotifyNext(l) PROVE NoLostWakeup'
    <2>1. [state EXCEPT ![l] = "held"] \in [Locks -> States]
        BY DEF TypeOK, States
    <2> QED
        BY <1>5, <2>1, NotifyWakes DEF NotifyNext, NoLostWakeup, Sleeping
<1>6. ASSUME NEW l \in Locks, Destruct(l) PROVE NoLostWakeup'
    <2>1. [state EXCEPT ![l] = "free"] \in [Locks -> States]
        BY DEF TypeOK, States
    <2> QED
        BY <1>6, <2>1, NotifyWakes DEF Destruct, NoLostWakeup, Sleeping
<1>7. CASE UNCHANGED vars
    BY <1>7 DEF vars, NoLostWakeup, Sleeping
<1> QED
    BY <1>1, <1>2, <1>3, <1>4, <1>5, <1>6, <1>7 DEF Next

LEMMA WakeupInit == Init => NoLostWakeup
BY DEF Init, NoLostWakeup, Sleeping

\* No wake-up is lost between notify_one() and the threads that wait, although
\* a notified thread may find its slot taken by a newcomer.
THEOREM WakeupsNotLost == Spec => []NoLostWakeup
BY CountCorrect, WakeupInit, WakeupStep, PTL DEF Spec

-----------------------------------------------------------------------------
(* The files.                                                              *)

\* What a thread or a file system does is an operation of the lock, or leaves
\* it alone; a loss of power begins anew.
LEMMA FilesUseTheLock == FilesNext => Next \/ UNCHANGED vars \/ Init'
<1> SUFFICES ASSUME FilesNext PROVE Next \/ UNCHANGED vars \/ Init'
    OBVIOUS
<1>1. ASSUME NEW t \in Threads PROVE FileLock(t) \in Locks /\ ReadLock(t) \in Locks
    BY LocksOfThreads DEF FileLock, ReadLock
<1>2. ASSUME NEW n \in Limits, Mount(n) PROVE Next
    BY <1>2 DEF Mount, Next
<1>3. ASSUME NEW t \in Threads, Open(t) \/ Close(t) \/ ReadBegins(t) \/ ReadEnds(t) PROVE Next
    BY <1>1, <1>3 DEF Open, Close, ReadBegins, ReadEnds, Next
<1>4. ASSUME NEW t \in Threads, Load(t) \/ (\E v \in Values : Truncate(t, v)) \/ Write(t) \/ Remove(t)
      PROVE  UNCHANGED vars
    BY <1>4 DEF Load, Truncate, Write, Remove, lockVars, vars
<1>5. ASSUME NEW t \in Threads, Locking(t) \/ Spurious(t) PROVE Next
    BY <1>1, <1>5 DEF Locking, Spurious, Next
<1>6. ASSUME Crash PROVE Init'
    BY <1>6 DEF Crash, Init
<1> QED
    BY <1>2, <1>3, <1>4, <1>5, <1>6 DEF FilesNext

\* A step of the files is one the lock allows, or a restart, or a stutter.
LEMMA FilesLockStep == [FilesNext]_allVars => [Next]_vars \/ Init'
<1>1. UNCHANGED allVars => UNCHANGED vars
    BY DEF allVars, lockVars, vars
<1> QED
    BY <1>1, FilesUseTheLock

\* Files, reads and restarts included, the lock counts right and loses no
\* wake-up.
THEOREM FilesCounted == FilesSpec => [](TypeOK /\ CountIsOpenLocks /\ NoLostWakeup)
<1> DEFINE LockInv == CountInv /\ NoLostWakeup
<1>1. FilesInit => LockInv
    BY CountInit, WakeupInit DEF FilesInit
<1>2. Init' => LockInv'
    <2>1. Init => LockInv
        BY CountInit, WakeupInit
    <2> QED
        BY <2>1, PTL
<1>3. LockInv /\ [FilesNext]_allVars => LockInv'
    <2>1. CountInv => TypeOK
        BY DEF CountInv
    <2> QED
        BY <1>2, <2>1, CountStep, WakeupStep, FilesLockStep
<1>4. LockInv => TypeOK /\ CountIsOpenLocks /\ NoLostWakeup
    BY DEF CountInv, CountIsOpenLocks, OpenLocks
<1> QED
    BY <1>1, <1>3, <1>4, PTL DEF FilesSpec

\* Files and reads together never open more than the limit allows.
THEOREM FilesWithinLimit == FilesSpec => OpenWithinLimit
<1>1. TypeOK /\ [FilesNext]_allVars => [count' > count => count' <= max]_vars
    <2> SUFFICES ASSUME TypeOK, Init' PROVE ~(count' > count)
        BY LimitStep, FilesLockStep
    <2> QED
        BY DEF TypeOK, Init
<1> QED
    BY <1>1, FilesCounted, PTL DEF FilesSpec, OpenWithinLimit

\* The parts of the history record that say what was saved.
LogOK == DOMAIN log = {"saved", "accident", "saves", "reads", "crashes"}

\* Where a thread is, and the value of its JsonFile.
TaskOK == task \in [Threads -> [at : {"out", "opening", "idle", "truncated", "reading"}, open : BOOLEAN,
                                value : Values \cup {"null", "discarded"}]]

FilesInv == LogOK /\ TaskOK /\ SavedIsThere

LEMMA FilesInvInit == FilesInit => FilesInv
BY DEF FilesInit, FilesInv, LogOK, TaskOK, SavedIsThere, Out

LEMMA FilesInvStep == FilesInv /\ [FilesNext]_allVars => FilesInv'
<1> SUFFICES ASSUME FilesInv, [FilesNext]_allVars PROVE FilesInv'
    OBVIOUS
<1> USE DEF FilesInv
<1>1. ASSUME NEW n \in Limits, Mount(n) PROVE FilesInv'
    BY <1>1 DEF Mount, fileVars, LogOK, TaskOK, SavedIsThere
<1>2. ASSUME NEW t \in Threads, Open(t) PROVE FilesInv'
    <2>1. task[t].at # "truncated"
        BY <1>2 DEF Open, Out
    <2> QED
        BY <1>2, <2>1 DEF Open, LogOK, TaskOK, SavedIsThere
<1>3. ASSUME NEW t \in Threads, Load(t) PROVE FilesInv'
    BY <1>3 DEF Load, LogOK, TaskOK, SavedIsThere, Parsed
<1>4. ASSUME NEW t \in Threads, NEW v \in Values, Truncate(t, v) PROVE FilesInv'
    <2>2. CASE task' = [task EXCEPT ![t] = [at |-> "truncated", open |-> task[t].open, value |-> v]]
        <3>1. TaskOK' /\ task'[t].at = "truncated"
            BY <2>2 DEF TaskOK
        <3>2. LogOK'
            BY <1>4 DEF Truncate, LogOK
        <3> QED
            BY <3>1, <3>2 DEF SavedIsThere
    <2>3. CASE task' = [task EXCEPT ![t].value = v] /\ UNCHANGED disk
        BY <1>4, <2>3 DEF Truncate, LogOK, TaskOK, SavedIsThere
    <2> QED
        BY <1>4, <2>2, <2>3 DEF Truncate
<1>5. ASSUME NEW t \in Threads, Write(t) PROVE FilesInv'
    <2>1. TaskOK'
        BY <1>5 DEF Write, TaskOK
    <2>2. log'.accident \/ (disk' = task[t].value /\ log'.saved = task[t].value)
        BY <1>5 DEF Write, LogOK
    <2>3. LogOK'
        BY <1>5 DEF Write, LogOK
    <2> QED
        BY <2>1, <2>2, <2>3 DEF SavedIsThere
<1>6. ASSUME NEW t \in Threads, Remove(t) PROVE FilesInv'
    BY <1>6 DEF Remove, LogOK, TaskOK, SavedIsThere
<1>7. ASSUME NEW t \in Threads, Close(t) PROVE FilesInv'
    BY <1>7 DEF Close, LogOK, TaskOK, SavedIsThere, Out
<1>8. ASSUME NEW t \in Threads, ReadBegins(t) PROVE FilesInv'
    BY <1>8 DEF ReadBegins, LogOK, TaskOK, SavedIsThere
<1>9. ASSUME NEW t \in Threads, ReadEnds(t) PROVE FilesInv'
    BY <1>9 DEF ReadEnds, LogOK, TaskOK, SavedIsThere
<1>10. ASSUME NEW t \in Threads, Locking(t) \/ Spurious(t) PROVE FilesInv'
    BY <1>10 DEF Locking, Spurious, fileVars, LogOK, TaskOK, SavedIsThere
<1>11. ASSUME Crash PROVE FilesInv'
    BY <1>11 DEF Crash, LogOK, TaskOK, SavedIsThere, Out
<1>12. CASE UNCHANGED allVars
    BY <1>12 DEF allVars, fileVars, LogOK, TaskOK, SavedIsThere
<1> QED
    BY <1>1, <1>2, <1>3, <1>4, <1>5, <1>6, <1>7, <1>8, <1>9, <1>10, <1>11, <1>12 DEF FilesNext

\* Between two saves the file holds what was saved last: other JsonFile objects,
\* reads and losses of power do not change it.
THEOREM SavedFileIsThere == FilesSpec => []SavedIsThere
<1>1. FilesInv => SavedIsThere
    BY DEF FilesInv
<1> QED
    BY <1>1, FilesInvInit, FilesInvStep, PTL DEF FilesSpec
=============================================================================
