----------------------- MODULE SessionPersistenceProofs -----------------------
(***************************************************************************)
(* Whatever the number of changes, crashes and failed writes: what a flush  *)
(* or a clear has promised stays on disk, and the file never goes back.     *)
(***************************************************************************)
EXTENDS SessionPersistence, TLAPS

\* The latest state of the store a thread may have taken a snapshot of: a
\* change that is still under the store's lock is not part of it.
Visible ==
    IF op = "change" \/ (op = "clear" /\ At(Main, "fired")) THEN mem - 1 ELSE mem

\* The file lags behind what is visible, and what was promised behind the file.
DiskIsBetween == promised <= disk /\ disk <= Visible /\ generation <= Visible

\* Which step of which operation the event loop's thread can be at.
MainFollowsOp ==
    /\ At(Main, "idle") <=> op \in {"none", "change"}
    /\ ~ At(Main, "armed")
    /\ At(Main, "claimed") => op = "flush"

\* A snapshot that no generation supersedes is up to date, whoever took it.
CurrentIsVisible ==
    \A w \in Writers :
        /\ writer[w].generation <= generation
        /\ (writer[w].pc \in {"snapped", "writing"} /\ writer[w].generation = generation)
              => writer[w].snapshot = Visible

\* One thread writes at a time, and never less than the file holds.
WriterIsAhead ==
    \A w \in Writers :
        At(w, "writing") => /\ holder = w
                            /\ disk <= writer[w].snapshot /\ writer[w].snapshot <= Visible

\* The store does not change while the event loop's thread writes it.
MainIsCurrent ==
    /\ writer[Main].pc \in {"snapped", "writing"} => writer[Main].snapshot = mem
    /\ writer[Main].pc \in {"marking", "cleaning"} => disk = mem

Inv ==
    TypeOK /\ DiskIsBetween /\ MainFollowsOp /\ CurrentIsVisible /\ WriterIsAhead
    /\ MainIsCurrent

\* The invariant without its types.
Rest == DiskIsBetween /\ MainFollowsOp /\ CurrentIsVisible /\ WriterIsAhead /\ MainIsCurrent

USE PersistenceBounds
USE DEF Main, Timers, Writers, Nobody, Idle, At, Goes

LEMMA InitInv == Init => Inv
<1>1. ASSUME Init PROVE TypeOK
  <2>1. dirty \in BOOLEAN
    BY <1>1, Zenon DEF Init
  <2>2. writer \in [Writers -> [pc : {"idle"}, generation : {0}, snapshot : {0}]]
    BY <1>1 DEF Init
  <2> QED BY <1>1, <2>1, <2>2 DEF Init, TypeOK
<1>2. Init => DiskIsBetween /\ MainFollowsOp
  BY DEF Init, DiskIsBetween, MainFollowsOp, Visible
<1>3. ASSUME Init PROVE CurrentIsVisible
  <2>1. \A w \in Writers : writer[w] = Idle
    BY <1>3 DEF Init
  <2> QED BY <1>3, <2>1 DEF Init, CurrentIsVisible
<1>4. Init => WriterIsAhead /\ MainIsCurrent
  BY DEF Init, WriterIsAhead, MainIsCurrent
<1> QED BY <1>1, <1>2, <1>3, <1>4 DEF Inv

USE DEF Inv, TypeOK, DiskIsBetween, MainFollowsOp, CurrentIsVisible, WriterIsAhead,
        MainIsCurrent, Visible, faults, StoreLockFree, WithoutTimer, Ends, Returns

LEMMA ChangeBeginsKeeps == ASSUME Inv, ChangeBegins PROVE Inv'
BY DEF ChangeBegins

LEMMA ChangeSchedulesKeeps == ASSUME Inv, ChangeSchedules PROVE Inv'
BY DEF ChangeSchedules

LEMMA ClearBeginsKeeps == ASSUME Inv, ClearBegins PROVE Inv'
<1>1. TypeOK'
  BY DEF ClearBegins
<1>2. (DiskIsBetween /\ MainFollowsOp)'
  BY DEF ClearBegins
<1>3. (CurrentIsVisible /\ WriterIsAhead /\ MainIsCurrent)'
  BY DEF ClearBegins
<1> QED BY <1>1, <1>2, <1>3

LEMMA ClearInvalidatesKeeps == ASSUME Inv, ClearInvalidates PROVE Inv'
BY DEF ClearInvalidates

LEMMA FlushBeginsKeeps == ASSUME Inv, FlushBegins PROVE Inv'
BY DEF FlushBegins

LEMMA FlushClaimsKeeps == ASSUME Inv, FlushClaims PROVE Inv'
BY DEF FlushClaims

LEMMA TimerFiresKeeps == ASSUME Inv, NEW t \in Timers, TimerFires(t) PROVE Inv'
BY DEF TimerFires

LEMMA TimerClaimsKeeps == ASSUME Inv, NEW t \in Timers, TimerClaims(t) PROVE Inv'
<1>1. \A w \in Writers \ {t} : writer'[w] = writer[w]
  BY DEF TimerClaims
<1>2. writer'[t] = Idle \/ writer'[t] = [pc |-> "claimed", generation |-> t, snapshot |-> 0]
  BY DEF TimerClaims
<1>3. generation' = generation /\ Visible' = Visible
  <2>1. writer'[Main] = writer[Main]
    BY <1>1
  <2> QED BY <2>1 DEF TimerClaims
<1>4. TypeOK' /\ (t <= generation \/ writer'[t] = Idle)
  BY DEF TimerClaims
<1>5. CurrentIsVisible'
  <2> SUFFICES ASSUME NEW w \in Writers
               PROVE  /\ writer'[w].generation <= generation
                      /\ (writer'[w].pc \in {"snapped", "writing"}
                            /\ writer'[w].generation = generation)
                            => writer'[w].snapshot = Visible
    BY <1>3
  <2>1. CASE w # t
    BY <2>1, <1>1
  <2>2. CASE w = t
    BY <2>2, <1>2, <1>4 DEF TimerClaims
  <2> QED BY <2>1, <2>2
<1>6. (DiskIsBetween /\ MainFollowsOp /\ WriterIsAhead /\ MainIsCurrent)'
  BY DEF TimerClaims
<1> QED BY <1>4, <1>5, <1>6

LEMMA WriteIsDroppedKeeps == ASSUME Inv, NEW t \in Timers, WriteIsDropped(t) PROVE Inv'
BY DEF WriteIsDropped

LEMMA TakesSnapshotKeeps == ASSUME Inv, NEW w \in Writers, TakesSnapshot(w) PROVE Inv'
BY DEF TakesSnapshot

LEMMA WriteBeginsKeeps == ASSUME Inv, NEW w \in Writers, WriteBegins(w) PROVE Inv'
BY DEF WriteBegins

LEMMA WriteReplacesKeeps == ASSUME Inv, NEW w \in Writers, WriteReplaces(w) PROVE Inv'
BY DEF WriteReplaces

LEMMA WriteFailsKeeps == ASSUME Inv, NEW w \in Writers, WriteFails(w) PROVE Inv'
BY DEF WriteFails

LEMMA WriterReportsKeeps == ASSUME Inv, NEW w \in Writers, WriterReports(w) PROVE Inv'
BY DEF WriterReports

LEMMA MarkIsStaleKeeps == ASSUME Inv, NEW w \in Writers, MarkIsStale(w) PROVE Inv'
BY DEF MarkIsStale

LEMMA MarkIsCurrentKeeps == ASSUME Inv, NEW w \in Writers, MarkIsCurrent(w) PROVE Inv'
BY DEF MarkIsCurrent

LEMMA MarksCleanKeeps == ASSUME Inv, NEW w \in Writers, MarksClean(w) PROVE Inv'
<1>1. dirty' \in BOOLEAN
  BY Zenon DEF MarksClean
<1>2. writer'[w] = Idle /\ \A v \in Writers \ {w} : writer'[v] = writer[v]
  BY DEF MarksClean
<1>3. TypeOK'
  BY <1>1 DEF MarksClean
<1>4. (Rest)'
  BY <1>2 DEF MarksClean, Rest
<1> QED BY <1>3, <1>4 DEF Rest

LEMMA CrashKeeps == ASSUME Inv, Crash PROVE Inv'
<1>1. dirty' \in BOOLEAN
  BY Zenon DEF Crash
<1>2. \A w \in Writers : writer'[w] = Idle
  BY DEF Crash
<1>3. writer' \in [Writers -> [pc : {"idle"}, generation : {0}, snapshot : {0}]]
  BY DEF Crash
<1>4. TypeOK'
  BY <1>1, <1>3 DEF Crash
<1>5. (Rest)'
  BY <1>2 DEF Crash, Rest
<1> QED BY <1>4, <1>5 DEF Rest

LEMMA StutterKeeps == ASSUME Inv, UNCHANGED vars PROVE Inv'
BY DEF vars

LEMMA StepKeeps == ASSUME Inv, [Next]_vars PROVE Inv'
<1>1. CASE StoreStep
  BY <1>1, ChangeBeginsKeeps, ChangeSchedulesKeeps, ClearBeginsKeeps, ClearInvalidatesKeeps,
     FlushBeginsKeeps, FlushClaimsKeeps, Zenon DEF StoreStep
<1>2. CASE \E t \in Timers : TimerStep(t)
  BY <1>2, TimerFiresKeeps, TimerClaimsKeeps, WriteIsDroppedKeeps, Zenon DEF TimerStep
<1>3. CASE \E w \in Writers : WriterStep(w)
  BY <1>3, TakesSnapshotKeeps, WriteBeginsKeeps, WriteReplacesKeeps, WriteFailsKeeps,
     WriterReportsKeeps, MarkIsStaleKeeps, MarkIsCurrentKeeps, MarksCleanKeeps, Zenon
     DEF WriterStep
<1>4. CASE Crash
  BY <1>4, CrashKeeps
<1>5. CASE UNCHANGED vars
  BY <1>5, StutterKeeps
<1> QED BY <1>1, <1>2, <1>3, <1>4, <1>5 DEF Next

-----------------------------------------------------------------------------
\* The strengthening is inductive.
THEOREM PersistenceInvariant == Spec => []Inv
<1>1. Inv /\ [Next]_vars => Inv'
  BY StepKeeps
<1> QED BY InitInv, <1>1, PTL DEF Spec

\* Every state variable keeps its type; no generation outruns the changes.
THEOREM PersistenceTypeCorrect == Spec => []TypeOK
<1>1. Inv => TypeOK
  OBVIOUS
<1> QED BY <1>1, PersistenceInvariant, PTL

\* What a flush or a clear has written when it returns stays on disk
\* (DebouncedJsonPersistence.flush, write_data).
THEOREM FlushedStaysOnDisk == Spec => []PromisesAreKept
<1>1. Inv => PromisesAreKept
  BY DEF PromisesAreKept
<1> QED BY <1>1, PersistenceInvariant, PTL

\* A late timer never replaces the file by an older state (_write_if_current):
\* only WriteReplaces changes the file, and its snapshot is not behind it.
THEOREM FileOnlyAdvances == Spec => DiskNeverGoesBack
<1>1. ASSUME Inv, [Next]_vars PROVE disk' >= disk
  <2>1. disk \in Nat
    BY <1>1
  <2>2. CASE \E w \in Writers : WriteReplaces(w)
    BY <1>1, <2>2 DEF WriteReplaces
  <2>3. CASE disk' = disk
    BY <2>1, <2>3
  <2>4. (\E w \in Writers : WriteReplaces(w)) \/ disk' = disk
    BY <1>1 DEF Next, vars, StoreStep, TimerStep, WriterStep, ChangeBegins, ChangeSchedules,
       ClearBegins, ClearInvalidates, FlushBegins, FlushClaims, TimerFires, TimerClaims,
       WriteIsDropped, TakesSnapshot, WriteBegins, WriteFails, WriterReports, MarkIsStale,
       MarkIsCurrent, MarksClean, Crash
  <2> QED BY <2>2, <2>3, <2>4
<1>2. Inv /\ [Next]_vars => [disk' >= disk]_vars
  BY <1>1
<1> QED BY <1>2, PersistenceInvariant, PTL DEF Spec, DiskNeverGoesBack

\* Both together: the file only advances, and never behind what was promised.
THEOREM DurabilityHolds == Spec => DurabilityIsKept
BY FlushedStaysOnDisk, FileOnlyAdvances, PTL DEF DurabilityIsKept
===============================================================================
