------------------------- MODULE SessionPersistence -------------------------
(***************************************************************************)
(* SessionStore (messaging/session/store.py) and its debounced JSON writer  *)
(* (messaging/session/persistence.py).  The event loop's thread changes the *)
(* store, clears a chat and flushes; a threading.Timer per change saves in  *)
(* a thread of its own.  Every action is a stretch under one lock, or       *)
(* between locks; a process may die between any two.                        *)
(*                                                                          *)
(* What the store holds is abstracted to the number of changes it contains: *)
(* the file holds the changes 1..disk, memory the changes 1..mem.           *)
(***************************************************************************)
EXTENDS Naturals

CONSTANTS MaxVersion,    \* changes the store may contain (a bound)
          MaxCrashes,    \* times the process dies (a bound)
          MaxFailures    \* times writing the file raises (a bound)

ASSUME PersistenceBounds ==
    MaxVersion \in Nat /\ MaxCrashes \in Nat /\ MaxFailures \in Nat

Main == 0                   \* the event loop's thread as a writer
Timers == 1..MaxVersion     \* timer threads, named by their generation
Writers == {Main} \cup Timers
Nobody == MaxVersion + 1

VARIABLES
    mem, disk,
    dirty,        \* SessionStore._dirty
    generation,   \* _save_generation
    timer,        \* _save_timer, by its generation; 0 for None
    writer,       \* where each thread is, its _PendingWrite
    holder,       \* the thread that holds _writer_lock, or Nobody
    op,           \* the store operation the event loop's thread is in
    promised,     \* changes covered by a flush or clear that returned normally
    crashes, failures

faults == <<crashes, failures>>
vars == <<mem, disk, dirty, generation, timer, writer, holder, op, promised, faults>>

Idle == [pc |-> "idle", generation |-> 0, snapshot |-> 0]

Init ==
    /\ mem = 0 /\ disk = 0 /\ dirty = FALSE
    /\ generation = 0 /\ timer = 0
    /\ writer = [w \in Writers |-> Idle]
    /\ holder = Nobody /\ op = "none"
    /\ promised = 0 /\ crashes = 0 /\ failures = 0

At(w, pc) == writer[w].pc = pc
Goes(w, pc) == writer' = [writer EXCEPT ![w].pc = pc]

\* SessionStore._lock is held over several steps by a change or a clear only;
\* it is reentrant.
StoreLockFree(w) == w = Main \/ op \notin {"change", "clear"}

\* Timer.cancel stops a timer that has not fired.
WithoutTimer(ws) ==
    [w \in Writers |-> IF w = timer /\ w # Main /\ ws[w].pc = "armed" THEN Idle ELSE ws[w]]

-----------------------------------------------------------------------------
\* save_conversation_snapshot, save_tree_snapshot, remove_tree_snapshot,
\* record_message_id, forget_tracked_message_ids.
ChangeBegins ==
    /\ op = "none" /\ mem < MaxVersion
    /\ mem' = mem + 1 /\ dirty' = TRUE /\ op' = "change"
    /\ UNCHANGED <<disk, generation, timer, writer, holder, promised, faults>>

\* schedule_save under _timer_lock.
ChangeSchedules ==
    /\ op = "change" /\ op' = "none"
    /\ generation' = generation + 1 /\ timer' = generation + 1
    /\ writer' = [WithoutTimer(writer) EXCEPT ![generation + 1] = [Idle EXCEPT !.pc = "armed"]]
    /\ UNCHANGED <<mem, disk, dirty, holder, promised, faults>>

\* clear_scope: the new state is written before the operation returns.
ClearBegins ==
    /\ op = "none" /\ mem < MaxVersion
    /\ mem' = mem + 1 /\ dirty' = TRUE /\ op' = "clear"
    /\ Goes(Main, "fired")
    /\ UNCHANGED <<disk, generation, timer, holder, promised, faults>>

\* Mutant: pending snapshots stay valid.
MutClearInvalidates ==
    /\ op = "clear" /\ At(Main, "fired")
    /\ timer' = 0
    /\ writer' = [WithoutTimer(writer) EXCEPT
                    ![Main] = [pc |-> "snapped", generation |-> generation, snapshot |-> mem]]
    /\ UNCHANGED <<mem, disk, dirty, generation, holder, op, promised, faults>>

\* write_data: older pending snapshots are superseded.
ClearInvalidates ==
    /\ op = "clear" /\ At(Main, "fired")
    /\ generation' = generation + 1 /\ timer' = 0
    /\ writer' = [WithoutTimer(writer) EXCEPT
                    ![Main] = [pc |-> "snapped", generation |-> generation + 1,
                               snapshot |-> mem]]
    /\ UNCHANGED <<mem, disk, dirty, holder, op, promised, faults>>

FlushBegins ==
    /\ op = "none"
    /\ dirty' = TRUE /\ op' = "flush"
    /\ Goes(Main, "fired")
    /\ UNCHANGED <<mem, disk, generation, timer, holder, promised, faults>>

-----------------------------------------------------------------------------
TimerFires(t) ==
    /\ At(t, "armed") /\ Goes(t, "fired")
    /\ UNCHANGED <<mem, disk, dirty, generation, timer, holder, op, promised, faults>>

\* _claim_timer by flush.
FlushClaims ==
    /\ op = "flush" /\ At(Main, "fired")
    /\ timer' = 0
    /\ writer' = [WithoutTimer(writer) EXCEPT
                    ![Main] = [pc |-> "claimed", generation |-> generation, snapshot |-> 0]]
    /\ UNCHANGED <<mem, disk, dirty, generation, holder, op, promised, faults>>

\* Mutant: a timer that is not the latest unregisters the latest.
MutTimerClaims(t) ==
    /\ At(t, "fired")
    /\ timer' = 0
    /\ IF t = generation /\ timer # 0
         THEN writer' = [writer EXCEPT ![t] = [pc |-> "claimed", generation |-> t, snapshot |-> 0]]
         ELSE writer' = [writer EXCEPT ![t] = Idle]
    /\ UNCHANGED <<mem, disk, dirty, generation, holder, op, promised, faults>>

\* _claim_timer by a timer thread, which gives up when it is not the latest.
TimerClaims(t) ==
    /\ At(t, "fired")
    /\ IF t = generation /\ timer # 0
         THEN /\ timer' = 0
              /\ writer' = [writer EXCEPT ![t] = [pc |-> "claimed", generation |-> t, snapshot |-> 0]]
         ELSE /\ writer' = [writer EXCEPT ![t] = Idle]
              /\ UNCHANGED timer
    /\ UNCHANGED <<mem, disk, dirty, generation, holder, op, promised, faults>>

TakesSnapshot(w) ==
    /\ At(w, "claimed") /\ StoreLockFree(w)
    /\ writer' = [writer EXCEPT ![w].pc = "snapped", ![w].snapshot = mem]
    /\ UNCHANGED <<mem, disk, dirty, generation, timer, holder, op, promised, faults>>

\* The thread is done; the event loop's thread leaves its operation.
Ends(w) == writer' = [writer EXCEPT ![w] = Idle] /\ op' = IF w = Main THEN "none" ELSE op

\* Mutant: writers are not serialised.
MutWriteBeginsTogether(w) ==
    /\ At(w, "snapped") /\ writer[w].generation = generation
    /\ holder' = w /\ Goes(w, "writing")
    /\ UNCHANGED <<mem, disk, dirty, generation, timer, op, promised, faults>>

\* _write_if_current: a snapshot superseded before its write is dropped.
WriteBegins(w) ==
    /\ At(w, "snapped") /\ holder = Nobody
    /\ writer[w].generation = generation
    /\ holder' = w /\ Goes(w, "writing")
    /\ UNCHANGED <<mem, disk, dirty, generation, timer, op, promised, faults>>

\* Only a timer's: nothing supersedes what the event loop's thread writes.
WriteIsDropped(t) ==
    /\ At(t, "snapped") /\ holder = Nobody
    /\ writer[t].generation # generation
    /\ Ends(t)
    /\ UNCHANGED <<mem, disk, dirty, generation, timer, holder, promised, faults>>

\* os.replace
WriteReplaces(w) ==
    /\ At(w, "writing")
    /\ disk' = writer[w].snapshot /\ holder' = Nobody /\ Goes(w, "marking")
    /\ UNCHANGED <<mem, dirty, generation, timer, op, promised, faults>>

\* _write_file raises: the old file stays.
WriteFails(w) ==
    /\ At(w, "writing")
    /\ failures < MaxFailures /\ failures' = failures + 1
    /\ holder' = Nobody /\ Goes(w, "failed")
    /\ UNCHANGED <<mem, disk, dirty, generation, timer, op, promised, crashes>>

\* The store is dirty again; the event loop's thread raises.
WriterReports(w) ==
    /\ At(w, "failed") /\ StoreLockFree(w)
    /\ dirty' = TRUE
    /\ Ends(w)
    /\ UNCHANGED <<mem, disk, generation, timer, holder, promised, faults>>

\* The event loop's thread returns normally: what it wrote is durable.
Returns(w) == promised' = IF w = Main THEN mem ELSE promised

\* _mark_clean_if_current, its test under _timer_lock ...
MarkIsStale(w) ==
    /\ At(w, "marking") /\ (timer # 0 \/ writer[w].generation # generation)
    /\ Ends(w) /\ Returns(w)
    /\ UNCHANGED <<mem, disk, dirty, generation, timer, holder, faults>>

MarkIsCurrent(w) ==
    /\ At(w, "marking") /\ timer = 0 /\ writer[w].generation = generation
    /\ Goes(w, "cleaning")
    /\ UNCHANGED <<mem, disk, dirty, generation, timer, holder, op, promised, faults>>

\* ... and, after it, on_dirty(False).
MarksClean(w) ==
    /\ At(w, "cleaning") /\ StoreLockFree(w)
    /\ dirty' = FALSE
    /\ Ends(w) /\ Returns(w)
    /\ UNCHANGED <<mem, disk, generation, timer, holder, faults>>

\* The process dies and starts again: _load reads the file.
Crash ==
    /\ crashes < MaxCrashes /\ crashes' = crashes + 1
    /\ mem' = disk /\ dirty' = FALSE /\ generation' = 0 /\ timer' = 0
    /\ writer' = [w \in Writers |-> Idle]
    /\ holder' = Nobody /\ op' = "none"
    /\ UNCHANGED <<disk, promised, failures>>

-----------------------------------------------------------------------------
StoreStep ==
    ChangeBegins \/ ChangeSchedules \/ ClearBegins \/ ClearInvalidates
    \/ FlushBegins \/ FlushClaims
TimerStep(t) == TimerFires(t) \/ TimerClaims(t) \/ WriteIsDropped(t)
WriterStep(w) ==
    TakesSnapshot(w) \/ WriteBegins(w) \/ WriteReplaces(w) \/ WriteFails(w)
    \/ WriterReports(w) \/ MarkIsStale(w) \/ MarkIsCurrent(w) \/ MarksClean(w)

Next ==
    \/ StoreStep
    \/ \E t \in Timers : TimerStep(t)
    \/ \E w \in Writers : WriterStep(w)
    \/ Crash

Spec == Init /\ [][Next]_vars

\* The operating system runs every thread and grants the locks in turn.
Fairness ==
    /\ WF_vars(ChangeSchedules \/ ClearInvalidates \/ FlushClaims)
    /\ \A t \in Timers : WF_vars(TimerStep(t))
    /\ \A w \in Writers : WF_vars(WriterStep(w)) /\ SF_vars(WriteBegins(w))

FairSpec == Spec /\ Fairness

-----------------------------------------------------------------------------
TypeOK ==
    /\ mem \in 0..MaxVersion /\ disk \in 0..MaxVersion /\ promised \in 0..MaxVersion
    /\ dirty \in BOOLEAN
    /\ generation \in 0..mem /\ timer \in {0, generation}
    /\ writer \in [Writers ->
                     [pc : {"idle", "armed", "fired", "claimed", "snapped", "writing",
                            "failed", "marking", "cleaning"},
                      generation : 0..MaxVersion, snapshot : 0..MaxVersion]]
    /\ holder \in Writers \cup {Nobody}
    /\ op \in {"none", "change", "clear", "flush"}
    /\ crashes \in 0..MaxCrashes /\ failures \in 0..MaxFailures

\* A flush or a clear that returned normally is on disk for good: no thread
\* with an older snapshot, no failed write and no crash takes it back.
PromisesAreKept == promised <= disk

\* The file never goes back to an older state of the store.
DiskNeverGoesBack == [][disk' >= disk]_vars

\* What is on disk stays, promised or newer, through races, failures and crashes.
DurabilityIsKept == []PromisesAreKept /\ DiskNeverGoesBack

\* As long as writes succeed and the process lives, every change reaches the
\* file, whatever timers, flushes and clears race for it.
ChangesReachDisk ==
    \A v \in 1..MaxVersion : (mem >= v) ~> (disk >= v \/ failures > 0 \/ crashes > 0)
=============================================================================
