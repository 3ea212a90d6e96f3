---------------------------- MODULE DeliveryQueue ----------------------------
(***************************************************************************)
(* The outgoing messages of one platform: the compacting queue and its one *)
(* worker (messaging/limiter.py, MessagingRateLimiter) under the strict    *)
(* window of SlidingWindow, and the background tasks of PlatformOutbox     *)
(* (messaging/platforms/outbox.py).                                        *)
(*                                                                         *)
(* A call asks for a text of a message; calls are numbered in the order in *)
(* which they are made, and the number stands for the text.  The queue's   *)
(* condition is never contended, because no task awaits anything else      *)
(* while it holds it, so enqueueing and taking are single steps.           *)
(***************************************************************************)
EXTENDS SlidingWindow

CONSTANTS
    Messages,      \* messages that are edited (dedup_key)
    MaxCalls,      \* calls made (a bound)
    MaxFailures    \* operations of the platform that fail (a bound)

ASSUME DeliveryAssumption == MaxCalls \in Nat /\ MaxFailures \in Nat

Worker == "worker"
ASSUME WorkerAssumption == Tasks = {Worker}

MaxAttempts == 3        \* max_retries + 1 of fire_and_forget
NoCall == 0
Calls == 1..MaxCalls

VARIABLES
    asked,    \* for each call: message, way ("await", "forget" for fire_and_forget, or
              \* "outbox" for a task of the outbox that calls it), state and attempts
    ready,    \* tasks created and not yet run, oldest first
    queue,    \* _queue_list
    entry,    \* _queue_map: for each message the call whose text waits (func) and
              \* the calls with a future for it
    job,      \* what the worker took, with its futures (_active_futures)
    worker,   \* "waiting", "paused" (flood wait), "quota", "calling" or "stopped"
    flood,    \* _paused_until lies ahead
    phase,    \* "open", "closing" (the outbox is closed), "draining" (shutdown awaits
              \* the worker), "interrupted" or "closed"
    shown,    \* the text each message shows
    failures  \* operations that failed so far

taskVars == <<asked, ready>>
jobVars == <<job, worker, flood>>
queueVars == <<taskVars, queue, entry, jobVars, phase, shown, failures>>
vars == <<windowVars, queueVars>>

NoEntry == [func |-> NoCall, waiters |-> {}]
NoJob == [message |-> "", func |-> NoCall, waiters |-> {}]

Init ==
    /\ WindowInit
    /\ asked = <<>> /\ ready = <<>>
    /\ queue = <<>>
    /\ entry = [m \in Messages |-> NoEntry]
    /\ job = NoJob
    /\ worker = "waiting" /\ flood = FALSE
    /\ phase = "open"
    /\ shown = [m \in Messages |-> NoCall]
    /\ failures = 0

\* calls whose future is still pending get the outcome o
Settle(C, o) ==
    [c \in DOMAIN asked |->
        IF c \in C /\ asked[c].state = "queued" THEN [asked[c] EXCEPT !.state = o] ELSE asked[c]]

-----------------------------------------------------------------------------
(* Asking: enqueue, fire_and_forget and the outbox. *)

\* Mutant: a message that waits keeps the text it waits with.
MutPut(c, m) ==
    IF entry[m].func # NoCall
    THEN /\ entry' = [entry EXCEPT ![m].waiters = @ \cup {c}]
         /\ UNCHANGED queue
    ELSE /\ entry' = [entry EXCEPT ![m] = [func |-> c, waiters |-> {c}]]
         /\ queue' = Append(queue, m)

\* A newer text of the message takes the place of the one that waits.
Put(c, m) ==
    /\ entry' = [entry EXCEPT ![m] = [func |-> c, waiters |-> @.waiters \cup {c}]]
    /\ queue' = IF entry[m].func # NoCall THEN queue ELSE Append(queue, m)

Running == phase \in {"open", "closing"} /\ worker # "stopped"

\* enqueue: raises once the limiter is closed
Enqueue(c) ==
    LET m == asked[c].message
    IN  \/ /\ Running
           /\ Put(c, m)
           /\ asked' = [asked EXCEPT ![c].state = "queued", ![c].attempts = @ + 1]
        \/ /\ ~Running
           /\ asked' = [asked EXCEPT ![c].state = "failed"]
           /\ UNCHANGED <<queue, entry>>

\* a caller that awaits the delivery
AskAndWait(m) ==
    /\ Len(asked) < MaxCalls /\ phase = "open"
    /\ asked' = Append(asked, [message |-> m, way |-> "await", state |-> "queued", attempts |-> 1])
    /\ Put(Len(asked'), m)
    /\ UNCHANGED <<windowVars, ready, jobVars, phase, shown, failures>>

\* a caller that does not: a task is created
AskAndForget(m, way) ==
    /\ Len(asked) < MaxCalls /\ phase = "open"
    /\ asked' = Append(asked, [message |-> m, way |-> way, attempts |-> 0,
                               state |-> IF way = "outbox" THEN "outbox" ELSE "created"])
    /\ ready' = Append(ready, Len(asked'))
    /\ UNCHANGED <<windowVars, queue, entry, jobVars, phase, shown, failures>>

\* the event loop runs the tasks in the order in which they were created
RunOutboxTask ==
    /\ ready # <<>> /\ asked[Head(ready)].state = "outbox"
    /\ asked' = [asked EXCEPT ![Head(ready)].state = "created"]
    /\ ready' = Append(Tail(ready), Head(ready))
    /\ UNCHANGED <<windowVars, queue, entry, jobVars, phase, shown, failures>>

RunForgottenTask ==
    /\ ready # <<>> /\ asked[Head(ready)].state = "created"
    /\ Enqueue(Head(ready))
    /\ ready' = Tail(ready)
    /\ UNCHANGED <<windowVars, jobVars, phase, shown, failures>>

\* a task that was cancelled before its first step ends in it
RunCancelledTask ==
    /\ ready # <<>> /\ asked[Head(ready)].state = "failed"
    /\ ready' = Tail(ready)
    /\ UNCHANGED <<windowVars, asked, queue, entry, jobVars, phase, shown, failures>>

\* a task that slept after a transient error asks again, with its own text
Retry(c) ==
    /\ asked[c].state = "backoff"
    /\ Enqueue(c)
    /\ UNCHANGED <<windowVars, ready, jobVars, phase, shown, failures>>

\* a caller that awaits is cancelled; what it asked for stays in the queue
Leave(c) ==
    /\ asked[c].way = "await" /\ asked[c].state = "queued"
    /\ asked' = Settle({c}, "failed")
    /\ UNCHANGED <<windowVars, ready, queue, entry, jobVars, phase, shown, failures>>

-----------------------------------------------------------------------------
(* The worker. *)

Take ==
    /\ worker = "waiting" /\ queue # <<>> /\ Running
    /\ LET m == Head(queue)
       IN  /\ job' = [message |-> m, func |-> entry[m].func, waiters |-> entry[m].waiters]
           /\ entry' = [entry EXCEPT ![m] = NoEntry]
    /\ queue' = Tail(queue)
    /\ worker' = IF flood THEN "paused" ELSE "quota"
    /\ UNCHANGED <<windowVars, taskVars, flood, phase, shown, failures>>

FloodEnds ==
    /\ flood
    /\ flood' = FALSE
    /\ worker' = IF worker = "paused" THEN "quota" ELSE worker
    /\ UNCHANGED <<windowVars, taskVars, queue, entry, job, phase, shown, failures>>

WaitForQuota ==
    /\ worker = "quota"
    /\ \/ Acquire(Worker) /\ worker' = "calling"
       \/ Sleep(Worker) /\ UNCHANGED worker
    /\ UNCHANGED <<taskVars, queue, entry, job, flood, phase, shown, failures>>

TimePasses == Tick /\ UNCHANGED queueVars

\* the operation changed the message, unless it was refused
Applies == shown' = [shown EXCEPT ![job.message] = job.func]

GoesOn == job' = NoJob /\ worker' = "waiting"

Deliver ==
    /\ worker = "calling"
    /\ Applies
    /\ asked' = Settle(job.waiters, "ok")
    /\ GoesOn
    /\ UNCHANGED <<windowVars, ready, queue, entry, flood, phase, failures>>

\* Mutant: only the caller whose text was tried learns of the failure.
MutFailTransiently ==
    /\ worker = "calling" /\ failures < MaxFailures
    /\ failures' = failures + 1
    /\ Applies \/ UNCHANGED shown
    /\ asked' = [c \in DOMAIN asked |->
                    IF c = job.func /\ asked[c].state = "queued"
                    THEN [asked[c] EXCEPT !.state =
                            IF asked[c].way # "await" /\ asked[c].attempts < MaxAttempts THEN "backoff" ELSE "failed"]
                    ELSE asked[c]]
    /\ GoesOn
    /\ UNCHANGED <<windowVars, ready, queue, entry, flood, phase>>

\* Every future gets the exception; a task without a reader retries a transient one,
\* which may have reached the platform.
FailTransiently ==
    /\ worker = "calling" /\ failures < MaxFailures
    /\ failures' = failures + 1
    /\ Applies \/ UNCHANGED shown
    /\ LET again == {c \in job.waiters : asked[c].way # "await" /\ asked[c].attempts < MaxAttempts}
           failed == Settle(job.waiters, "failed")
       IN  asked' = [c \in DOMAIN asked |-> IF c \in again THEN Settle(again, "backoff")[c]
                                            ELSE failed[c]]
    /\ GoesOn
    /\ UNCHANGED <<windowVars, ready, queue, entry, flood, phase>>

\* any other error; a flood wait pauses the worker
FailForGood(floods) ==
    /\ worker = "calling" /\ failures < MaxFailures
    /\ failures' = failures + 1
    /\ asked' = Settle(job.waiters, "failed")
    /\ flood' = (flood \/ floods)
    /\ GoesOn
    /\ UNCHANGED <<windowVars, ready, queue, entry, phase, shown>>

\* the operation is cancelled from inside: the worker stays
OperationCancelled ==
    /\ worker = "calling" /\ failures < MaxFailures
    /\ failures' = failures + 1
    /\ asked' = Settle(job.waiters, "failed")
    /\ GoesOn
    /\ UNCHANGED <<windowVars, ready, queue, entry, flood, phase, shown>>

-----------------------------------------------------------------------------
(* Closing the platform: PlatformOutbox.close, then shutdown. *)

CloseOutbox ==
    /\ phase = "open"
    /\ phase' = "closing"
    /\ asked' = [c \in DOMAIN asked |-> IF asked[c].state = "outbox"
                                       THEN [asked[c] EXCEPT !.state = "failed"] ELSE asked[c]]
    /\ UNCHANGED <<windowVars, ready, queue, entry, jobVars, shown, failures>>

\* Mutant: only the job of the worker is cancelled.
MutShutDown ==
    /\ phase \in {"closing", "interrupted"}
    /\ phase' = "draining"
    /\ asked' = Settle(job.waiters, "failed")
    /\ queue' = <<>>
    /\ entry' = [m \in Messages |-> NoEntry]
    /\ UNCHANGED <<windowVars, ready, jobVars, shown, failures>>

\* Everything queued and active is cancelled, and so is the worker.
ShutDown ==
    /\ phase \in {"closing", "interrupted"}
    /\ phase' = "draining"
    /\ asked' = Settle(job.waiters \cup UNION {entry[m].waiters : m \in Messages}, "failed")
    /\ queue' = <<>>
    /\ entry' = [m \in Messages |-> NoEntry]
    /\ UNCHANGED <<windowVars, ready, jobVars, shown, failures>>

\* the operation in progress ends somehow, and may have reached the platform
WorkerStops ==
    /\ phase \in {"draining", "interrupted"} /\ worker # "stopped"
    /\ worker' = "stopped"
    /\ IF worker = "calling" THEN Applies \/ UNCHANGED shown ELSE UNCHANGED shown
    /\ job' = NoJob
    /\ UNCHANGED <<windowVars, taskVars, queue, entry, flood, phase, failures>>

Background == {c \in DOMAIN asked : asked[c].state \in {"created", "backoff"}}

\* Mutant: tasks that sleep before a retry are left alone.
MutCancelBackground == UNCHANGED taskVars

CancelBackground ==
    /\ asked' = [c \in DOMAIN asked |->
                    IF c \in Background THEN [asked[c] EXCEPT !.state = "failed"] ELSE asked[c]]
    /\ ready' = <<>>

ShutdownReturns ==
    /\ phase = "draining" /\ worker = "stopped"
    /\ phase' = "closed"
    /\ CancelBackground
    /\ UNCHANGED <<windowVars, queue, entry, jobVars, shown, failures>>

\* shutdown itself is cancelled while it awaits the worker; it may be called again
ShutdownInterrupted ==
    /\ phase = "draining" /\ worker # "stopped"
    /\ phase' = "interrupted"
    /\ CancelBackground
    /\ UNCHANGED <<windowVars, queue, entry, jobVars, shown, failures>>

-----------------------------------------------------------------------------
Next ==
    \/ \E m \in Messages : AskAndWait(m) \/ \E way \in {"forget", "outbox"} : AskAndForget(m, way)
    \/ RunOutboxTask \/ RunForgottenTask \/ RunCancelledTask
    \/ \E c \in DOMAIN asked : Retry(c) \/ Leave(c)
    \/ Take \/ FloodEnds \/ WaitForQuota \/ TimePasses
    \/ Deliver \/ FailTransiently \/ \E floods \in BOOLEAN : FailForGood(floods)
    \/ OperationCancelled
    \/ CloseOutbox \/ ShutDown \/ WorkerStops \/ ShutdownReturns \/ ShutdownInterrupted

Spec == Init /\ [][Next]_vars

\* The event loop runs its tasks, sleeps end, time passes and operations of the
\* platform end; nothing makes anybody ask, leave or close.
Fairness ==
    /\ WF_vars(RunOutboxTask) /\ WF_vars(RunForgottenTask) /\ WF_vars(RunCancelledTask)
    /\ \A c \in Calls : WF_vars(c \in DOMAIN asked /\ Retry(c))
    /\ WF_vars(Take) /\ WF_vars(FloodEnds) /\ WF_vars(WaitForQuota) /\ WF_vars(TimePasses)
    /\ WF_vars(Deliver \/ FailTransiently \/ (\E floods \in BOOLEAN : FailForGood(floods))
                 \/ OperationCancelled)
    /\ WF_vars(WorkerStops) /\ WF_vars(ShutdownReturns)

FairSpec == Spec /\ Fairness

-----------------------------------------------------------------------------
Ended == {"ok", "failed"}   \* answered, or an exception or a cancellation

\* Whoever waits for a delivery is known to a live worker: the future is in an entry
\* whose message is queued once, or in the job the worker has taken, through every
\* replacement, failure, pause and shutdown.
NobodyIsForgotten ==
    \A c \in DOMAIN asked : asked[c].state = "queued" =>
        /\ worker # "stopped"
        /\ \/ c \in job.waiters
           \/ LET m == asked[c].message
              IN  /\ c \in entry[m].waiters
                  /\ \E i \in 1..Len(queue) : queue[i] = m /\ \A j \in 1..Len(queue) : queue[j] = m => j = i

\* A call is only told that it was delivered when the message shows its text or a newer
\* one, unless the text shown came from a retry or took another way into the queue,
\* where the code lets older texts overtake.
AnsweredIsShown ==
    [][\A c \in DOMAIN asked : asked[c].state # "ok" /\ asked'[c].state = "ok" =>
          LET s == shown'[asked[c].message]
          IN  s >= c \/ (s \in DOMAIN asked /\ (asked[s].attempts > 1 \/ asked[s].way # asked[c].way))]_vars

\* When shutdown has returned every call has its answer and the worker is gone, and
\* nothing that sleeps or was about to run asks or shows anything afterwards.
CloseIsFinal ==
    [][/\ phase' = "closed" => worker' = "stopped" /\ \A c \in DOMAIN asked' : asked'[c].state \in Ended
       /\ phase = "closed" => UNCHANGED <<asked, shown, phase>>]_vars

\* The bounded clock ends before the sleep of the worker does.
OutOfTime == worker = "quota" /\ pc[Worker] = "asleep" /\ wake[Worker] > MaxTime

\* Every call ends, through flood waits, quota, retries and a shutdown that is
\* interrupted anywhere.
CallsSettle ==
    \A c \in Calls : (c \in DOMAIN asked) ~> (c \in DOMAIN asked /\ asked[c].state \in Ended) \/ OutOfTime
=============================================================================
