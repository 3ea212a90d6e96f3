------------------------ MODULE DeliveryQueueProofs ------------------------
(***************************************************************************)
(* SlidingWindow and DeliveryQueue for every rate limit, window length and *)
(* clock lag, and for every number of calls, messages and failures: the    *)
(* window is strict, the worker of the queue keeps it, nobody who waits is *)
(* forgotten, whoever is answered can see its text, and the close is final.*)
(*                                                                         *)
(* The window: whatever left the deque is older than a window              *)
(* (WindowTypeOK); with at most RateLimit - 1 stamps left, the             *)
(* RateLimit-th predecessor of a new stamp is among those.  The queue      *)
(* inherits it, as each of its steps is a step of SlidingWindow or leaves  *)
(* it alone.  The others rest on QueueInv: a message is in the queue       *)
(* exactly when a text of it waits, and once shutdown has begun no call    *)
(* waits any more; what is shown also on Newest and Line, the order of the *)
(* texts and of the tasks that bring them.                                 *)
(***************************************************************************)
EXTENDS DeliveryQueue, TLAPS

-----------------------------------------------------------------------------
(***************************************************************************)
(* The sliding window.                                                     *)
(***************************************************************************)
Inv == WindowTypeOK /\ StrictWindow

USE LimiterAssumption

LEMMA InitKeepsInv == WindowInit => Inv
BY DEF WindowInit, Inv, WindowTypeOK, StrictWindow

\* What pruning leaves: expired stamps go, the deque only shrinks.
LEMMA PruneFacts ==
  ASSUME Inv, Prunes(dropped')
  PROVE  /\ dropped' \in dropped..Len(log)
         /\ dropped' \in Nat /\ Len(log) \in Nat
         /\ \A i \in 1..dropped' : log[i] + Window <= now
         /\ Len(log) - dropped' <= RateLimit
BY DEF Inv, WindowTypeOK, Prunes

LEMMA AcquireStep ==
  ASSUME NEW t \in Tasks, Inv, Acquire(t)
  PROVE  Inv'
<1>1. /\ dropped' \in Nat /\ dropped' <= Len(log) /\ Len(log) \in Nat
      /\ \A i \in 1..dropped' : log[i] + Window <= now
      /\ Len(log) - dropped' < RateLimit
  BY PruneFacts DEF Acquire
<1>2. now \in Nat /\ now' \in Nat /\ now <= now'
  BY DEF Acquire, Inv, WindowTypeOK
<1>3. log' \in Seq(Nat) /\ Len(log') = Len(log) + 1
  BY <1>2 DEF Acquire, Inv, WindowTypeOK
<1>4. /\ \A i \in 1..Len(log) : log'[i] = log[i] /\ log[i] \in Nat
      /\ log'[Len(log) + 1] = now'
  BY <1>2 DEF Acquire, Inv, WindowTypeOK
<1>5. ASSUME NEW i \in 1..Len(log') PROVE log'[i] <= now'
  <2>1. CASE i = Len(log) + 1
    BY <1>2, <1>4, <2>1
  <2>2. CASE i # Len(log) + 1
    <3>1. i \in 1..Len(log)
      BY <1>1, <1>3, <2>2
    <3>2. log[i] <= now /\ log[i] \in Nat /\ log'[i] = log[i]
      BY <1>4, <3>1 DEF Inv, WindowTypeOK
    <3> QED BY <1>2, <3>2
  <2> QED BY <2>1, <2>2
<1>6. ASSUME NEW i \in 1..dropped' PROVE log'[i] + Window <= now'
  <2>1. i \in 1..Len(log)
    BY <1>1
  <2>2. log[i] + Window <= now /\ log[i] \in Nat /\ log'[i] = log[i]
    BY <1>1, <1>4, <2>1
  <2> QED BY <1>2, <2>2
<1>7. WindowTypeOK'
  <2>1. dropped' \in 0..Len(log') /\ Len(log') - dropped' <= RateLimit
    BY <1>1, <1>3
  <2>2. pc' \in [Tasks -> {"idle", "asleep"}] /\ wake' \in [Tasks -> Nat]
    BY DEF Acquire, Inv, WindowTypeOK
  <2> QED BY <1>2, <1>3, <1>5, <1>6, <2>1, <2>2 DEF WindowTypeOK
<1>8. ASSUME NEW i \in 1..Len(log'), i + RateLimit <= Len(log')
      PROVE  log'[i] + Window <= log'[i + RateLimit]
  <2>1. CASE i + RateLimit <= Len(log)
    <3>1. i \in 1..Len(log) /\ i + RateLimit \in 1..Len(log)
      BY <1>1, <2>1
    <3> QED BY <1>4, <2>1, <3>1 DEF Inv, StrictWindow
  <2>2. CASE i + RateLimit = Len(log) + 1
    <3>1. i \in 1..dropped'
      BY <1>1, <2>2
    <3>2. log'[i] + Window <= now'
      BY <1>6, <3>1
    <3>3. log'[i + RateLimit] = now'
      BY <1>4, <2>2
    <3> QED BY <3>2, <3>3
  <2>3. i + RateLimit <= Len(log) \/ i + RateLimit = Len(log) + 1
    <3>1. i \in Nat /\ RateLimit \in Nat /\ Len(log) \in Nat
      BY <1>1
    <3>2. i + RateLimit <= Len(log) + 1
      BY <1>3, <1>8
    <3> QED BY <3>1, <3>2
  <2> QED BY <2>1, <2>2, <2>3
<1> QED BY <1>7, <1>8 DEF Inv, StrictWindow

LEMMA NextKeepsInv == Inv /\ [WindowNext]_windowVars => Inv'
<1> SUFFICES ASSUME Inv, [WindowNext]_windowVars PROVE Inv'
  OBVIOUS
<1>1. ASSUME NEW t \in Tasks, Acquire(t) PROVE Inv'
  BY <1>1, AcquireStep
<1>2. ASSUME NEW t \in Tasks, Reject(t) PROVE Inv'
  BY <1>2, PruneFacts DEF Reject, Inv, WindowTypeOK, StrictWindow
<1>3. ASSUME NEW t \in Tasks, Sleep(t) PROVE Inv'
  <2>1. /\ dropped' \in Nat /\ dropped' <= Len(log) /\ Len(log) \in Nat
        /\ \A i \in 1..dropped' : log[i] + Window <= now
        /\ Len(log) - dropped' <= RateLimit
    BY <1>3, PruneFacts DEF Sleep
  <2>2. log[dropped' + 1] + Window \in Nat
    BY <1>3, <2>1, SMTT(30) DEF Sleep, Inv, WindowTypeOK
  <2> QED BY <1>3, <2>1, <2>2, SMTT(30) DEF Sleep, Inv, WindowTypeOK, StrictWindow
<1>4. CASE Tick
  BY <1>4 DEF Tick, Inv, WindowTypeOK, StrictWindow
<1>5. CASE UNCHANGED windowVars
  BY <1>5 DEF windowVars, Inv, WindowTypeOK, StrictWindow
<1> QED BY <1>1, <1>2, <1>3, <1>4, <1>5 DEF WindowNext, Horizon

\* The limiter never grants more than RateLimit acquisitions per window.
THEOREM WindowIsStrict == WindowSpec => []StrictWindow
<1>1. Inv => StrictWindow
  BY DEF Inv
<1> QED BY <1>1, InitKeepsInv, NextKeepsInv, PTL DEF WindowSpec

\* The deque is the part of the history that may still lie in the window.
THEOREM WindowTypeCorrect == WindowSpec => []WindowTypeOK
<1>1. Inv => WindowTypeOK
  BY DEF Inv
<1> QED BY <1>1, InitKeepsInv, NextKeepsInv, PTL DEF WindowSpec

-----------------------------------------------------------------------------
(***************************************************************************)
(* The delivery queue.                                                     *)
(***************************************************************************)
USE DeliveryAssumption, WorkerAssumption

CallRecord == [message : Messages, way : {"await", "forget", "outbox"}, attempts : Nat,
               state : {"outbox", "created", "queued", "backoff"} \cup Ended]

Phases == {"open", "closing", "draining", "interrupted", "closed"}

Shape ==
    /\ asked \in Seq(CallRecord)
    /\ ready \in Seq(Nat) /\ \A i \in DOMAIN ready : ready[i] \in DOMAIN asked
    /\ queue \in Seq(Messages)
    /\ entry \in [Messages -> [func : Nat, waiters : SUBSET Nat]]
    /\ job.waiters \in SUBSET Nat
    /\ phase \in Phases

\* a message is queued exactly when it has an entry, and only once
EntriesAreQueued ==
    /\ \A m \in Messages : entry[m].func # NoCall => \E i \in 1..Len(queue) : queue[i] = m
    /\ \A m \in Messages : entry[m].func = NoCall => entry[m].waiters = {}
    /\ \A i \in 1..Len(queue) : entry[queue[i]].func # NoCall
    /\ \A i, j \in 1..Len(queue) : queue[i] = queue[j] => i = j

\* somebody holds the future of a call that waits
Held ==
    /\ worker = "waiting" => job.waiters = {}
    /\ \A c \in DOMAIN asked : asked[c].state = "queued" =>
         c \in job.waiters \/ c \in entry[asked[c].message].waiters

\* what the phases exclude
Closing ==
    /\ worker = "stopped" => phase \notin {"open", "closing"}
    /\ phase \notin {"open", "closing"} => \A c \in DOMAIN asked : asked[c].state # "queued"
    /\ phase # "open" => \A c \in DOMAIN asked : asked[c].state # "outbox"
    /\ phase = "closed" =>
         ready = <<>> /\ worker = "stopped" /\ \A c \in DOMAIN asked : asked[c].state \in Ended

QueueInv == Shape /\ EntriesAreQueued /\ Held /\ Closing

-----------------------------------------------------------------------------
(* The window. *)

LEMMA InitIsWindow == Init => WindowInit
BY DEF Init

\* Only the worker touches the window, one pass or one tick at a time.
LEMMA StepIsWindow == [Next]_vars => [WindowNext]_windowVars
<1> SUFFICES ASSUME [Next]_vars PROVE [WindowNext]_windowVars
  OBVIOUS
<1>1. CASE WaitForQuota
  BY <1>1 DEF WaitForQuota, WindowNext
<1>2. CASE TimePasses
  BY <1>2 DEF TimePasses, WindowNext
<1>3. CASE UNCHANGED vars
  BY <1>3 DEF vars
<1>4. CASE UNCHANGED windowVars
  BY <1>4
<1> QED
  BY <1>1, <1>2, <1>3, <1>4
     DEF Next, AskAndWait, AskAndForget, RunOutboxTask, RunForgottenTask, RunCancelledTask, Retry,
         Leave, Take,
         FloodEnds, Deliver, FailTransiently, FailForGood, OperationCancelled, CloseOutbox, ShutDown,
         WorkerStops, ShutdownReturns, ShutdownInterrupted

\* The queue never calls the platform more often than its limiter allows.
THEOREM DeliveryIsStrict == Spec => []StrictWindow
<1>1. Spec => WindowSpec
  BY InitIsWindow, StepIsWindow, PTL DEF Spec, WindowSpec
<1> QED BY <1>1, WindowIsStrict, PTL

-----------------------------------------------------------------------------
(* The queue. *)

\* Rewriting the calls one by one keeps the sequence.
LEMMA Rewritten ==
  ASSUME NEW S, NEW s \in Seq(S), NEW f \in [DOMAIN s -> S]
  PROVE  f \in Seq(S) /\ DOMAIN f = DOMAIN s /\ Len(f) = Len(s)
OBVIOUS

LEMMA InitQueueInv == Init => QueueInv
<1> SUFFICES ASSUME Init PROVE QueueInv
  OBVIOUS
<1>1. asked = <<>> /\ ready = <<>> /\ queue = <<>> /\ phase = "open" /\ worker = "waiting"
  BY DEF Init
<1>2. job.waiters = {}
  BY DEF Init, NoJob
<1>3. /\ entry \in [Messages -> [func : Nat, waiters : SUBSET Nat]]
      /\ \A m \in Messages : entry[m].func = NoCall /\ entry[m].waiters = {}
  BY DEF Init, NoEntry, NoCall
<1>4. Shape
  BY <1>1, <1>2, <1>3 DEF Shape, Phases
<1>5. EntriesAreQueued
  BY <1>1, <1>3 DEF EntriesAreQueued
<1>6. Held /\ Closing
  BY <1>1, <1>2 DEF Held, Closing
<1> QED BY <1>4, <1>5, <1>6 DEF QueueInv

LEMMA CallFacts ==
  ASSUME Shape
  PROVE  /\ Len(asked) \in Nat /\ DOMAIN asked = 1..Len(asked)
         /\ asked \in [DOMAIN asked -> CallRecord]
         /\ \A c \in DOMAIN asked :
              /\ c \in Nat \ {0}
              /\ asked[c].message \in Messages /\ asked[c].attempts \in Nat
<1>1. Len(asked) \in Nat /\ DOMAIN asked = 1..Len(asked) /\ asked \in [DOMAIN asked -> CallRecord]
  BY DEF Shape
<1>2. \A c \in DOMAIN asked : asked[c] \in CallRecord
  BY <1>1
<1>3. \A r \in CallRecord : r.message \in Messages /\ r.attempts \in Nat
  BY DEF CallRecord
<1> QED BY <1>1, <1>2, <1>3

\* What Put leaves behind.
LEMMA PutFacts ==
  ASSUME Shape, EntriesAreQueued, NEW c \in Nat \ {0}, NEW m \in Messages, Put(c, m)
  PROVE  /\ entry' \in [Messages -> [func : Nat, waiters : SUBSET Nat]]
         /\ queue' \in Seq(Messages)
         /\ EntriesAreQueued'
         /\ c \in entry'[m].waiters
         /\ \A n \in Messages : entry[n].waiters \subseteq entry'[n].waiters
<1>1. /\ entry' \in [Messages -> [func : Nat, waiters : SUBSET Nat]]
      /\ entry'[m].func = c /\ entry'[m].waiters = entry[m].waiters \cup {c}
      /\ \A n \in Messages : n # m => entry'[n] = entry[n]
  BY DEF Shape, Put
<1>2. CASE entry[m].func # NoCall
  <2>1. queue' = queue
    BY <1>2 DEF Put
  <2>2. \A n \in Messages : entry'[n].func = NoCall <=> entry[n].func = NoCall
    BY <1>1, <1>2 DEF NoCall
  <2>3. \A i \in 1..Len(queue) : queue[i] \in Messages
    BY DEF Shape
  <2>4. \A n \in Messages : entry'[n].func = NoCall => entry'[n].waiters = {}
    BY <1>1, <2>2, <1>2 DEF EntriesAreQueued
  <2>5. EntriesAreQueued'
    BY <2>1, <2>2, <2>3, <2>4 DEF EntriesAreQueued
  <2> QED BY <1>1, <2>1, <2>5 DEF Shape
<1>3. CASE entry[m].func = NoCall
  <2>1. /\ queue' = Append(queue, m) /\ queue' \in Seq(Messages)
        /\ Len(queue') = Len(queue) + 1 /\ queue'[Len(queue) + 1] = m
        /\ \A i \in 1..Len(queue) : queue'[i] = queue[i]
    BY <1>3 DEF Put, Shape
  <2>2. Len(queue) \in Nat /\ \A i \in 1..Len(queue) : queue[i] \in Messages /\ queue[i] # m
    BY <1>3 DEF Shape, EntriesAreQueued
  <2>3. \A n \in Messages : entry'[n].func # NoCall => \E i \in 1..Len(queue') : queue'[i] = n
    <3> SUFFICES ASSUME NEW n \in Messages, entry'[n].func # NoCall
                 PROVE  \E i \in 1..Len(queue') : queue'[i] = n
      OBVIOUS
    <3>1. CASE n = m
      BY <2>1, <2>2, <3>1
    <3>2. CASE n # m
      <4>1. PICK i \in 1..Len(queue) : queue[i] = n
        BY <1>1, <3>2 DEF EntriesAreQueued
      <4> QED BY <2>1, <2>2, <4>1
    <3> QED BY <3>1, <3>2
  <2>4. \A i \in 1..Len(queue') : i \in 1..Len(queue) \/ i = Len(queue) + 1
    BY <2>1, <2>2
  <2>5. \A i \in 1..Len(queue') : entry'[queue'[i]].func # NoCall
    BY <1>1, <2>1, <2>2, <2>4 DEF EntriesAreQueued, NoCall
  <2>6. \A i, j \in 1..Len(queue') : queue'[i] = queue'[j] => i = j
    BY <2>1, <2>2, <2>4 DEF EntriesAreQueued
  <2>7. \A n \in Messages : entry'[n].func = NoCall => entry'[n].waiters = {}
    BY <1>1 DEF EntriesAreQueued, NoCall
  <2> QED BY <1>1, <2>1, <2>3, <2>5, <2>6, <2>7 DEF EntriesAreQueued
<1> QED BY <1>2, <1>3

\* Rewriting the futures of some calls changes nothing but their states.
LEMMA SettleFacts ==
  ASSUME Shape, NEW C, NEW o \in Ended \cup {"backoff"}
  PROVE  /\ Settle(C, o) \in [DOMAIN asked -> CallRecord]
         /\ \A c \in DOMAIN asked :
              /\ Settle(C, o)[c].message = asked[c].message
              /\ c \in C /\ asked[c].state = "queued" => Settle(C, o)[c].state = o
              /\ ~(c \in C /\ asked[c].state = "queued") => Settle(C, o)[c] = asked[c]
<1>1. \A c \in DOMAIN asked : asked[c] \in CallRecord
  BY DEF Shape
<1> QED BY <1>1 DEF Settle, CallRecord

\* Steps that only rewrite calls that wait, or calls that do not, into states that do
\* not wait: nobody is lost as long as the calls left waiting are held.
LEMMA Rewrites ==
  ASSUME QueueInv, asked' \in [DOMAIN asked -> CallRecord],
         \A c \in DOMAIN asked : asked'[c].message = asked[c].message,
         \A c \in DOMAIN asked : asked'[c].state = "queued" => asked[c].state = "queued",
         \A c \in DOMAIN asked : asked'[c].state = "outbox" => asked[c].state = "outbox",
         UNCHANGED <<ready, queue, entry, phase>>, phase # "closed"
  PROVE  /\ DOMAIN asked' = DOMAIN asked
         /\ (job'.waiters \in SUBSET Nat) => Shape'
         /\ EntriesAreQueued'
         /\ (worker' = "stopped" => phase \notin {"open", "closing"}) => Closing'
<1>1. asked' \in Seq(CallRecord) /\ DOMAIN asked' = DOMAIN asked
  BY Rewritten DEF QueueInv, Shape
<1>2. (job'.waiters \in SUBSET Nat) => Shape'
  BY <1>1 DEF QueueInv, Shape
<1>3. EntriesAreQueued'
  BY DEF QueueInv, EntriesAreQueued
<1>4. (worker' = "stopped" => phase \notin {"open", "closing"}) => Closing'
  BY <1>1 DEF QueueInv, Closing
<1> QED BY <1>1, <1>2, <1>3, <1>4

LEMMA DeliverStep == QueueInv /\ Deliver => QueueInv'
<1> SUFFICES ASSUME QueueInv, Deliver PROVE QueueInv'
  OBVIOUS
<1>1. Shape /\ Held /\ Closing /\ worker = "calling"
  BY DEF QueueInv, Deliver
<1>2. asked' = Settle(job.waiters, "ok") /\ job'.waiters = {} /\ worker' = "waiting"
  BY DEF Deliver, GoesOn, NoJob
<1>3. phase # "closed"
  BY <1>1 DEF Closing
<1>4. /\ asked' \in [DOMAIN asked -> CallRecord]
      /\ \A c \in DOMAIN asked :
           /\ asked'[c].message = asked[c].message
           /\ asked'[c].state = "queued" => asked[c].state = "queued" /\ c \notin job.waiters
           /\ asked'[c].state = "outbox" => asked[c].state = "outbox"
  BY <1>1, <1>2, SettleFacts DEF Ended
<1>5. DOMAIN asked' = DOMAIN asked /\ Shape' /\ EntriesAreQueued' /\ Closing'
  BY <1>2, <1>3, <1>4, Rewrites DEF Deliver
<1>6. Held'
  BY <1>1, <1>2, <1>4, <1>5 DEF Held, Deliver
<1> QED BY <1>5, <1>6 DEF QueueInv

LEMMA FailTransientlyStep == QueueInv /\ FailTransiently => QueueInv'
<1> SUFFICES ASSUME QueueInv, FailTransiently PROVE QueueInv'
  OBVIOUS
<1> DEFINE again == {c \in job.waiters : asked[c].way # "await" /\ asked[c].attempts < MaxAttempts}
<1>1. Shape /\ Held /\ Closing /\ worker = "calling"
  BY DEF QueueInv, FailTransiently
<1>2. /\ asked' = [c \in DOMAIN asked |-> IF c \in again THEN Settle(again, "backoff")[c]
                                          ELSE Settle(job.waiters, "failed")[c]]
      /\ job'.waiters = {} /\ worker' = "waiting"
  BY DEF FailTransiently, GoesOn, NoJob
<1>3. phase # "closed"
  BY <1>1 DEF Closing
<1> HIDE DEF again
<1>4. /\ Settle(again, "backoff") \in [DOMAIN asked -> CallRecord]
      /\ \A c \in DOMAIN asked :
           /\ Settle(again, "backoff")[c].message = asked[c].message
           /\ c \in again /\ asked[c].state = "queued" => Settle(again, "backoff")[c].state = "backoff"
           /\ ~(c \in again /\ asked[c].state = "queued") => Settle(again, "backoff")[c] = asked[c]
  BY <1>1, SettleFacts
<1>5. /\ Settle(job.waiters, "failed") \in [DOMAIN asked -> CallRecord]
      /\ \A c \in DOMAIN asked :
           /\ Settle(job.waiters, "failed")[c].message = asked[c].message
           /\ c \in job.waiters /\ asked[c].state = "queued" => Settle(job.waiters, "failed")[c].state = "failed"
           /\ ~(c \in job.waiters /\ asked[c].state = "queued") => Settle(job.waiters, "failed")[c] = asked[c]
  BY <1>1, SettleFacts DEF Ended
<1>6. again \subseteq job.waiters
  BY DEF again
<1>7. /\ asked' \in [DOMAIN asked -> CallRecord]
      /\ \A c \in DOMAIN asked :
           /\ asked'[c].message = asked[c].message
           /\ asked'[c].state = "queued" => asked[c].state = "queued" /\ c \notin job.waiters
           /\ asked'[c].state = "outbox" => asked[c].state = "outbox"
  BY <1>2, <1>4, <1>5, <1>6
<1>8. DOMAIN asked' = DOMAIN asked /\ Shape' /\ EntriesAreQueued' /\ Closing'
  BY <1>2, <1>3, <1>7, Rewrites DEF FailTransiently
<1>9. Held'
  BY <1>1, <1>2, <1>7, <1>8 DEF Held, FailTransiently
<1> QED BY <1>8, <1>9 DEF QueueInv

\* Every other end of the operation settles all futures of the job.
LEMMA RefusedStep ==
  ASSUME QueueInv, (\E floods \in BOOLEAN : FailForGood(floods)) \/ OperationCancelled
  PROVE  QueueInv'
<1>1. Shape /\ Held /\ Closing /\ worker = "calling" /\ UNCHANGED <<ready, queue, entry, phase>>
  BY DEF QueueInv, FailForGood, OperationCancelled
<1>2. asked' = Settle(job.waiters, "failed") /\ job'.waiters = {} /\ worker' = "waiting"
  <2>1. asked' = Settle(job.waiters, "failed") /\ GoesOn
    BY DEF FailForGood, OperationCancelled
  <2> QED BY <2>1 DEF GoesOn, NoJob
<1>3. phase # "closed"
  BY <1>1 DEF Closing
<1>4. /\ asked' \in [DOMAIN asked -> CallRecord]
      /\ \A c \in DOMAIN asked :
           /\ asked'[c].message = asked[c].message
           /\ asked'[c].state = "queued" => asked[c].state = "queued" /\ c \notin job.waiters
           /\ asked'[c].state = "outbox" => asked[c].state = "outbox"
  BY <1>1, <1>2, SettleFacts DEF Ended
<1>5. DOMAIN asked' = DOMAIN asked /\ Shape' /\ EntriesAreQueued' /\ Closing'
  BY <1>1, <1>2, <1>3, <1>4, Rewrites
<1>6. Held'
  BY <1>1, <1>2, <1>4, <1>5 DEF Held
<1> QED BY <1>5, <1>6 DEF QueueInv

LEMMA LeaveStep ==
  ASSUME QueueInv, NEW c \in DOMAIN asked, Leave(c)
  PROVE  QueueInv'
<1>1. Shape /\ Held /\ Closing /\ phase # "closed"
  BY DEF QueueInv, Leave, Closing, Ended
<1>2. /\ asked' \in [DOMAIN asked -> CallRecord]
      /\ \A d \in DOMAIN asked :
           /\ asked'[d].message = asked[d].message
           /\ asked'[d].state = "queued" => asked[d].state = "queued"
           /\ asked'[d].state = "outbox" => asked[d].state = "outbox"
  BY <1>1, SettleFacts DEF Leave, Ended
<1>3. UNCHANGED <<ready, queue, entry, job, worker, phase>>
  BY DEF Leave, jobVars
<1>4. DOMAIN asked' = DOMAIN asked /\ Shape' /\ EntriesAreQueued' /\ Closing'
  BY <1>1, <1>2, <1>3, Rewrites DEF Shape, Closing
<1>5. Held'
  BY <1>1, <1>2, <1>3, <1>4 DEF Held
<1> QED BY <1>4, <1>5 DEF QueueInv

\* A call that is not waiting enters the queue, or fails because the limiter is closed.
LEMMA EnqueueStep ==
  ASSUME QueueInv, NEW c \in DOMAIN asked, asked[c].state \in {"created", "backoff"}, Enqueue(c),
         UNCHANGED <<job, worker, phase>>,
         ready' \in Seq(Nat), \A i \in DOMAIN ready' : ready'[i] \in DOMAIN asked,
         phase # "closed"
  PROVE  QueueInv'
<1>1. Shape /\ EntriesAreQueued /\ Held /\ Closing
  BY DEF QueueInv
<1>2. /\ c \in Nat \ {0} /\ asked \in [DOMAIN asked -> CallRecord]
      /\ asked[c] \in CallRecord /\ asked[c].message \in Messages
  BY <1>1, CallFacts
<1>3. CASE Running /\ Put(c, asked[c].message)
           /\ asked' = [asked EXCEPT ![c].state = "queued", ![c].attempts = @ + 1]
  <2>1. /\ asked' \in [DOMAIN asked -> CallRecord]
        /\ asked'[c].message = asked[c].message
        /\ \A d \in DOMAIN asked : d # c => asked'[d] = asked[d]
        /\ asked'[c].state = "queued"
    <3>1. asked'[c] = [asked[c] EXCEPT !.state = "queued", !.attempts = asked[c].attempts + 1]
      BY <1>2, <1>3
    <3>2. asked'[c] \in CallRecord /\ asked'[c].message = asked[c].message
          /\ asked'[c].state = "queued"
      <4>1. PICK n \in Nat : n = asked[c].attempts + 1
        BY <1>1, CallFacts
      <4>2. asked'[c] = [asked[c] EXCEPT !.state = "queued", !.attempts = n]
        BY <3>1, <4>1
      <4> QED BY <1>2, <4>2 DEF CallRecord
    <3>3. DOMAIN asked' = DOMAIN asked /\ \A d \in DOMAIN asked : d # c => asked'[d] = asked[d]
      BY <1>2, <1>3
    <3> QED BY <1>2, <1>3, <3>2, <3>3
  <2>2. asked' \in Seq(CallRecord) /\ DOMAIN asked' = DOMAIN asked
    BY <1>1, <2>1, Rewritten DEF Shape
  <2>3. /\ entry' \in [Messages -> [func : Nat, waiters : SUBSET Nat]]
        /\ queue' \in Seq(Messages)
        /\ EntriesAreQueued'
        /\ c \in entry'[asked[c].message].waiters
        /\ \A n \in Messages : entry[n].waiters \subseteq entry'[n].waiters
    BY <1>1, <1>2, <1>3, PutFacts
  <2>4. Shape'
    BY <1>1, <2>2, <2>3 DEF Shape
  <2>5. \A d \in DOMAIN asked : asked[d].message \in Messages
    BY <1>1, CallFacts
  <2>6. Held'
    BY <1>1, <2>1, <2>2, <2>3, <2>5 DEF Held
  <2>7. Closing'
    BY <1>1, <1>3, <2>1, <2>2 DEF Closing, Running
  <2> QED BY <2>3, <2>4, <2>6, <2>7 DEF QueueInv
<1>4. CASE asked' = [asked EXCEPT ![c].state = "failed"] /\ UNCHANGED <<queue, entry>>
  <2>1. /\ asked' \in [DOMAIN asked -> CallRecord]
        /\ asked'[c].message = asked[c].message
        /\ \A d \in DOMAIN asked : d # c => asked'[d] = asked[d]
        /\ asked'[c].state = "failed"
    <3>1. asked'[c] = [asked[c] EXCEPT !.state = "failed"]
      BY <1>2, <1>4
    <3>2. asked'[c] \in CallRecord /\ asked'[c].message = asked[c].message
          /\ asked'[c].state = "failed"
      BY <1>2, <3>1 DEF CallRecord, Ended
    <3>3. DOMAIN asked' = DOMAIN asked /\ \A d \in DOMAIN asked : d # c => asked'[d] = asked[d]
      BY <1>2, <1>4
    <3> QED BY <1>2, <1>4, <3>2, <3>3
  <2>2. asked' \in Seq(CallRecord) /\ DOMAIN asked' = DOMAIN asked
    BY <1>1, <2>1, Rewritten DEF Shape
  <2>3. Shape' /\ EntriesAreQueued'
    BY <1>1, <1>4, <2>2 DEF Shape, EntriesAreQueued
  <2>4. Held' /\ Closing'
    BY <1>1, <1>4, <2>1, <2>2 DEF Held, Closing
  <2> QED BY <2>3, <2>4 DEF QueueInv
<1> QED BY <1>3, <1>4 DEF Enqueue

LEMMA RunForgottenStep == QueueInv /\ RunForgottenTask => QueueInv'
<1> SUFFICES ASSUME QueueInv, RunForgottenTask PROVE QueueInv'
  OBVIOUS
<1>1. /\ ready \in Seq(Nat) /\ ready # <<>> /\ ready' = Tail(ready)
      /\ \A i \in DOMAIN ready : ready[i] \in DOMAIN asked
  BY DEF QueueInv, Shape, RunForgottenTask
<1>2. Head(ready) \in DOMAIN asked
  BY <1>1
<1>3. ready' \in Seq(Nat) /\ \A i \in DOMAIN ready' : ready'[i] \in DOMAIN asked
  BY <1>1
<1>4. phase # "closed"
  BY <1>1 DEF QueueInv, Closing
<1>5. UNCHANGED <<job, worker, phase>>
  BY DEF RunForgottenTask, jobVars
<1> QED BY <1>2, <1>3, <1>4, <1>5, EnqueueStep DEF RunForgottenTask

LEMMA RetryStep ==
  ASSUME QueueInv, NEW c \in DOMAIN asked, Retry(c)
  PROVE  QueueInv'
<1>1. phase # "closed"
  BY DEF QueueInv, Closing, Retry, Ended
<1>2. ready' \in Seq(Nat) /\ \A i \in DOMAIN ready' : ready'[i] \in DOMAIN asked
  BY DEF QueueInv, Shape, Retry
<1>3. UNCHANGED <<job, worker, phase>>
  BY DEF Retry, jobVars
<1> QED BY <1>1, <1>2, <1>3, EnqueueStep DEF Retry

\* A new call: it waits at once, or a task for it is created.
LEMMA AskStep ==
  ASSUME QueueInv, NEW m \in Messages,
         AskAndWait(m) \/ \E way \in {"forget", "outbox"} : AskAndForget(m, way)
  PROVE  QueueInv'
<1>1. Shape /\ EntriesAreQueued /\ Held /\ Closing /\ phase = "open" /\ worker # "stopped"
  BY DEF QueueInv, Closing, AskAndWait, AskAndForget
<1>2. PICK r \in CallRecord :
        /\ asked' = Append(asked, r) /\ r.message = m
        /\ \/ r.state = "queued" /\ Put(Len(asked'), m) /\ ready' = ready
           \/ /\ r.state \in {"outbox", "created"} /\ ready' = Append(ready, Len(asked'))
              /\ UNCHANGED <<queue, entry>>
  <2>1. CASE AskAndWait(m)
    <3> DEFINE r == [message |-> m, way |-> "await", state |-> "queued", attempts |-> 1]
    <3>1. r \in CallRecord /\ r.message = m /\ r.state = "queued"
      BY DEF CallRecord
    <3> QED BY <2>1, <3>1 DEF AskAndWait
  <2>2. ASSUME NEW way \in {"forget", "outbox"}, AskAndForget(m, way)
        PROVE  \E r \in CallRecord :
                 /\ asked' = Append(asked, r) /\ r.message = m
                 /\ r.state \in {"outbox", "created"} /\ ready' = Append(ready, Len(asked'))
                 /\ UNCHANGED <<queue, entry>>
    <3> DEFINE r == [message |-> m, way |-> way, attempts |-> 0,
                     state |-> IF way = "outbox" THEN "outbox" ELSE "created"]
    <3>1. r \in CallRecord /\ r.message = m /\ r.state \in {"outbox", "created"}
      BY DEF CallRecord
    <3> QED BY <2>2, <3>1 DEF AskAndForget
  <2> QED BY <2>1, <2>2
<1>3. UNCHANGED <<job, worker, phase>>
  BY DEF AskAndWait, AskAndForget, jobVars
<1>4. /\ Len(asked) \in Nat /\ asked' \in Seq(CallRecord) /\ Len(asked') = Len(asked) + 1
      /\ DOMAIN asked = 1..Len(asked) /\ DOMAIN asked' = 1..Len(asked) + 1
      /\ asked'[Len(asked')] = r /\ \A d \in DOMAIN asked : asked'[d] = asked[d]
  BY <1>1, <1>2 DEF Shape
<1>5. \A d \in DOMAIN asked' : d \in DOMAIN asked \/ d = Len(asked')
  BY <1>4
<1>6. CASE r.state = "queued" /\ Put(Len(asked'), m) /\ ready' = ready
  <2>1. /\ entry' \in [Messages -> [func : Nat, waiters : SUBSET Nat]]
        /\ queue' \in Seq(Messages)
        /\ EntriesAreQueued'
        /\ Len(asked') \in entry'[m].waiters
        /\ \A n \in Messages : entry[n].waiters \subseteq entry'[n].waiters
    <3>1. Len(asked') \in Nat \ {0}
      BY <1>4
    <3> QED BY <1>1, <1>6, <3>1, PutFacts
  <2>2. Shape'
    BY <1>1, <1>3, <1>4, <1>6, <2>1 DEF Shape
  <2>3. \A d \in DOMAIN asked : asked[d].message \in Messages
    BY <1>1, CallFacts
  <2>4. Held'
    BY <1>1, <1>2, <1>3, <1>4, <1>5, <2>1, <2>3, ZenonT(60) DEF Held
  <2>5. Closing'
    BY <1>1, <1>3 DEF Closing
  <2> QED BY <2>1, <2>2, <2>4, <2>5 DEF QueueInv
<1>7. CASE /\ r.state \in {"outbox", "created"} /\ ready' = Append(ready, Len(asked'))
           /\ UNCHANGED <<queue, entry>>
  <2>1. ready' \in Seq(Nat) /\ \A i \in DOMAIN ready' : ready'[i] \in DOMAIN asked'
    BY <1>1, <1>4, <1>7 DEF Shape
  <2>2. Shape' /\ EntriesAreQueued'
    BY <1>1, <1>3, <1>4, <1>7, <2>1 DEF Shape, EntriesAreQueued
  <2>3. Held'
    BY <1>1, <1>3, <1>4, <1>5, <1>7 DEF Held
  <2>4. Closing'
    BY <1>1, <1>3 DEF Closing
  <2> QED BY <2>2, <2>3, <2>4 DEF QueueInv
<1> QED BY <1>2, <1>6, <1>7

LEMMA RunOutboxStep == QueueInv /\ RunOutboxTask => QueueInv'
<1> SUFFICES ASSUME QueueInv, RunOutboxTask PROVE QueueInv'
  OBVIOUS
<1>1. Shape /\ EntriesAreQueued /\ Held /\ Closing /\ ready # <<>>
  BY DEF QueueInv, RunOutboxTask
<1>2. Head(ready) \in DOMAIN asked /\ ready' = Append(Tail(ready), Head(ready))
  BY <1>1 DEF Shape, RunOutboxTask
<1>3. ready' \in Seq(Nat) /\ \A i \in DOMAIN ready' : ready'[i] \in DOMAIN asked
  BY <1>1, <1>2 DEF Shape
<1>4. asked \in [DOMAIN asked -> CallRecord]
  BY <1>1, CallFacts
<1> DEFINE h == Head(ready)
<1>5. /\ asked' \in [DOMAIN asked -> CallRecord]
      /\ asked'[h].message = asked[h].message /\ asked'[h].state = "created"
      /\ \A d \in DOMAIN asked : d # h => asked'[d] = asked[d]
  <2>1. asked'[h] = [asked[h] EXCEPT !.state = "created"]
    BY <1>2, <1>4 DEF RunOutboxTask
  <2>2. asked'[h] \in CallRecord /\ asked'[h].message = asked[h].message /\ asked'[h].state = "created"
    BY <1>2, <1>4, <2>1 DEF CallRecord
  <2>3. DOMAIN asked' = DOMAIN asked /\ \A d \in DOMAIN asked : d # h => asked'[d] = asked[d]
    BY <1>4 DEF RunOutboxTask
  <2> QED BY <1>2, <1>4, <2>2, <2>3 DEF RunOutboxTask
<1>6. asked' \in Seq(CallRecord) /\ DOMAIN asked' = DOMAIN asked
  BY <1>1, <1>5, Rewritten DEF Shape
<1>7. UNCHANGED <<queue, entry, job, worker, phase>>
  BY DEF RunOutboxTask, jobVars
<1>8. Shape' /\ EntriesAreQueued'
  BY <1>1, <1>3, <1>6, <1>7 DEF Shape, EntriesAreQueued
<1>9. Held' /\ Closing'
  BY <1>1, <1>2, <1>5, <1>6, <1>7 DEF Held, Closing
<1> QED BY <1>8, <1>9 DEF QueueInv

LEMMA TakeStep == QueueInv /\ Take => QueueInv'
<1> SUFFICES ASSUME QueueInv, Take PROVE QueueInv'
  OBVIOUS
<1> DEFINE m == Head(queue)
<1>1. Shape /\ EntriesAreQueued /\ Held /\ Closing /\ worker = "waiting" /\ queue # <<>>
  BY DEF QueueInv, Take
<1>2. m \in Messages /\ queue' = Tail(queue)
  BY <1>1 DEF Shape, Take
<1>3. /\ job'.waiters = entry[m].waiters
      /\ entry' = [entry EXCEPT ![m] = NoEntry]
      /\ UNCHANGED <<asked, ready, phase>>
      /\ worker' \in {"paused", "quota"}
  BY DEF Take, taskVars
<1>4. /\ entry' \in [Messages -> [func : Nat, waiters : SUBSET Nat]]
      /\ entry'[m].func = NoCall /\ entry'[m].waiters = {}
      /\ \A n \in Messages : n # m => entry'[n] = entry[n]
  BY <1>1, <1>2, <1>3 DEF Shape, NoEntry, NoCall
<1>5. /\ Len(queue) \in Nat \ {0} /\ queue[1] = m /\ Len(queue') = Len(queue) - 1
      /\ \A i \in 1..Len(queue') : queue'[i] = queue[i + 1]
      /\ queue' \in Seq(Messages)
      /\ \A i \in 1..Len(queue) : queue[i] \in Messages
  BY <1>1, <1>2 DEF Shape
<1>6. \A i \in 1..Len(queue') : i + 1 \in 1..Len(queue) /\ i + 1 # 1 /\ queue'[i] # m
  BY <1>1, <1>5 DEF EntriesAreQueued
<1>7. EntriesAreQueued'
  <2>1. ASSUME NEW n \in Messages, entry'[n].func # NoCall
        PROVE  \E i \in 1..Len(queue') : queue'[i] = n
    <3>1. n # m /\ entry[n].func # NoCall
      BY <1>4, <2>1
    <3>2. PICK i \in 1..Len(queue) : queue[i] = n
      BY <1>1, <3>1 DEF EntriesAreQueued
    <3>3. i # 1
      BY <1>5, <3>1, <3>2
    <3>4. i - 1 \in 1..Len(queue') /\ queue'[i - 1] = queue[(i - 1) + 1]
      BY <1>5, <3>2, <3>3
    <3> QED BY <3>2, <3>4
  <2>2. \A n \in Messages : entry'[n].func = NoCall => entry'[n].waiters = {}
    BY <1>1, <1>4 DEF EntriesAreQueued
  <2>3. \A i \in 1..Len(queue') : entry'[queue'[i]].func # NoCall
    <3> SUFFICES ASSUME NEW i \in 1..Len(queue') PROVE entry'[queue'[i]].func # NoCall
      OBVIOUS
    <3>1. i + 1 \in 1..Len(queue) /\ queue'[i] = queue[i + 1] /\ queue'[i] # m
      BY <1>5, <1>6
    <3>2. queue'[i] \in Messages /\ entry[queue'[i]].func # NoCall
      BY <1>1, <1>5, <3>1 DEF EntriesAreQueued
    <3> QED BY <1>4, <3>1, <3>2
  <2>4. \A i, j \in 1..Len(queue') : queue'[i] = queue'[j] => i = j
    <3> SUFFICES ASSUME NEW i \in 1..Len(queue'), NEW j \in 1..Len(queue'), queue'[i] = queue'[j]
                 PROVE  i = j
      OBVIOUS
    <3>1. queue[i + 1] = queue[j + 1] /\ i + 1 \in 1..Len(queue) /\ j + 1 \in 1..Len(queue)
      BY <1>5, <1>6
    <3>2. i + 1 = j + 1
      BY <1>1, <3>1 DEF EntriesAreQueued
    <3> QED BY <1>5, <3>2
  <2> QED BY <2>1, <2>2, <2>3, <2>4 DEF EntriesAreQueued
<1>8. job'.waiters \in SUBSET Nat
  BY <1>1, <1>2, <1>3 DEF Shape
<1>9. Shape'
  BY <1>1, <1>3, <1>4, <1>5, <1>8 DEF Shape
<1>10. \A c \in DOMAIN asked : asked[c].message \in Messages
  BY <1>1, CallFacts
<1>11. Held'
  BY <1>1, <1>3, <1>4, <1>10 DEF Held
<1>12. Closing'
  BY <1>1, <1>3 DEF Closing
<1> QED BY <1>7, <1>9, <1>11, <1>12 DEF QueueInv

\* Steps of the worker and the clock that touch neither calls nor entries.
LEMMA QuietStep ==
  ASSUME QueueInv, FloodEnds \/ WaitForQuota \/ TimePasses \/ UNCHANGED vars
  PROVE  QueueInv'
<1>1. UNCHANGED <<asked, ready, queue, entry, job, phase>>
  BY DEF FloodEnds, WaitForQuota, TimePasses, vars, queueVars, taskVars, jobVars
<1>2. /\ worker' = "waiting" => worker = "waiting"
      /\ worker' = "stopped" <=> worker = "stopped"
  BY DEF FloodEnds, WaitForQuota, TimePasses, vars, queueVars, jobVars
<1>3. Shape' /\ EntriesAreQueued'
  BY <1>1 DEF QueueInv, Shape, EntriesAreQueued
<1>4. Held' /\ Closing'
  BY <1>1, <1>2 DEF QueueInv, Held, Closing
<1> QED BY <1>3, <1>4 DEF QueueInv

LEMMA CloseOutboxStep == QueueInv /\ CloseOutbox => QueueInv'
<1> SUFFICES ASSUME QueueInv, CloseOutbox PROVE QueueInv'
  OBVIOUS
<1>1. Shape /\ EntriesAreQueued /\ Held /\ Closing /\ phase = "open" /\ phase' = "closing"
  BY DEF QueueInv, CloseOutbox
<1>2. asked \in [DOMAIN asked -> CallRecord]
  BY <1>1, CallFacts
<1>3. /\ asked' \in [DOMAIN asked -> CallRecord]
      /\ \A c \in DOMAIN asked :
           /\ asked'[c].message = asked[c].message
           /\ asked'[c].state # "outbox"
           /\ asked'[c].state = "queued" => asked[c].state = "queued"
  <2>1. asked' = [c \in DOMAIN asked |->
                    IF asked[c].state = "outbox" THEN [asked[c] EXCEPT !.state = "failed"] ELSE asked[c]]
    BY DEF CloseOutbox
  <2>2. \A r \in CallRecord : LET q == [r EXCEPT !.state = "failed"]
                              IN  q \in CallRecord /\ q.message = r.message /\ q.state = "failed"
    BY DEF CallRecord, Ended
  <2> QED BY <1>2, <2>1, <2>2
<1>4. asked' \in Seq(CallRecord) /\ DOMAIN asked' = DOMAIN asked
  BY <1>1, <1>3, Rewritten DEF Shape
<1>5. ready' \in Seq(Nat) /\ \A i \in DOMAIN ready' : ready'[i] \in DOMAIN asked
  BY <1>1 DEF Shape, CloseOutbox
<1>6. UNCHANGED <<queue, entry, job, worker>>
  BY DEF CloseOutbox, jobVars
<1>7. Shape' /\ EntriesAreQueued'
  BY <1>1, <1>4, <1>5, <1>6 DEF Shape, EntriesAreQueued, Phases
<1>8. Held' /\ Closing'
  BY <1>1, <1>3, <1>4, <1>6 DEF Held, Closing
<1> QED BY <1>7, <1>8 DEF QueueInv

LEMMA RunCancelledStep == QueueInv /\ RunCancelledTask => QueueInv'
<1> SUFFICES ASSUME QueueInv, RunCancelledTask PROVE QueueInv'
  OBVIOUS
<1>1. /\ ready \in Seq(Nat) /\ ready # <<>> /\ ready' = Tail(ready)
      /\ \A i \in DOMAIN ready : ready[i] \in DOMAIN asked
  BY DEF QueueInv, Shape, RunCancelledTask
<1>2. ready' \in Seq(Nat) /\ \A i \in DOMAIN ready' : ready'[i] \in DOMAIN asked
  BY <1>1
<1>3. UNCHANGED <<asked, queue, entry, job, worker, phase>>
  BY DEF RunCancelledTask, jobVars
<1>4. Shape' /\ EntriesAreQueued'
  BY <1>2, <1>3 DEF QueueInv, Shape, EntriesAreQueued
<1>5. Held' /\ Closing'
  BY <1>1, <1>3 DEF QueueInv, Held, Closing
<1> QED BY <1>4, <1>5 DEF QueueInv

\* Shutdown settles everybody who waits, because everybody who waits is held.
LEMMA ShutDownStep == QueueInv /\ ShutDown => QueueInv'
<1> SUFFICES ASSUME QueueInv, ShutDown PROVE QueueInv'
  OBVIOUS
<1> DEFINE C == job.waiters \cup UNION {entry[m].waiters : m \in Messages}
<1>1. /\ Shape /\ EntriesAreQueued /\ Held /\ Closing
      /\ phase \in {"closing", "interrupted"} /\ phase' = "draining"
  BY DEF QueueInv, ShutDown
<1>2. /\ asked' = Settle(C, "failed") /\ queue' = <<>>
      /\ entry' = [m \in Messages |-> NoEntry]
      /\ UNCHANGED <<ready, job, worker>>
  BY DEF ShutDown, jobVars
<1>3. \A c \in DOMAIN asked : asked[c].state = "queued" => c \in C
  <2>1. \A c \in DOMAIN asked : asked[c].message \in Messages
    BY <1>1, CallFacts
  <2> QED BY <1>1, <2>1 DEF Held
<1> HIDE DEF C
<1>4. /\ asked' \in [DOMAIN asked -> CallRecord]
      /\ \A c \in DOMAIN asked :
           /\ asked'[c].message = asked[c].message
           /\ asked'[c].state # "queued"
           /\ asked'[c].state = "outbox" => asked[c].state = "outbox"
  BY <1>1, <1>2, <1>3, SettleFacts DEF Ended
<1>5. asked' \in Seq(CallRecord) /\ DOMAIN asked' = DOMAIN asked
  BY <1>1, <1>4, Rewritten DEF Shape
<1>6. /\ entry' \in [Messages -> [func : Nat, waiters : SUBSET Nat]]
      /\ \A m \in Messages : entry'[m].func = NoCall /\ entry'[m].waiters = {}
  BY <1>2 DEF NoEntry, NoCall
<1>7. Shape' /\ EntriesAreQueued'
  BY <1>1, <1>2, <1>5, <1>6 DEF Shape, EntriesAreQueued, Phases
<1>8. Held' /\ Closing'
  BY <1>1, <1>2, <1>4, <1>5 DEF Held, Closing
<1> QED BY <1>7, <1>8 DEF QueueInv

LEMMA WorkerStopsStep == QueueInv /\ WorkerStops => QueueInv'
<1> SUFFICES ASSUME QueueInv, WorkerStops PROVE QueueInv'
  OBVIOUS
<1>1. /\ UNCHANGED <<asked, ready, queue, entry, phase>>
      /\ worker' = "stopped" /\ job'.waiters = {} /\ phase \in {"draining", "interrupted"}
  BY DEF WorkerStops, taskVars, NoJob
<1>2. Shape' /\ EntriesAreQueued'
  BY <1>1 DEF QueueInv, Shape, EntriesAreQueued
<1>3. Held' /\ Closing'
  BY <1>1 DEF QueueInv, Held, Closing
<1> QED BY <1>2, <1>3 DEF QueueInv

\* The tasks that sleep or have not run are cancelled; nothing else is left by then.
LEMMA BackgroundStep ==
  ASSUME QueueInv, ShutdownReturns \/ ShutdownInterrupted
  PROVE  QueueInv'
<1>1. /\ Shape /\ EntriesAreQueued /\ Held /\ Closing
      /\ phase = "draining" /\ phase' \in {"closed", "interrupted"}
      /\ phase' = "closed" => worker = "stopped"
  BY DEF QueueInv, ShutdownReturns, ShutdownInterrupted
<1>2. /\ asked' = [c \in DOMAIN asked |->
                     IF c \in Background THEN [asked[c] EXCEPT !.state = "failed"] ELSE asked[c]]
      /\ ready' = <<>> /\ UNCHANGED <<queue, entry, job, worker>>
  BY DEF ShutdownReturns, ShutdownInterrupted, CancelBackground, jobVars
<1>3. asked \in [DOMAIN asked -> CallRecord]
  BY <1>1, CallFacts
<1>4. \A c \in DOMAIN asked : asked[c].state \in {"outbox", "created", "queued", "backoff"} \cup Ended
  BY <1>3 DEF CallRecord
<1>5. /\ asked' \in [DOMAIN asked -> CallRecord]
      /\ \A c \in DOMAIN asked : asked'[c].state \in Ended
  <2>1. \A r \in CallRecord : LET q == [r EXCEPT !.state = "failed"]
                              IN  q \in CallRecord /\ q.state = "failed"
    BY DEF CallRecord, Ended
  <2>2. \A c \in DOMAIN asked : c \notin Background => asked[c].state \in Ended
    BY <1>1, <1>4 DEF Closing, Background
  <2> QED BY <1>2, <1>3, <2>1, <2>2 DEF Ended
<1>6. asked' \in Seq(CallRecord) /\ DOMAIN asked' = DOMAIN asked
  BY <1>1, <1>5, Rewritten DEF Shape
<1>7. Shape' /\ EntriesAreQueued'
  BY <1>1, <1>2, <1>6 DEF Shape, EntriesAreQueued, Phases
<1>8. Held' /\ Closing'
  BY <1>1, <1>2, <1>5, <1>6 DEF Held, Closing, Ended
<1> QED BY <1>7, <1>8 DEF QueueInv

LEMMA NextQueueInv == QueueInv /\ [Next]_vars => QueueInv'
<1> SUFFICES ASSUME QueueInv, [Next]_vars PROVE QueueInv'
  OBVIOUS
<1> QED
  BY AskStep, RunOutboxStep, RunForgottenStep, RunCancelledStep, RetryStep, LeaveStep, TakeStep,
     QuietStep, DeliverStep, FailTransientlyStep, RefusedStep, CloseOutboxStep, ShutDownStep,
     WorkerStopsStep, BackgroundStep DEF Next

LEMMA QueueInvHolds == Spec => []QueueInv
BY InitQueueInv, NextQueueInv, PTL DEF Spec

\* Whoever waits is known to a live worker, for any number of calls and messages.
THEOREM NobodyIsEverForgotten == Spec => []NobodyIsForgotten
<1>1. QueueInv => NobodyIsForgotten
  <2> SUFFICES ASSUME QueueInv, NEW c \in DOMAIN asked, asked[c].state = "queued"
               PROVE  /\ worker # "stopped"
                      /\ \/ c \in job.waiters
                         \/ LET m == asked[c].message
                            IN  /\ c \in entry[m].waiters
                                /\ \E i \in 1..Len(queue) :
                                     queue[i] = m /\ \A j \in 1..Len(queue) : queue[j] = m => j = i
    BY DEF NobodyIsForgotten
  <2>1. worker # "stopped"
    BY DEF QueueInv, Closing
  <2>2. asked[c].message \in Messages
    BY CallFacts DEF QueueInv
  <2>3. CASE c \in entry[asked[c].message].waiters
    <3>1. entry[asked[c].message].func # NoCall
      BY <2>2, <2>3 DEF QueueInv, EntriesAreQueued
    <3>2. PICK i \in 1..Len(queue) : queue[i] = asked[c].message
      BY <2>2, <3>1 DEF QueueInv, EntriesAreQueued
    <3>3. \A j \in 1..Len(queue) : queue[j] = asked[c].message => j = i
      BY <3>2 DEF QueueInv, EntriesAreQueued
    <3> QED BY <2>1, <2>3, <3>2, <3>3
  <2> QED BY <2>1, <2>3 DEF QueueInv, Held
<1> QED BY <1>1, QueueInvHolds, PTL

\* A returned shutdown has answered everybody, and nothing happens after it.
THEOREM CloseIsForever == Spec => CloseIsFinal
<1> DEFINE A == /\ phase' = "closed" => worker' = "stopped" /\ \A c \in DOMAIN asked' : asked'[c].state \in Ended
                /\ phase = "closed" => UNCHANGED <<asked, shown, phase>>
<1>1. QueueInv /\ QueueInv' /\ [Next]_vars => [A]_vars
  <2> SUFFICES ASSUME QueueInv, QueueInv', Next PROVE A
    OBVIOUS
  <2>1. phase' = "closed" => worker' = "stopped" /\ \A c \in DOMAIN asked' : asked'[c].state \in Ended
    BY DEF QueueInv, Closing
  <2>2. ASSUME phase = "closed" PROVE UNCHANGED <<asked, shown, phase>>
    <3>1. ready = <<>> /\ worker = "stopped" /\ \A c \in DOMAIN asked : asked[c].state \in Ended
      BY <2>2 DEF QueueInv, Closing
    <3>2. \A c \in DOMAIN asked : ~Retry(c) /\ ~Leave(c)
      BY <3>1 DEF Retry, Leave, Ended
    <3> QED
      BY <2>2, <3>1, <3>2
         DEF Next, AskAndWait, AskAndForget, RunOutboxTask, RunForgottenTask, RunCancelledTask,
             Take, FloodEnds, WaitForQuota, TimePasses, queueVars, taskVars, Deliver,
             FailTransiently, FailForGood, OperationCancelled, CloseOutbox, ShutDown, WorkerStops,
             ShutdownReturns, ShutdownInterrupted
  <2> QED BY <2>1, <2>2
<1> QED BY <1>1, QueueInvHolds, PTL DEF Spec, CloseIsFinal

-----------------------------------------------------------------------------
(***************************************************************************)
(* Answers and texts.  Newest: an entry, and the job of the worker, holds  *)
(* a text that is not older than any call that waits for it, up to retries *)
(* and other ways in.  It is inductive with Line, the order of the tasks   *)
(* that have not run yet: a first attempt is never overtaken by an older   *)
(* first attempt of its kind.                                              *)
(***************************************************************************)
\* The call c of the message m may be told that f is shown.
Served(f, c, m) ==
    /\ c \in DOMAIN asked /\ asked[c].message = m /\ asked[c].attempts > 0
    /\ f \in DOMAIN asked
    /\ f >= c \/ asked[f].attempts > 1 \/ asked[f].way # asked[c].way

Newest ==
    /\ \A m \in Messages : \A c \in entry[m].waiters : Served(entry[m].func, c, m)
    /\ \A c \in job.waiters : Served(job.func, c, job.message)
    /\ DOMAIN shown = Messages

ToRun == {"outbox", "created"}

\* A task that has not enqueued its call yet is ready, and has not been tried.
Marks ==
    \A c \in DOMAIN asked :
        /\ asked[c].state \in ToRun =>
             asked[c].attempts = 0 /\ \E i \in DOMAIN ready : ready[i] = c
        /\ asked[c].state = "backoff" => asked[c].attempts > 0
        /\ asked[c].state = "outbox" => asked[c].way = "outbox"
        /\ asked[c].state = "created" => asked[c].way # "await"

\* Tasks of one kind come in the order of their calls ...
InOrder ==
    \A i, j \in DOMAIN ready :
        /\ i < j
        /\ asked[ready[i]].state \in ToRun /\ asked[ready[j]].state = asked[ready[i]].state
        /\ asked[ready[j]].way = asked[ready[i]].way
        => ready[i] < ready[j]

\* ... and so do the two steps of a task of the outbox, and its first attempt.
Precede ==
    \A c, d \in DOMAIN asked :
        asked[c].way = asked[d].way =>
            /\ asked[c].state = "created" /\ asked[d].state = "outbox" => c < d
            /\ asked[c].attempts > 0 /\ asked[d].state \in ToRun => c < d

Line == Marks /\ InOrder /\ Precede

\* Calls are only ever tried again.
Ages ==
    \A c \in DOMAIN asked :
        /\ c \in DOMAIN asked'
        /\ asked'[c].message = asked[c].message /\ asked'[c].way = asked[c].way
        /\ asked[c].attempts \in Nat /\ asked'[c].attempts \in Nat
        /\ asked'[c].attempts >= asked[c].attempts

LEMMA ServedStays ==
    ASSUME Ages, NEW f, NEW c, NEW m, Served(f, c, m)
    PROVE  Served(f, c, m)'
BY DEF Ages, Served

LEMMA NewestStays ==
    ASSUME Newest, Ages, DOMAIN shown' = DOMAIN shown,
           entry' = entry \/ entry' = [m \in Messages |-> NoEntry],
           job' = job \/ job' = NoJob
    PROVE  Newest'
<1>1. ASSUME NEW m \in Messages, NEW c \in entry'[m].waiters
      PROVE  Served(entry[m].func, c, m)'
  <2>1. entry' = entry
    BY <1>1 DEF NoEntry
  <2>2. Served(entry[m].func, c, m)
    BY <1>1, <2>1 DEF Newest
  <2>3. \A f : Served(f, c, m) => Served(f, c, m)'
    BY ServedStays
  <2> QED BY <2>1, <2>2, <2>3 DEF Served
<1>2. ASSUME NEW c \in job'.waiters
      PROVE  Served(job.func, c, job.message)'
  <2>1. job' = job
    <3>1. NoJob.waiters = {}
      BY DEF NoJob
    <3> QED BY <1>2, <3>1
  <2>2. Served(job.func, c, job.message)
    BY <1>2, <2>1 DEF Newest
  <2>3. \A f, m : Served(f, c, m) => Served(f, c, m)'
    BY ServedStays
  <2> QED BY <2>1, <2>2, <2>3 DEF Served
<1>3. DOMAIN shown' = Messages
  BY DEF Newest
<1> QED BY <1>1, <1>2, <1>3 DEF Newest

\* A step that tries no call again changes states only.
StatesOnly ==
    /\ DOMAIN asked' = DOMAIN asked
    /\ \A c \in DOMAIN asked :
         /\ asked'[c].message = asked[c].message /\ asked'[c].way = asked[c].way
         /\ asked'[c].attempts = asked[c].attempts
         /\ asked'[c].state \in ToRun => asked'[c].state = asked[c].state
         /\ asked'[c].state = "backoff" => asked[c].state = "backoff" \/ c \in job.waiters

LEMMA StatesAge == ASSUME Shape, StatesOnly PROVE Ages
<1>1. \A c \in DOMAIN asked : asked[c].attempts \in Nat
  BY CallFacts
<1> QED BY <1>1 DEF StatesOnly, Ages

LEMMA StateIs ==
    ASSUME NEW r \in CallRecord, NEW s
    PROVE  LET q == [r EXCEPT !.state = s]
           IN  q.message = r.message /\ q.way = r.way /\ q.attempts = r.attempts /\ q.state = s
BY DEF CallRecord

LEMMA SettleIs ==
    ASSUME Shape, NEW C, NEW o
    PROVE  /\ DOMAIN Settle(C, o) = DOMAIN asked
           /\ \A c \in DOMAIN asked :
                LET q == Settle(C, o)[c] IN
                /\ q.message = asked[c].message /\ q.way = asked[c].way
                /\ q.attempts = asked[c].attempts
                /\ q.state = IF c \in C /\ asked[c].state = "queued" THEN o ELSE asked[c].state
<1>1. \A c \in DOMAIN asked : asked[c] \in CallRecord
  BY CallFacts
<1> QED BY <1>1, StateIs DEF Settle

LEMMA SettlesStates ==
    ASSUME Shape, NEW C, asked' = Settle(C, "ok") \/ asked' = Settle(C, "failed")
    PROVE  StatesOnly
<1>1. CASE asked' = Settle(C, "ok")
  BY <1>1, SettleIs DEF StatesOnly, ToRun
<1>2. CASE asked' = Settle(C, "failed")
  BY <1>2, SettleIs DEF StatesOnly, ToRun
<1> QED BY <1>1, <1>2

LEMMA FailsStates == ASSUME Shape, FailTransiently PROVE StatesOnly
<1> DEFINE again == {c \in job.waiters : asked[c].way # "await" /\ asked[c].attempts < MaxAttempts}
<1>1. asked' = [c \in DOMAIN asked |-> IF c \in again THEN Settle(again, "backoff")[c]
                                       ELSE Settle(job.waiters, "failed")[c]]
  BY DEF FailTransiently
<1>2. again \subseteq job.waiters
  OBVIOUS
<1> HIDE DEF again
<1>3. DOMAIN asked' = DOMAIN asked
  BY <1>1
<1>4. ASSUME NEW c \in DOMAIN asked, c \in again
      PROVE  /\ asked'[c].message = asked[c].message /\ asked'[c].way = asked[c].way
             /\ asked'[c].attempts = asked[c].attempts
             /\ asked'[c].state \in ToRun => asked'[c].state = asked[c].state
             /\ c \in job.waiters
  <2>1. asked'[c] = Settle(again, "backoff")[c]
    BY <1>1, <1>4
  <2> QED BY <1>2, <1>4, <2>1, SettleIs DEF ToRun
<1>5. ASSUME NEW c \in DOMAIN asked, c \notin again
      PROVE  /\ asked'[c].message = asked[c].message /\ asked'[c].way = asked[c].way
             /\ asked'[c].attempts = asked[c].attempts
             /\ asked'[c].state \in ToRun => asked'[c].state = asked[c].state
             /\ asked'[c].state = "backoff" => asked[c].state = "backoff"
  <2>1. asked'[c] = Settle(job.waiters, "failed")[c]
    BY <1>1, <1>5
  <2> QED BY <2>1, SettleIs DEF ToRun
<1> QED BY <1>3, <1>4, <1>5 DEF StatesOnly

\* Calls that are in some states fail.
LEMMA CancelsStates ==
    ASSUME Shape, NEW C,
           asked' = [c \in DOMAIN asked |->
                       IF c \in C THEN [asked[c] EXCEPT !.state = "failed"] ELSE asked[c]]
    PROVE  StatesOnly /\ \A c \in DOMAIN asked : c \in C => asked'[c].state = "failed"
<1>1. \A c \in DOMAIN asked : asked[c] \in CallRecord
  BY CallFacts
<1>2. ASSUME NEW c \in DOMAIN asked, c \in C
      PROVE  /\ asked'[c].message = asked[c].message /\ asked'[c].way = asked[c].way
             /\ asked'[c].attempts = asked[c].attempts /\ asked'[c].state = "failed"
  BY <1>1, <1>2, StateIs
<1>3. \A c \in DOMAIN asked : c \notin C => asked'[c] = asked[c]
  OBVIOUS
<1> QED BY <1>2, <1>3 DEF StatesOnly, ToRun

\* The line when no task joins it: it stays, loses its head or is given up.
LEMMA LineMoves ==
    ASSUME Shape, Line, DOMAIN asked' = DOMAIN asked,
           \A c \in DOMAIN asked :
             /\ asked'[c].way = asked[c].way
             /\ asked'[c].state \in ToRun => asked'[c].state = asked[c].state
                                             /\ asked'[c].attempts = asked[c].attempts
             /\ asked'[c].state = "backoff" => asked'[c].attempts > 0
             /\ asked'[c].attempts > 0 =>
                  \/ asked[c].attempts > 0
                  \/ \A d \in DOMAIN asked :
                       asked'[d].state \in ToRun /\ asked[d].way = asked[c].way => c < d,
           \/ ready' = ready
           \/ ready # <<>> /\ ready' = Tail(ready) /\ asked'[Head(ready)].state \notin ToRun
           \/ ready' = <<>> /\ \A c \in DOMAIN asked : asked'[c].state \notin ToRun
    PROVE  Line'
<1>1. ready \in Seq(Nat) /\ \A i \in DOMAIN ready : ready[i] \in DOMAIN asked
  BY DEF Shape
<1>2. Precede'
  BY DEF Line, Precede, ToRun
<1>3. ASSUME \A c \in DOMAIN asked : asked'[c].state \in ToRun =>
                \E i \in DOMAIN ready' : ready'[i] = c
      PROVE  Marks'
  BY <1>3 DEF Line, Marks, ToRun
<1>4. CASE ready' = ready
  <2>1. InOrder'
    BY <1>1, <1>4 DEF Line, InOrder
  <2>2. Marks'
    BY <1>3, <1>4 DEF Line, Marks
  <2> QED BY <1>2, <2>1, <2>2 DEF Line
<1>5. CASE ready # <<>> /\ ready' = Tail(ready) /\ asked'[Head(ready)].state \notin ToRun
  <2>1. /\ Len(ready) \in Nat \ {0} /\ DOMAIN ready = 1..Len(ready)
        /\ DOMAIN ready' = 1..Len(ready) - 1 /\ Head(ready) = ready[1]
        /\ \A i \in 1..Len(ready) - 1 : ready'[i] = ready[i + 1]
    BY <1>1, <1>5
  <2>2. \A i \in 1..Len(ready) - 1 : i + 1 \in 1..Len(ready)
    BY <2>1
  <2>3. InOrder'
    <3> SUFFICES ASSUME NEW i \in DOMAIN ready', NEW j \in DOMAIN ready', i < j,
                        asked'[ready'[i]].state \in ToRun,
                        asked'[ready'[j]].state = asked'[ready'[i]].state,
                        asked'[ready'[j]].way = asked'[ready'[i]].way
                 PROVE  ready'[i] < ready'[j]
      BY DEF InOrder
    <3>1. /\ i + 1 \in DOMAIN ready /\ j + 1 \in DOMAIN ready /\ i + 1 < j + 1
          /\ ready'[i] = ready[i + 1] /\ ready'[j] = ready[j + 1]
      BY <2>1, <2>2
    <3>2. ready[i + 1] \in DOMAIN asked /\ ready[j + 1] \in DOMAIN asked
      BY <1>1, <3>1
    <3> QED BY <3>1, <3>2 DEF Line, InOrder
  <2>4. Marks'
    <3>1. ASSUME NEW c \in DOMAIN asked, asked'[c].state \in ToRun
          PROVE  \E i \in DOMAIN ready' : ready'[i] = c
      <4>1. PICK i \in DOMAIN ready : ready[i] = c
        BY <3>1 DEF Line, Marks
      <4>2. i # 1
        BY <1>5, <2>1, <3>1, <4>1
      <4>3. i - 1 \in 1..Len(ready) - 1 /\ (i - 1) + 1 = i
        BY <2>1, <4>2
      <4> QED BY <2>1, <4>1, <4>3
    <3> QED BY <1>3, <3>1
  <2> QED BY <1>2, <2>3, <2>4 DEF Line
<1>6. CASE ready' = <<>> /\ \A c \in DOMAIN asked : asked'[c].state \notin ToRun
  <2>1. DOMAIN ready' = {}
    BY <1>6
  <2>2. InOrder'
    BY <2>1 DEF InOrder
  <2> QED BY <1>2, <1>3, <1>6, <2>2 DEF Line
<1> QED BY <1>4, <1>5, <1>6

LEMMA LineStays ==
    ASSUME Shape, Line, Newest, StatesOnly,
           \/ ready' = ready
           \/ ready # <<>> /\ ready' = Tail(ready) /\ asked'[Head(ready)].state \notin ToRun
           \/ ready' = <<>> /\ \A c \in DOMAIN asked : asked'[c].state \notin ToRun
    PROVE  Line'
<1>1. \A c \in job.waiters : asked[c].attempts > 0
  BY DEF Newest, Served
<1>2. \A c \in DOMAIN asked : asked'[c].state = "backoff" => asked'[c].attempts > 0
  BY <1>1 DEF StatesOnly, Line, Marks
<1> QED BY <1>2, LineMoves DEF StatesOnly
\* A task of the outbox makes its call behind the others.
LEMMA OutboxKeepsLine ==
    ASSUME Shape, Line, RunOutboxTask
    PROVE  Line'
<1> DEFINE h == Head(ready)
<1>1. /\ ready \in Seq(Nat) /\ ready # <<>> /\ asked[h].state = "outbox"
      /\ \A i \in DOMAIN ready : ready[i] \in DOMAIN asked
      /\ asked' = [asked EXCEPT ![h] = [asked[h] EXCEPT !.state = "created"]]
      /\ ready' = Append(Tail(ready), h)
  BY DEF Shape, RunOutboxTask
<1>2. /\ Len(ready) \in Nat \ {0} /\ DOMAIN ready = 1..Len(ready) /\ h = ready[1]
      /\ DOMAIN ready' = 1..Len(ready) /\ ready'[Len(ready)] = h
      /\ \A i \in 1..Len(ready) - 1 : ready'[i] = ready[i + 1]
  BY <1>1
<1> HIDE DEF h
<1>3. h \in DOMAIN asked /\ h \in Nat
  <2>1. 1 \in DOMAIN ready
    BY <1>2
  <2>2. ready[1] \in Nat
    BY <1>1, <2>1
  <2> QED BY <1>1, <1>2, <2>1, <2>2
<1>4. /\ DOMAIN asked' = DOMAIN asked
      /\ \A c \in DOMAIN asked : c # h => asked'[c] = asked[c]
      /\ asked'[h].state = "created" /\ asked'[h].way = asked[h].way
      /\ asked'[h].attempts = asked[h].attempts
  <2>1. asked[h] \in CallRecord
    BY <1>3, CallFacts
  <2> QED BY <1>1, <1>3, <2>1, StateIs
<1>5. asked[h].attempts = 0
  BY <1>1, <1>3 DEF Line, Marks, ToRun
<1>6. Marks'
  <2>1. ASSUME NEW c \in DOMAIN asked, asked'[c].state \in ToRun
        PROVE  \E i \in DOMAIN ready' : ready'[i] = c
    <3>1. CASE c = h
      BY <1>2, <3>1
    <3>2. CASE c # h
      <4>1. PICK i \in DOMAIN ready : ready[i] = c
        BY <1>4, <2>1, <3>2 DEF Line, Marks
      <4>2. i # 1 /\ i \in 1..Len(ready)
        BY <1>2, <3>2, <4>1
      <4>3. i - 1 \in 1..Len(ready) - 1 /\ i - 1 \in 1..Len(ready) /\ (i - 1) + 1 = i
        BY <1>2, <4>2
      <4> QED BY <1>2, <4>1, <4>3
    <3> QED BY <3>1, <3>2
  <2>2. \A c \in DOMAIN asked :
          /\ asked'[c].state = "outbox" => asked'[c].way = "outbox"
          /\ asked'[c].state = "created" => asked'[c].way # "await"
    BY <1>1, <1>4 DEF Line, Marks
  <2>3. \A c \in DOMAIN asked :
          /\ asked'[c].state \in ToRun => asked'[c].attempts = 0
          /\ asked'[c].state = "backoff" => asked'[c].attempts > 0
    BY <1>4, <1>5 DEF Line, Marks
  <2> QED BY <1>4, <2>1, <2>2, <2>3 DEF Marks
<1>7. \A i \in DOMAIN ready : i # 1 /\ asked[ready[i]].state = "outbox" => h < ready[i]
  <2> SUFFICES ASSUME NEW i \in DOMAIN ready, i # 1, asked[ready[i]].state = "outbox"
               PROVE  h < ready[i]
    OBVIOUS
  <2>1. 1 \in DOMAIN ready /\ 1 < i
    BY <1>2
  <2>2. asked[ready[1]].state \in ToRun /\ asked[ready[i]].state = asked[ready[1]].state
    BY <1>1, <1>2 DEF ToRun
  <2>3. asked[ready[1]].way = "outbox" /\ asked[ready[i]].way = "outbox"
    BY <1>1, <1>2, <1>3 DEF Line, Marks
  <2>4. ready[1] < ready[i]
    BY <2>1, <2>2, <2>3 DEF Line, InOrder
  <2> QED BY <1>2, <2>4
<1>8. \A i \in DOMAIN ready : i # 1 => ready[i] # h
  <2> SUFFICES ASSUME NEW i \in DOMAIN ready, i # 1, ready[i] = h PROVE FALSE
    OBVIOUS
  <2>1. h < h
    BY <1>1, <1>7
  <2> QED BY <1>3, <2>1
<1>9. \A i \in 1..Len(ready) - 1 :
         i + 1 \in DOMAIN ready /\ i + 1 # 1 /\ ready'[i] = ready[i + 1]
  <2>1. \A i \in 1..Len(ready) - 1 : i + 1 \in 1..Len(ready) /\ i + 1 # 1
    BY <1>2
  <2> QED BY <1>2, <2>1
<1>10. \A c \in DOMAIN asked : c # h /\ asked[c].state = "outbox" => h < c
  <2> SUFFICES ASSUME NEW c \in DOMAIN asked, c # h, asked[c].state = "outbox" PROVE h < c
    OBVIOUS
  <2>1. PICK i \in DOMAIN ready : ready[i] = c
    BY DEF Line, Marks, ToRun
  <2> QED BY <1>2, <1>7, <2>1
<1>11. asked[h].way = "outbox"
  BY <1>1, <1>3 DEF Line, Marks
<1>12. Precede'
  <2> SUFFICES ASSUME NEW c \in DOMAIN asked, NEW d \in DOMAIN asked,
                      asked'[c].way = asked'[d].way
               PROVE  /\ asked'[c].state = "created" /\ asked'[d].state = "outbox" => c < d
                      /\ asked'[c].attempts > 0 /\ asked'[d].state \in ToRun => c < d
    BY <1>4 DEF Precede
  <2>1. asked[c].way = asked[d].way /\ asked'[c].attempts = asked[c].attempts
    BY <1>4
  <2>2. asked'[d].state \in ToRun => asked[d].state \in ToRun
    BY <1>1, <1>4 DEF ToRun
  <2>3. asked'[c].attempts > 0 /\ asked'[d].state \in ToRun => c < d
    BY <2>1, <2>2 DEF Line, Precede
  <2>4. ASSUME asked'[c].state = "created", asked'[d].state = "outbox" PROVE c < d
    <3>1. d # h /\ asked[d].state = "outbox"
      BY <1>4, <2>4
    <3>2. CASE c = h
      BY <1>10, <3>1, <3>2
    <3>3. CASE c # h
      BY <1>4, <2>1, <2>4, <3>1, <3>3 DEF Line, Precede
    <3> QED BY <3>2, <3>3
  <2> QED BY <2>3, <2>4
<1>13. InOrder'
  <2> SUFFICES ASSUME NEW i \in DOMAIN ready', NEW j \in DOMAIN ready', i < j,
                      asked'[ready'[i]].state \in ToRun,
                      asked'[ready'[j]].state = asked'[ready'[i]].state,
                      asked'[ready'[j]].way = asked'[ready'[i]].way
               PROVE  ready'[i] < ready'[j]
    BY DEF InOrder
  <2>1. i \in 1..Len(ready) - 1
    BY <1>2
  <2>2. /\ i \in 1..Len(ready) - 1 /\ i + 1 \in DOMAIN ready /\ i + 1 # 1
        /\ ready'[i] = ready[i + 1] /\ ready[i + 1] \in DOMAIN asked
    BY <1>1, <1>9, <2>1
  <2>3. CASE j = Len(ready)
    <3>1. ready'[j] = h /\ asked'[ready[i + 1]].state = "created"
      BY <1>2, <1>4, <2>2, <2>3
    <3>2. ready[i + 1] # h
      BY <1>8, <2>2
    <3>3. asked[ready[i + 1]].state = "created" /\ asked[ready[i + 1]].way = asked[h].way
      BY <1>4, <2>2, <3>1, <3>2
    <3> QED BY <1>1, <1>3, <2>2, <3>1, <3>3 DEF Line, Precede
  <2>4. CASE j # Len(ready)
    <3>1. j \in 1..Len(ready) - 1 /\ i + 1 < j + 1
      BY <1>2, <2>4
    <3>2. /\ j \in 1..Len(ready) - 1 /\ j + 1 \in DOMAIN ready /\ i + 1 < j + 1 /\ j + 1 # 1
          /\ ready'[j] = ready[j + 1] /\ ready[j + 1] \in DOMAIN asked
      BY <1>1, <1>9, <3>1
    <3>3. ready[i + 1] # h /\ ready[j + 1] # h
      BY <1>8, <2>2, <3>2
    <3>4. /\ asked[ready[i + 1]].state \in ToRun
          /\ asked[ready[j + 1]].state = asked[ready[i + 1]].state
          /\ asked[ready[j + 1]].way = asked[ready[i + 1]].way
      BY <1>4, <2>2, <3>2, <3>3
    <3> QED BY <2>2, <3>2, <3>4 DEF Line, InOrder
  <2> QED BY <2>3, <2>4
<1> QED BY <1>6, <1>12, <1>13 DEF Line

\* A new task comes last.
LEMMA NewTaskKeepsLine ==
    ASSUME Shape, Line, NEW r, asked' = Append(asked, r), r.attempts \in Nat,
           r.state \notin {"backoff"},
           \/ r.state \in ToRun /\ r.attempts = 0 /\ ready' = Append(ready, Len(asked) + 1)
              /\ (r.state = "outbox" <=> r.way = "outbox") /\ r.way # "await"
           \/ r.state = "queued" /\ ready' = ready /\ r.way = "await"
    PROVE  Line'
<1> DEFINE n == Len(asked) + 1
<1>1. /\ asked \in Seq(CallRecord) /\ ready \in Seq(Nat)
      /\ \A i \in DOMAIN ready : ready[i] \in DOMAIN asked
  BY DEF Shape
<1>2. /\ Len(asked) \in Nat /\ n \in Nat /\ DOMAIN asked = 1..Len(asked)
      /\ DOMAIN asked' = DOMAIN asked \cup {n} /\ n \notin DOMAIN asked
      /\ \A c \in DOMAIN asked : asked'[c] = asked[c] /\ c < n
      /\ asked'[n] = r
  BY <1>1
<1>3. /\ Len(ready) \in Nat /\ DOMAIN ready = 1..Len(ready)
  BY <1>1
<1> HIDE DEF n
<1>4. CASE /\ r.state \in ToRun /\ r.attempts = 0 /\ ready' = Append(ready, n)
           /\ (r.state = "outbox" <=> r.way = "outbox") /\ r.way # "await"
  <2>1. /\ DOMAIN ready' = DOMAIN ready \cup {Len(ready) + 1} /\ ready'[Len(ready) + 1] = n
        /\ \A i \in DOMAIN ready : ready'[i] = ready[i] /\ i < Len(ready) + 1
    <3>1. ready' = Append(ready, n) /\ n \in Nat
      BY <1>2, <1>4
    <3>2. Len(ready') = Len(ready) + 1 /\ DOMAIN ready' = 1..Len(ready) + 1
      BY <1>1, <3>1
    <3>3. DOMAIN ready' = DOMAIN ready \cup {Len(ready) + 1}
      BY <1>3, <3>2
    <3>4. \A i \in DOMAIN ready : ready'[i] = ready[i] /\ i < Len(ready) + 1
      <4> SUFFICES ASSUME NEW i \in 1..Len(ready) PROVE ready'[i] = ready[i] /\ i < Len(ready) + 1
        BY <1>3
      <4>1. ready'[i] = ready[i]
        BY <1>1, <3>1
      <4>2. i < Len(ready) + 1
        BY <1>3
      <4> QED BY <4>1, <4>2
    <3>5. ready'[Len(ready) + 1] = n
      BY <1>1, <3>1
    <3> QED BY <3>3, <3>4, <3>5
  <2>2. Marks'
    <3>1. ASSUME NEW c \in DOMAIN asked', asked'[c].state \in ToRun
          PROVE  \E i \in DOMAIN ready' : ready'[i] = c
      <4>1. CASE c = n
        BY <2>1, <4>1
      <4>2. CASE c \in DOMAIN asked
        BY <1>2, <2>1, <3>1, <4>2 DEF Line, Marks
      <4> QED BY <1>2, <4>1, <4>2
    <3> QED BY <1>2, <1>4, <3>1 DEF Line, Marks, ToRun
  <2>3. InOrder'
    <3> SUFFICES ASSUME NEW i \in DOMAIN ready', NEW j \in DOMAIN ready', i < j,
                        asked'[ready'[i]].state \in ToRun,
                        asked'[ready'[j]].state = asked'[ready'[i]].state,
                        asked'[ready'[j]].way = asked'[ready'[i]].way
                 PROVE  ready'[i] < ready'[j]
      BY DEF InOrder
    <3>1. i \in DOMAIN ready /\ ready'[i] = ready[i] /\ ready[i] \in DOMAIN asked
      BY <1>1, <1>3, <2>1
    <3>2. CASE j = Len(ready) + 1
      BY <1>2, <2>1, <3>1, <3>2
    <3>3. CASE j \in DOMAIN ready
      <4>1. ready'[j] = ready[j] /\ ready[j] \in DOMAIN asked
        BY <1>1, <2>1, <3>3
      <4> QED BY <1>2, <3>1, <3>3, <4>1 DEF Line, InOrder
    <3> QED BY <2>1, <3>2, <3>3
  <2>4. Precede'
    <3> SUFFICES ASSUME NEW c \in DOMAIN asked', NEW d \in DOMAIN asked',
                        asked'[c].way = asked'[d].way
                 PROVE  /\ asked'[c].state = "created" /\ asked'[d].state = "outbox" => c < d
                        /\ asked'[c].attempts > 0 /\ asked'[d].state \in ToRun => c < d
      BY DEF Precede
    <3>1. CASE c \in DOMAIN asked /\ d \in DOMAIN asked
      BY <1>2, <3>1 DEF Line, Precede
    <3>2. CASE c \in DOMAIN asked /\ d = n
      BY <1>2, <3>2
    <3>3. CASE c = n
      <4>1. asked'[c].attempts = 0
        BY <1>2, <1>4, <3>3
      <4>2. asked'[d].state = "outbox" => asked'[d].way = "outbox"
        BY <1>2, <1>4 DEF Line, Marks
      <4>3. ~(asked'[c].state = "created" /\ asked'[d].state = "outbox")
        BY <1>2, <1>4, <3>3, <4>2
      <4> QED BY <4>1, <4>3
    <3> QED BY <1>2, <3>1, <3>2, <3>3
  <2> QED BY <2>2, <2>3, <2>4 DEF Line
<1>5. CASE r.state = "queued" /\ ready' = ready /\ r.way = "await"
  <2>1. Marks'
    BY <1>2, <1>5 DEF Line, Marks, ToRun
  <2>2. InOrder'
    <3>1. \A i \in DOMAIN ready : ready'[i] = ready[i] /\ asked'[ready[i]] = asked[ready[i]]
      BY <1>1, <1>2, <1>5
    <3> SUFFICES ASSUME NEW i \in DOMAIN ready, NEW j \in DOMAIN ready, i < j,
                        asked'[ready'[i]].state \in ToRun,
                        asked'[ready'[j]].state = asked'[ready'[i]].state,
                        asked'[ready'[j]].way = asked'[ready'[i]].way
                 PROVE  ready'[i] < ready'[j]
      BY <1>5 DEF InOrder
    <3>2. /\ ready'[i] = ready[i] /\ ready'[j] = ready[j]
          /\ asked'[ready'[i]] = asked[ready[i]] /\ asked'[ready'[j]] = asked[ready[j]]
      BY <3>1
    <3>3. /\ asked[ready[i]].state \in ToRun /\ asked[ready[j]].state = asked[ready[i]].state
          /\ asked[ready[j]].way = asked[ready[i]].way
      BY <3>2
    <3> QED BY <3>2, <3>3 DEF Line, InOrder
  <2>3. Precede'
    <3> SUFFICES ASSUME NEW c \in DOMAIN asked', NEW d \in DOMAIN asked',
                        asked'[c].way = asked'[d].way
                 PROVE  /\ asked'[c].state = "created" /\ asked'[d].state = "outbox" => c < d
                        /\ asked'[c].attempts > 0 /\ asked'[d].state \in ToRun => c < d
      BY DEF Precede
    <3>1. CASE c \in DOMAIN asked /\ d \in DOMAIN asked
      BY <1>2, <3>1 DEF Line, Precede
    <3>2. CASE d = n
      BY <1>2, <1>5, <3>2 DEF ToRun
    <3>3. CASE c = n /\ d \in DOMAIN asked
      <4>1. asked[d].state \in ToRun => asked[d].way # "await"
        BY <3>3 DEF Line, Marks, ToRun
      <4> QED BY <1>2, <1>5, <3>3, <4>1 DEF ToRun
    <3> QED BY <1>2, <3>1, <3>2, <3>3
  <2> QED BY <2>1, <2>2, <2>3 DEF Line
<1> QED BY <1>4, <1>5 DEF n

\* A call enters the queue behind the texts it replaces.
LEMMA PutServes ==
    ASSUME Shape, Shape', Newest, Ages, NEW c, NEW m \in Messages, Put(c, m),
           c \in DOMAIN asked', asked'[c].message = m, asked'[c].attempts > 0,
           \A w \in entry[m].waiters :
              c >= w \/ asked'[c].attempts > 1 \/ asked'[c].way # asked[w].way,
           job' = job, shown' = shown
    PROVE  Newest'
<1>1. /\ entry \in [Messages -> [func : Nat, waiters : SUBSET Nat]]
      /\ entry' = [entry EXCEPT ![m] = [func |-> c, waiters |-> entry[m].waiters \cup {c}]]
  BY DEF Shape, Put
<1>2. /\ entry'[m].func = c /\ entry'[m].waiters = entry[m].waiters \cup {c}
      /\ \A n \in Messages : n # m => entry'[n] = entry[n]
  BY <1>1
<1>3. c \in Nat
  BY CallFacts DEF Shape
<1>4. ASSUME NEW n \in Messages, NEW w \in entry'[n].waiters
      PROVE  LET f == entry'[n].func IN
             /\ w \in DOMAIN asked' /\ asked'[w].message = n /\ asked'[w].attempts > 0
             /\ f \in DOMAIN asked'
             /\ f >= w \/ asked'[f].attempts > 1 \/ asked'[f].way # asked'[w].way
  <2>1. CASE n # m
    <3>1. entry'[n] = entry[n] /\ Served(entry[n].func, w, n)
      BY <1>2, <1>4, <2>1 DEF Newest
    <3> QED BY <3>1, ServedStays DEF Served
  <2>2. CASE n = m /\ w = c
    BY <1>2, <1>3, <2>2
  <2>3. CASE n = m /\ w # c
    <3>1. w \in entry[m].waiters /\ Served(entry[m].func, w, m)
      BY <1>2, <1>4, <2>3 DEF Newest
    <3>2. w \in DOMAIN asked' /\ asked'[w].message = m /\ asked'[w].attempts > 0 /\ asked'[w].way = asked[w].way
      BY <3>1 DEF Served, Ages
    <3> QED BY <1>2, <2>3, <3>1, <3>2
  <2> QED BY <2>1, <2>2, <2>3
<1>5. ASSUME NEW w \in job'.waiters
      PROVE  Served(job.func, w, job.message)'
  <2>1. Served(job.func, w, job.message)
    BY <1>5 DEF Newest
  <2>2. \A f, n : Served(f, w, n) => Served(f, w, n)'
    BY ServedStays
  <2> QED BY <2>1, <2>2 DEF Served
<1>6. \A n \in Messages : \A w \in entry'[n].waiters : Served(entry[n].func, w, n)'
  BY <1>4 DEF Served
<1> QED BY <1>5, <1>6 DEF Newest

\* A call that is tried is not older than those of its kind that wait, or was tried before.
LEMMA EnqueueServes ==
    ASSUME QueueInv, QueueInv', Line, Newest, NEW c \in DOMAIN asked,
           asked[c].state \in {"created", "backoff"}, Enqueue(c), job' = job, shown' = shown,
           \/ ready' = ready
           \/ ready # <<>> /\ ready' = Tail(ready) /\ c = Head(ready),
           asked[c].state = "created" => ready # <<>> /\ ready' = Tail(ready) /\ c = Head(ready)
    PROVE  Line' /\ Newest'
<1>1. Shape /\ Shape'
  BY DEF QueueInv
<1>2. /\ c \in Nat \ {0} /\ asked \in [DOMAIN asked -> CallRecord] /\ asked[c] \in CallRecord
      /\ asked[c].message \in Messages
      /\ \A d \in DOMAIN asked : asked[d].attempts \in Nat /\ d \in Nat
  BY <1>1, CallFacts
<1>3. CASE asked' = [asked EXCEPT ![c].state = "failed"] /\ UNCHANGED <<queue, entry>>
  <2>1. /\ DOMAIN asked' = DOMAIN asked
        /\ asked'[c] = [asked[c] EXCEPT !.state = "failed"]
        /\ \A d \in DOMAIN asked : d # c => asked'[d] = asked[d]
    BY <1>2, <1>3
  <2>2. /\ asked'[c].message = asked[c].message /\ asked'[c].way = asked[c].way
        /\ asked'[c].attempts = asked[c].attempts /\ asked'[c].state = "failed"
    BY <1>2, <2>1, StateIs
  <2>3. StatesOnly
    BY <2>1, <2>2 DEF StatesOnly, ToRun
  <2>4. Ages
    BY <1>1, <2>3, StatesAge
  <2>5. asked'[c].state \notin ToRun
    BY <2>2 DEF ToRun
  <2> QED BY <1>1, <1>3, <2>3, <2>4, <2>5, LineStays, NewestStays
<1>4. CASE /\ Running /\ Put(c, asked[c].message)
           /\ asked' = [asked EXCEPT ![c].state = "queued", ![c].attempts = @ + 1]
  <2> DEFINE n == asked[c].attempts + 1
  <2>1. /\ DOMAIN asked' = DOMAIN asked
        /\ asked'[c] = [asked[c] EXCEPT !.state = "queued", !.attempts = n]
        /\ \A d \in DOMAIN asked : d # c => asked'[d] = asked[d]
    BY <1>2, <1>4
  <2>2. n \in Nat /\ n > 0 /\ n >= asked[c].attempts /\ (asked[c].attempts > 0 => n > 1)
    BY <1>2
  <2> HIDE DEF n
  <2>3. /\ asked'[c].message = asked[c].message /\ asked'[c].way = asked[c].way
        /\ asked'[c].attempts = n /\ asked'[c].state = "queued"
    BY <1>2, <2>1 DEF CallRecord
  <2>4. Ages
    <3> SUFFICES ASSUME NEW d \in DOMAIN asked
                 PROVE  /\ d \in DOMAIN asked'
                        /\ asked'[d].message = asked[d].message /\ asked'[d].way = asked[d].way
                        /\ asked[d].attempts \in Nat /\ asked'[d].attempts \in Nat
                        /\ asked'[d].attempts >= asked[d].attempts
      BY DEF Ages
    <3>1. CASE d = c
      BY <1>2, <2>1, <2>2, <2>3, <3>1
    <3>2. CASE d # c
      <4>1. asked[d].attempts \in Nat
        BY <1>2
      <4>2. asked'[d] = asked[d]
        BY <2>1, <3>2
      <4>3. asked[d].attempts >= asked[d].attempts
        BY <4>1
      <4> QED BY <2>1, <4>1, <4>2, <4>3
    <3> QED BY <3>1, <3>2
  <2>5. asked[c].state = "created" =>
          \A d \in DOMAIN asked :
             asked[d].state \in ToRun /\ d # c /\ asked[d].way = asked[c].way => c < d
    <3> SUFFICES ASSUME asked[c].state = "created", NEW d \in DOMAIN asked,
                        asked[d].state \in ToRun, d # c, asked[d].way = asked[c].way
                 PROVE  c < d
      OBVIOUS
    <3>1. CASE asked[d].state = "outbox"
      BY <3>1 DEF Line, Precede
    <3>2. CASE asked[d].state = "created"
      <4>1. PICK i \in DOMAIN ready : ready[i] = d
        BY DEF Line, Marks
      <4>2. ready \in Seq(Nat) /\ ready # <<>> /\ c = ready[1]
        BY <1>1 DEF Shape
      <4>3. 1 \in DOMAIN ready /\ 1 < i
        BY <4>1, <4>2
      <4> QED BY <3>2, <4>1, <4>2, <4>3 DEF Line, InOrder, ToRun
    <3> QED BY <3>1, <3>2 DEF ToRun
  <2>6. Line'
    <3>1. \A d \in DOMAIN asked :
             /\ asked'[d].way = asked[d].way
             /\ asked'[d].state \in ToRun => asked'[d].state = asked[d].state
                                             /\ asked'[d].attempts = asked[d].attempts
             /\ asked'[d].state = "backoff" => asked'[d].attempts > 0
      BY <2>1, <2>3 DEF Line, Marks, ToRun
    <3>2. \A e \in DOMAIN asked : asked'[e].attempts > 0 =>
                  \/ asked[e].attempts > 0
                  \/ \A d \in DOMAIN asked :
                       asked'[d].state \in ToRun /\ asked[d].way = asked[e].way => e < d
      <4>1. \A d \in DOMAIN asked : asked'[d].state \in ToRun => asked[d].state \in ToRun /\ d # c
        BY <2>1, <2>3 DEF ToRun
      <4>2. asked[c].state = "backoff" => asked[c].attempts > 0
        BY DEF Line, Marks
      <4> QED BY <2>1, <2>5, <4>1, <4>2
    <3>3. asked'[c].state \notin ToRun
      BY <2>3 DEF ToRun
    <3> QED BY <1>1, <2>1, <3>1, <3>2, <3>3, LineMoves
  <2>7. ASSUME NEW w \in entry[asked[c].message].waiters
        PROVE  c >= w \/ n > 1 \/ asked[c].way # asked[w].way
    <3>1. w \in DOMAIN asked /\ asked[w].attempts > 0
      BY <1>2, <2>7 DEF Newest, Served
    <3>2. CASE asked[c].state = "backoff"
      BY <2>2, <3>2 DEF Line, Marks
    <3>3. CASE asked[c].state = "created"
      <4>1. asked[c].way = asked[w].way => w < c
        BY <3>1, <3>3 DEF Line, Precede, ToRun
      <4> QED BY <1>2, <3>1, <4>1
    <3> QED BY <3>2, <3>3
  <2> DEFINE m == asked[c].message
  <2>8. m \in Messages /\ Put(c, m)
    BY <1>2, <1>4
  <2>9. c \in DOMAIN asked' /\ asked'[c].message = m /\ asked'[c].attempts > 0
    BY <2>1, <2>2, <2>3
  <2>10. \A w \in entry[m].waiters :
           c >= w \/ asked'[c].attempts > 1 \/ asked'[c].way # asked[w].way
    BY <2>3, <2>7
  <2> HIDE DEF m
  <2>11. Newest'
    BY ONLY <1>1, <2>4, <2>8, <2>9, <2>10, Newest, job' = job, shown' = shown, PutServes
  <2> QED BY <2>6, <2>11
<1> QED BY <1>3, <1>4 DEF Enqueue

LEMMA AskServes ==
    ASSUME QueueInv, QueueInv', Line, Newest, NEW m \in Messages,
           AskAndWait(m) \/ \E way \in {"forget", "outbox"} : AskAndForget(m, way)
    PROVE  Line' /\ Newest'
<1>1. Shape /\ Shape' /\ job' = job /\ shown' = shown
  BY DEF QueueInv, AskAndWait, AskAndForget, jobVars
<1>2. \A c \in DOMAIN asked : asked[c].attempts \in Nat /\ c \in Nat
  BY <1>1, CallFacts
<1>3. ASSUME NEW r, asked' = Append(asked, r)
      PROVE  /\ Ages /\ Len(asked) + 1 \in DOMAIN asked' /\ asked'[Len(asked) + 1] = r
             /\ Len(asked') = Len(asked) + 1 /\ \A c \in DOMAIN asked : Len(asked) + 1 >= c
  <2>1. /\ asked \in Seq(CallRecord) /\ Len(asked) \in Nat /\ DOMAIN asked = 1..Len(asked)
    BY <1>1 DEF Shape
  <2>2. /\ Len(asked') = Len(asked) + 1 /\ DOMAIN asked' = 1..Len(asked) + 1
        /\ asked'[Len(asked) + 1] = r /\ \A c \in DOMAIN asked : asked'[c] = asked[c]
    BY <1>3, <2>1
  <2>3. \A c \in DOMAIN asked : c \in DOMAIN asked' /\ Len(asked) + 1 >= c
    BY <2>1, <2>2
  <2> QED BY <1>2, <2>1, <2>2, <2>3 DEF Ages
<1>4. CASE AskAndWait(m)
  <2> DEFINE r == [message |-> m, way |-> "await", state |-> "queued", attempts |-> 1]
  <2>1. asked' = Append(asked, r) /\ ready' = ready /\ Put(Len(asked'), m)
    BY <1>4 DEF AskAndWait
  <2>2. r.message = m /\ r.way = "await" /\ r.state = "queued" /\ r.attempts = 1
    OBVIOUS
  <2> HIDE DEF r
  <2>3. /\ Ages /\ Len(asked') \in DOMAIN asked' /\ asked'[Len(asked')] = r
        /\ \A c \in DOMAIN asked : Len(asked') >= c
    BY <1>3, <2>1
  <2>4. \A w \in entry[m].waiters : Len(asked') >= w
    BY <2>3 DEF Newest, Served
  <2>5. Newest'
    BY <1>1, <2>1, <2>2, <2>3, <2>4, PutServes
  <2>6. Line'
    BY <1>1, <2>1, <2>2, NewTaskKeepsLine
  <2> QED BY <2>5, <2>6
<1>5. ASSUME NEW way \in {"forget", "outbox"}, AskAndForget(m, way)
      PROVE  Line' /\ Newest'
  <2> DEFINE r == [message |-> m, way |-> way, attempts |-> 0,
                   state |-> IF way = "outbox" THEN "outbox" ELSE "created"]
  <2>1. /\ asked' = Append(asked, r) /\ ready' = Append(ready, Len(asked')) /\ entry' = entry
    BY <1>5 DEF AskAndForget
  <2>2. /\ r.way = way /\ r.state = (IF way = "outbox" THEN "outbox" ELSE "created") /\ r.attempts = 0
    OBVIOUS
  <2> HIDE DEF r
  <2>3. Ages /\ Len(asked') = Len(asked) + 1
    BY <1>3, <2>1
  <2>4. Newest'
    BY <1>1, <2>1, <2>3, NewestStays
  <2>5. Line'
    <3>1. /\ r.attempts \in Nat /\ r.state \notin {"backoff"} /\ r.state \in ToRun
          /\ (r.state = "outbox" <=> r.way = "outbox") /\ r.way # "await"
      BY <2>2 DEF ToRun
    <3> QED BY <1>1, <2>1, <2>2, <2>3, <3>1, NewTaskKeepsLine
  <2> QED BY <2>4, <2>5
<1> QED BY <1>4, <1>5

\* What the worker takes is the newest text of its message.
LEMMA TakeServes ==
    ASSUME QueueInv, Newest, Line, Take
    PROVE  Line' /\ Newest'
<1> DEFINE m == Head(queue)
<1>1. /\ Shape /\ queue # <<>>
      /\ job' = [message |-> m, func |-> entry[m].func, waiters |-> entry[m].waiters]
      /\ entry' = [entry EXCEPT ![m] = NoEntry]
      /\ UNCHANGED <<asked, ready, shown>>
  BY DEF QueueInv, Take, taskVars
<1>2. m \in Messages
  BY <1>1 DEF Shape
<1> HIDE DEF m
<1>3. \A f, c, n : Served(f, c, n)' <=> Served(f, c, n)
  BY <1>1 DEF Served
<1>4. job'.message = m /\ job'.func = entry[m].func /\ job'.waiters = entry[m].waiters
  BY <1>1
<1>5. \A c \in job'.waiters : Served(entry[m].func, c, m)
  BY <1>2, <1>4 DEF Newest
<1>6. \A n \in Messages : \A c \in entry'[n].waiters :
         entry'[n].func = entry[n].func /\ Served(entry[n].func, c, n)
  <2> SUFFICES ASSUME NEW n \in Messages, NEW c \in entry'[n].waiters
               PROVE  entry'[n].func = entry[n].func /\ Served(entry[n].func, c, n)
    OBVIOUS
  <2>1. entry \in [Messages -> [func : Nat, waiters : SUBSET Nat]]
    BY <1>1 DEF Shape
  <2>2. NoEntry.waiters = {}
    BY DEF NoEntry
  <2>3. n # m
    BY <1>1, <2>1, <2>2
  <2>4. entry'[n] = entry[n]
    BY <1>1, <2>1, <2>3
  <2> QED BY <2>4 DEF Newest
<1>7. Newest'
  BY <1>1, <1>4, <1>5, <1>6 DEF Newest, Served
<1>8. Line'
  BY <1>1 DEF Line, Marks, InOrder, Precede
<1> QED BY <1>7, <1>8

\* A step that changes states, and at most gives up what waits or the job.
LEMMA StatesServe ==
    ASSUME QueueInv, Line, Newest, StatesOnly, DOMAIN shown' = DOMAIN shown,
           entry' = entry \/ entry' = [m \in Messages |-> NoEntry],
           job' = job \/ job' = NoJob,
           \/ ready' = ready
           \/ ready # <<>> /\ ready' = Tail(ready) /\ asked'[Head(ready)].state \notin ToRun
           \/ ready' = <<>> /\ \A c \in DOMAIN asked : asked'[c].state \notin ToRun
    PROVE  Line' /\ Newest'
BY StatesAge, LineStays, NewestStays DEF QueueInv

LEMMA SameCalls == ASSUME Shape, asked' = asked PROVE StatesOnly
BY DEF StatesOnly

LEMMA RunServes ==
    ASSUME QueueInv, QueueInv', Line, Newest, RunOutboxTask \/ RunCancelledTask
    PROVE  Line' /\ Newest'
<1>1. Shape /\ Shape'
  BY DEF QueueInv
<1>2. CASE RunOutboxTask
  <2>1. UNCHANGED <<entry, job, shown>>
    BY <1>2 DEF RunOutboxTask, jobVars
  <2> DEFINE h == Head(ready)
  <2>2. asked' = [asked EXCEPT ![h].state = "created"]
    BY <1>2 DEF RunOutboxTask
  <2> HIDE DEF h
  <2>3. \A c \in DOMAIN asked : asked[c] \in CallRecord /\ asked[c].attempts \in Nat
    BY <1>1, CallFacts
  <2>4. Ages
    <3> SUFFICES ASSUME NEW d \in DOMAIN asked
                 PROVE  /\ d \in DOMAIN asked'
                        /\ asked'[d].message = asked[d].message /\ asked'[d].way = asked[d].way
                        /\ asked'[d].attempts = asked[d].attempts
      BY <2>3 DEF Ages
    <3>1. DOMAIN asked' = DOMAIN asked
      BY <2>2
    <3>2. CASE d = h
      <4>1. asked'[d] = [asked[d] EXCEPT !.state = "created"]
        BY <2>2, <3>2
      <4> QED BY <2>3, <3>1, <4>1, StateIs
    <3>3. CASE d # h
      <4>1. asked'[d] = asked[d]
        BY <2>2, <3>3
      <4> QED BY <3>1, <4>1
    <3> QED BY <3>2, <3>3
  <2>5. Line'
    BY <1>1, <1>2, OutboxKeepsLine
  <2> QED BY <2>1, <2>4, <2>5, NewestStays
<1>3. CASE RunCancelledTask
  <2>1. /\ UNCHANGED <<asked, entry, job, shown>> /\ ready # <<>> /\ ready' = Tail(ready)
        /\ asked[Head(ready)].state = "failed"
    BY <1>3 DEF RunCancelledTask, jobVars
  <2>2. asked'[Head(ready)].state \notin ToRun
    BY <2>1 DEF ToRun
  <2> QED BY <1>1, <2>1, <2>2, SameCalls, StatesServe
<1> QED BY <1>2, <1>3

LEMMA TryServes ==
    ASSUME QueueInv, QueueInv', Line, Newest,
           RunForgottenTask \/ \E c \in DOMAIN asked : Retry(c)
    PROVE  Line' /\ Newest'
<1>1. Shape
  BY DEF QueueInv
<1>2. CASE RunForgottenTask
  <2> DEFINE c == Head(ready)
  <2>1. /\ ready # <<>> /\ ready' = Tail(ready) /\ asked[c].state = "created" /\ Enqueue(c)
        /\ job' = job /\ shown' = shown
    BY <1>2 DEF RunForgottenTask, jobVars
  <2>2. c \in DOMAIN asked
    <3>1. 1 \in DOMAIN ready /\ c = ready[1]
      BY <1>1, <2>1 DEF Shape
    <3> QED BY <1>1, <3>1 DEF Shape
  <2>3. c = Head(ready)
    OBVIOUS
  <2> HIDE DEF c
  <2> QED BY <2>1, <2>2, <2>3, EnqueueServes
<1>3. ASSUME NEW c \in DOMAIN asked, Retry(c) PROVE Line' /\ Newest'
  <2>1. /\ ready' = ready /\ asked[c].state = "backoff" /\ Enqueue(c) /\ job' = job /\ shown' = shown
    BY <1>3 DEF Retry, jobVars
  <2> QED BY <2>1, EnqueueServes
<1> QED BY <1>2, <1>3

\* An answer, an error, and whoever leaves.
LEMMA AnswerServes ==
    ASSUME QueueInv, Line, Newest,
           \/ Deliver \/ FailTransiently \/ OperationCancelled
           \/ \E floods \in BOOLEAN : FailForGood(floods)
           \/ \E c \in DOMAIN asked : Leave(c)
    PROVE  Line' /\ Newest'
<1>1. Shape
  BY DEF QueueInv
<1>2. StatesOnly
  <2>1. CASE FailTransiently
    BY <1>1, <2>1, FailsStates
  <2>2. CASE Deliver \/ OperationCancelled \/ \E floods \in BOOLEAN : FailForGood(floods)
    <3>1. asked' = Settle(job.waiters, "ok") \/ asked' = Settle(job.waiters, "failed")
      BY <2>2 DEF Deliver, OperationCancelled, FailForGood
    <3> QED BY <1>1, <3>1, SettlesStates
  <2>3. ASSUME NEW c \in DOMAIN asked, Leave(c) PROVE StatesOnly
    <3>1. asked' = Settle({c}, "failed")
      BY <2>3 DEF Leave
    <3> QED BY <1>1, <3>1, SettlesStates
  <2> QED BY <2>1, <2>2, <2>3
<1>3. /\ ready' = ready /\ entry' = entry /\ (job' = job \/ job' = NoJob)
      /\ DOMAIN shown' = DOMAIN shown
  BY DEF Deliver, FailTransiently, OperationCancelled, FailForGood, Leave, GoesOn, Applies, jobVars
<1> QED BY <1>2, <1>3, StatesServe

\* Closing.
LEMMA CloseServes ==
    ASSUME QueueInv, Line, Newest,
           CloseOutbox \/ ShutDown \/ WorkerStops \/ ShutdownReturns \/ ShutdownInterrupted
    PROVE  Line' /\ Newest'
<1>1. Shape
  BY DEF QueueInv
<1>2. CASE CloseOutbox
  <2> DEFINE C == {c \in DOMAIN asked : asked[c].state = "outbox"}
  <2>1. /\ asked' = [c \in DOMAIN asked |->
                       IF c \in C THEN [asked[c] EXCEPT !.state = "failed"] ELSE asked[c]]
        /\ UNCHANGED <<ready, entry, job, shown>>
    BY <1>2 DEF CloseOutbox, jobVars
  <2> HIDE DEF C
  <2>2. StatesOnly
    BY <1>1, <2>1, CancelsStates
  <2> QED BY <2>1, <2>2, StatesServe
<1>3. CASE ShutDown
  <2>1. PICK C : asked' = Settle(C, "failed")
    BY <1>3 DEF ShutDown
  <2>2. StatesOnly
    BY <1>1, <2>1, SettlesStates
  <2>3. ready' = ready /\ job' = job /\ shown' = shown /\ entry' = [m \in Messages |-> NoEntry]
    BY <1>3 DEF ShutDown, jobVars
  <2> QED BY <2>2, <2>3, StatesServe
<1>4. CASE WorkerStops
  <2>1. /\ asked' = asked /\ ready' = ready /\ entry' = entry /\ job' = NoJob
        /\ DOMAIN shown' = DOMAIN shown
    BY <1>4 DEF WorkerStops, Applies, taskVars
  <2> QED BY <1>1, <2>1, SameCalls, StatesServe
<1>5. CASE ShutdownReturns \/ ShutdownInterrupted
  <2>1. /\ asked' = [c \in DOMAIN asked |->
                       IF c \in Background THEN [asked[c] EXCEPT !.state = "failed"] ELSE asked[c]]
        /\ ready' = <<>> /\ entry' = entry /\ job' = job /\ shown' = shown
        /\ phase = "draining"
    BY <1>5 DEF ShutdownReturns, ShutdownInterrupted, CancelBackground, jobVars
  <2>2. StatesOnly /\ \A c \in DOMAIN asked : c \in Background => asked'[c].state = "failed"
    BY ONLY <1>1, <2>1, CancelsStates
  <2>3. ASSUME NEW c \in DOMAIN asked PROVE asked'[c].state \notin ToRun
    <3>1. asked[c].state # "outbox"
      BY <2>1 DEF QueueInv, Closing
    <3>2. CASE c \in Background
      BY <2>2, <3>2 DEF ToRun
    <3>3. CASE c \notin Background
      <4>1. asked[c].state \notin ToRun
        BY <3>1, <3>3 DEF Background, ToRun
      <4> QED BY <2>2, <4>1 DEF StatesOnly
    <3> QED BY <3>2, <3>3
  <2> QED BY <2>1, <2>2, <2>3, StatesServe
<1> QED BY <1>2, <1>3, <1>4, <1>5

LEMMA NextServes ==
    QueueInv /\ QueueInv' /\ Line /\ Newest /\ [Next]_vars => Line' /\ Newest'
<1> SUFFICES ASSUME QueueInv, QueueInv', Line, Newest, [Next]_vars
             PROVE  Line' /\ Newest'
  OBVIOUS
<1>1. CASE \E m \in Messages : AskAndWait(m) \/ \E way \in {"forget", "outbox"} : AskAndForget(m, way)
  BY <1>1, AskServes
<1>2. CASE RunOutboxTask \/ RunCancelledTask
  BY <1>2, RunServes
<1>3. CASE RunForgottenTask \/ \E c \in DOMAIN asked : Retry(c)
  BY <1>3, TryServes
<1>4. CASE Take
  BY <1>4, TakeServes
<1>5. CASE \/ Deliver \/ FailTransiently \/ OperationCancelled
           \/ \E floods \in BOOLEAN : FailForGood(floods)
           \/ \E c \in DOMAIN asked : Leave(c)
  BY <1>5, AnswerServes
<1>6. CASE CloseOutbox \/ ShutDown \/ WorkerStops \/ ShutdownReturns \/ ShutdownInterrupted
  BY <1>6, CloseServes
<1>7. CASE FloodEnds \/ WaitForQuota \/ TimePasses \/ UNCHANGED vars
  <2>1. UNCHANGED <<asked, ready, entry, job, shown>>
    BY <1>7 DEF FloodEnds, WaitForQuota, TimePasses, vars, queueVars, taskVars, jobVars
  <2>2. Shape
    BY DEF QueueInv
  <2> QED BY <2>1, <2>2, SameCalls, StatesServe
<1> QED BY <1>1, <1>2, <1>3, <1>4, <1>5, <1>6, <1>7 DEF Next

LEMMA InitServes == Init => Line /\ Newest
<1> SUFFICES ASSUME Init PROVE Line /\ Newest
  OBVIOUS
<1>1. DOMAIN asked = {} /\ DOMAIN ready = {}
  BY DEF Init
<1>2. /\ \A m \in Messages : entry[m].waiters = {}
      /\ job.waiters = {} /\ DOMAIN shown = Messages
  BY DEF Init, NoEntry, NoJob
<1>3. Line
  BY <1>1 DEF Line, Marks, InOrder, Precede
<1>4. Newest
  BY <1>2 DEF Newest
<1> QED BY <1>3, <1>4

LEMMA ServedHolds == Spec => [](Line /\ Newest)
BY InitServes, NextServes, QueueInvHolds, PTL DEF Spec

\* Only a delivery answers, and only those who wait for it.
LEMMA OnlyDeliverAnswers ==
    ASSUME QueueInv, Line, Newest, [Next]_vars, NEW c \in DOMAIN asked,
           asked[c].state # "ok", asked'[c].state = "ok"
    PROVE  Deliver /\ c \in job.waiters
<1>1. Shape /\ asked[c] \in CallRecord /\ DOMAIN asked = 1..Len(asked) /\ Len(asked) \in Nat
  BY CallFacts DEF QueueInv, Shape
<1>2. CASE Deliver
  <2>1. asked' = Settle(job.waiters, "ok")
    BY <1>2 DEF Deliver
  <2> QED BY <1>1, <1>2, <2>1, SettleIs
<1>3. ASSUME NEW h, NEW s, s # "ok",
             \/ asked' = [asked EXCEPT ![h].state = s]
             \/ asked' = [asked EXCEPT ![h].state = s, ![h].attempts = @ + 1]
      PROVE  FALSE
  <2>1. CASE c # h
    BY <1>3, <2>1
  <2>2. CASE c = h
    BY <1>1, <1>3, <2>2 DEF CallRecord
  <2> QED BY <2>1, <2>2
<1>4. ASSUME NEW C, NEW D,
             \/ asked' = Settle(C, "failed")
             \/ asked' = [d \in DOMAIN asked |->
                            IF d \in D THEN Settle(D, "backoff")[d] ELSE Settle(C, "failed")[d]]
             \/ asked' = [d \in DOMAIN asked |->
                            IF d \in D THEN [asked[d] EXCEPT !.state = "failed"] ELSE asked[d]]
      PROVE  FALSE
  <2>1. /\ Settle(C, "failed")[c].state # "ok" /\ Settle(D, "backoff")[c].state # "ok"
        /\ [asked[c] EXCEPT !.state = "failed"].state # "ok"
    BY <1>1, SettleIs, StateIs
  <2> QED BY <1>4, <2>1
<1>5. CASE \E m \in Messages : AskAndWait(m) \/ \E way \in {"forget", "outbox"} : AskAndForget(m, way)
  <2>1. PICK r : asked' = Append(asked, r)
    BY <1>5 DEF AskAndWait, AskAndForget
  <2>2. asked'[c] = asked[c]
    BY <1>1, <2>1 DEF Shape
  <2> QED BY <2>2
<1>6. CASE RunOutboxTask \/ RunForgottenTask \/ \E d \in DOMAIN asked : Retry(d)
  <2>1. PICK h : \/ asked' = [asked EXCEPT ![h].state = "created"]
                 \/ Enqueue(h)
    BY <1>6 DEF RunOutboxTask, RunForgottenTask, Retry
  <2> QED BY <1>3, <2>1 DEF Enqueue
<1>7. CASE FailTransiently
  <2> DEFINE again == {d \in job.waiters : asked[d].way # "await" /\ asked[d].attempts < MaxAttempts}
  <2>1. asked' = [d \in DOMAIN asked |-> IF d \in again THEN Settle(again, "backoff")[d]
                                         ELSE Settle(job.waiters, "failed")[d]]
    BY <1>7 DEF FailTransiently
  <2> HIDE DEF again
  <2> QED BY <1>4, <2>1
<1>8. CASE \/ OperationCancelled \/ ShutDown
           \/ \E floods \in BOOLEAN : FailForGood(floods)
           \/ \E d \in DOMAIN asked : Leave(d)
  <2>1. PICK C : asked' = Settle(C, "failed")
    BY <1>8 DEF OperationCancelled, ShutDown, FailForGood, Leave
  <2> QED BY <1>4, <2>1
<1>9. CASE CloseOutbox
  <2> DEFINE D == {d \in DOMAIN asked : asked[d].state = "outbox"}
  <2>1. asked' = [d \in DOMAIN asked |->
                    IF d \in D THEN [asked[d] EXCEPT !.state = "failed"] ELSE asked[d]]
    BY <1>9 DEF CloseOutbox
  <2> HIDE DEF D
  <2> QED BY <1>4, <2>1
<1>10. CASE ShutdownReturns \/ ShutdownInterrupted
  <2>1. asked' = [d \in DOMAIN asked |->
                    IF d \in Background THEN [asked[d] EXCEPT !.state = "failed"] ELSE asked[d]]
    BY <1>10 DEF ShutdownReturns, ShutdownInterrupted, CancelBackground
  <2> QED BY <1>4, <2>1
<1>11. CASE \/ RunCancelledTask \/ Take \/ FloodEnds \/ WaitForQuota \/ TimePasses \/ WorkerStops
            \/ UNCHANGED vars
  <2>1. asked' = asked
    BY <1>11 DEF RunCancelledTask, Take, FloodEnds, WaitForQuota, TimePasses, WorkerStops,
       vars, queueVars, taskVars
  <2> QED BY <2>1
<1> QED BY <1>2, <1>5, <1>6, <1>7, <1>8, <1>9, <1>10, <1>11 DEF Next

\* Whoever is told that its text was delivered can see it, or a newer one, in the message,
\* unless the text shown came from a retry or took another way into the queue.
THEOREM AnsweredTextsAreShown == Spec => AnsweredIsShown
<1> DEFINE Answered ==
      \A c \in DOMAIN asked : asked[c].state # "ok" /\ asked'[c].state = "ok" =>
          LET s == shown'[asked[c].message]
          IN  s >= c \/ (s \in DOMAIN asked /\ (asked[s].attempts > 1 \/ asked[s].way # asked[c].way))
<1>1. ASSUME QueueInv, Line, Newest, [Next]_vars PROVE Answered
  <2> SUFFICES ASSUME NEW c \in DOMAIN asked, asked[c].state # "ok", asked'[c].state = "ok"
               PROVE  LET s == shown'[asked[c].message] IN
                      s >= c \/ (s \in DOMAIN asked /\ (asked[s].attempts > 1 \/ asked[s].way # asked[c].way))
    OBVIOUS
  <2>1. Deliver /\ c \in job.waiters
    BY <1>1, OnlyDeliverAnswers
  <2>2. Served(job.func, c, job.message)
    BY <1>1, <2>1 DEF Newest
  <2>3. asked[c] \in CallRecord
    BY <1>1, CallFacts DEF QueueInv
  <2>4. asked[c].message = job.message /\ asked[c].message \in Messages
    BY <2>2, <2>3 DEF Served, CallRecord
  <2>5. shown'[asked[c].message] = job.func
    BY <1>1, <2>1, <2>4 DEF Deliver, Applies, Newest
  <2> QED BY <2>2, <2>5 DEF Served
<1>2. QueueInv /\ Line /\ Newest /\ [Next]_vars => [Answered]_vars
  BY <1>1
<1> QED BY <1>2, QueueInvHolds, ServedHolds, PTL DEF Spec, AnsweredIsShown
=============================================================================
