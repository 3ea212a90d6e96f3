---------------------------- MODULE SlidingWindow ----------------------------
(***************************************************************************)
(* core/rate_limit.py: StrictSlidingWindowLimiter, the quota every provider*)
(* and the messaging limiter put in front of their calls.                  *)
(*                                                                         *)
(* The clock is time.monotonic() in ticks.  The deque _times is kept as the*)
(* history of all stamps plus the number of stamps popped from its left:   *)
(* _times = SubSeq(log, dropped + 1, Len(log)).  The lock is never held    *)
(* over an await, so one pass through the loop body is one action; the     *)
(* clock is read twice in it and may move on by up to MaxLag ticks between *)
(* the check and the stamp.                                                *)
(***************************************************************************)
EXTENDS Naturals, Sequences, FiniteSets

CONSTANTS
  Tasks,      \* callers of acquire and acquire_if
  RateLimit,  \* rate_limit
  Window,     \* rate_window in ticks
  MaxLag,     \* ticks between the two clock readings of one pass
  MaxTime     \* bound: the clock stops here

ASSUME LimiterAssumption ==
  /\ RateLimit \in Nat \ {0} /\ Window \in Nat \ {0}
  /\ MaxLag \in Nat /\ MaxTime \in Nat

VARIABLES
  now,      \* time.monotonic()
  log,      \* stamps of every acquisition so far
  dropped,  \* how many of them were popped from _times
  pc,       \* "idle" outside or about to run, "asleep" in asyncio.sleep
  wake      \* when the sleep of a task ends

windowVars == <<now, log, dropped, pc, wake>>

WindowInit ==
  /\ now = 0
  /\ log = <<>>
  /\ dropped = 0
  /\ pc = [t \in Tasks |-> "idle"]
  /\ wake = [t \in Tasks |-> 0]

Runnable(t) == pc[t] = "idle" \/ wake[t] <= now

\* Mutant: a stamp counts as expired one tick early.
MutPrunesEarly(d) ==
  /\ d \in dropped..Len(log)
  /\ \A i \in dropped + 1..d : log[i] + Window <= now + 1
  /\ d < Len(log) => log[d + 1] + Window > now + 1

\* The popleft loop stops at the first stamp that is younger than the cutoff.
Prunes(d) ==
  /\ d \in dropped..Len(log)
  /\ \A i \in dropped + 1..d : log[i] + Window <= now
  /\ d < Len(log) => log[d + 1] + Window > now

\* Capacity, and the caller's condition still holds.
Acquire(t) ==
  /\ Runnable(t)
  /\ Prunes(dropped')
  /\ Len(log) - dropped' < RateLimit
  /\ now' \in now..now + MaxLag /\ now' <= MaxTime
  /\ log' = Append(log, now')
  /\ pc' = [pc EXCEPT ![t] = "idle"]
  /\ UNCHANGED wake

\* Capacity, but the condition of acquire_if no longer holds: return False.
Reject(t) ==
  /\ Runnable(t)
  /\ Prunes(dropped')
  /\ Len(log) - dropped' < RateLimit
  /\ pc' = [pc EXCEPT ![t] = "idle"]
  /\ UNCHANGED <<now, log, wake>>

\* The window is full: sleep until the oldest stamp leaves it, then try again.
Sleep(t) ==
  /\ Runnable(t)
  /\ Prunes(dropped')
  /\ Len(log) - dropped' >= RateLimit
  /\ wake' = [wake EXCEPT ![t] = log[dropped' + 1] + Window]
  /\ pc' = [pc EXCEPT ![t] = "asleep"]
  /\ UNCHANGED <<now, log>>

Tick ==
  /\ now < MaxTime
  /\ now' = now + 1
  /\ UNCHANGED <<log, dropped, pc, wake>>

\* The bounded clock has run out.
Horizon == now = MaxTime /\ UNCHANGED windowVars

WindowNext ==
  \/ \E t \in Tasks : Acquire(t) \/ Reject(t) \/ Sleep(t)
  \/ Tick
  \/ Horizon

WindowSpec == WindowInit /\ [][WindowNext]_windowVars

-----------------------------------------------------------------------------
\* Types; the log is ordered and never ahead of the clock, and what was popped
\* from the deque is out of the window.
WindowTypeOK ==
  /\ now \in Nat
  /\ log \in Seq(Nat)
  /\ dropped \in 0..Len(log)
  /\ Len(log) - dropped <= RateLimit
  /\ pc \in [Tasks -> {"idle", "asleep"}]
  /\ wake \in [Tasks -> Nat]
  /\ \A i \in 1..Len(log) : log[i] <= now
  /\ \A i \in 1..dropped : log[i] + Window <= now

\* "At most rate_limit acquisitions in any interval of length rate_window":
\* an acquisition and the rate_limit-th one after it are a window apart, even
\* when the clock moves between the check and the stamp.
StrictWindow ==
  \A i \in 1..Len(log) :
    i + RateLimit <= Len(log) => log[i] + Window <= log[i + RateLimit]
=============================================================================
