-------------------------- MODULE ProviderAdmission --------------------------
(***************************************************************************)
(* providers/admission.py: the admission controller of one upstream        *)
(* provider, the logical executions it serves and the recovery episode     *)
(* they share after a transient failure.                                   *)
(*                                                                         *)
(* One asyncio loop runs every execution, so the code between two awaits   *)
(* is one action.  The controller's condition is never held over an await  *)
(* other than its own wait(), hence taking it never suspends.  Clocks are  *)
(* abstracted to the two facts the code asks of them: has the backoff of   *)
(* the episode elapsed (ready), and is its terminal window over (terminal).*)
(* The time spent in the sliding-window limiter is the time a task may     *)
(* stay at "limiter"; the window itself is module SlidingWindow.           *)
(***************************************************************************)
EXTENDS Naturals, FiniteSets

CONSTANTS
  Execs,           \* logical executions (ProviderExecution objects)
  None,            \* no leader
  MaxAttempts,     \* max_attempts: physical attempts of one execution
  MaxConcurrency   \* max_concurrency: slots of the semaphore

ASSUME ExecsAssumption == IsFiniteSet(Execs) /\ None \notin Execs
ASSUME BoundsAssumption == MaxAttempts \in Nat \ {0} /\ MaxConcurrency \in Nat \ {0}

VARIABLES
  est,       \* execution state; "ended" stands for SUCCEEDED and ABANDONED
  started,   \* _attempts_started
  pc,        \* where the task that drives the execution is suspended
  permit,    \* generation of the probe permit it holds, 0 for an ordinary one
  slots,     \* free slots of _concurrency_sem
  gen,       \* generation of the current episode, 0 when there is none
  nextGen,   \* _next_generation
  leader, probing, ready, terminal, waiters  \* fields of the episode

exec == <<est, started, pc, permit>>
episode == <<gen, nextGen, leader, probing, ready, terminal, waiters>>
vars == <<exec, slots, episode>>

(***************************************************************************)
(* idle     no attempt open and not inside open_attempt                    *)
(* waiting  in _condition.wait();   woken  notified, not yet run again     *)
(* backoff  the leader sleeping;    limiter, slot  in the two waits after  *)
(*          the gate                                                       *)
(* running  attempt open and unresolved;  resolved  outcome recorded       *)
(***************************************************************************)
Locations == {"idle", "waiting", "woken", "backoff", "limiter", "slot",
              "running", "resolved", "done"}

HoldsSlot(e) == pc[e] \in {"running", "resolved"}
Unresolved(e) == pc[e] \in {"limiter", "slot", "running"}

Init ==
  /\ est = [e \in Execs |-> "active"]
  /\ started = [e \in Execs |-> 0]
  /\ pc = [e \in Execs |-> "idle"]
  /\ permit = [e \in Execs |-> 0]
  /\ slots = MaxConcurrency
  /\ gen = 0
  /\ nextGen = 1
  /\ leader = None
  /\ probing = FALSE
  /\ ready = FALSE
  /\ terminal = "no"
  /\ waiters = {}

-----------------------------------------------------------------------------
CanAttempt(e) == est[e] = "active" /\ started[e] < MaxAttempts

PermitIsCurrent(e) ==
  IF permit[e] = 0
  THEN gen = 0
  ELSE gen = permit[e] /\ terminal = "no" /\ leader = e /\ probing

\* Mutant: any outcome during an episode counts as the probe's.
MutAnyOutcomeMatches(e) == gen # 0

MatchingProbe(e) == permit[e] # 0 /\ gen = permit[e] /\ leader = e /\ probing

\* The task of e moves to loc and every task in _condition.wait() is woken.
MoveAndNotify(e, loc) ==
  pc' = [x \in Execs |-> IF x = e THEN loc
                         ELSE IF pc[x] = "waiting" THEN "woken" ELSE pc[x]]

Move(e, loc) == pc' = [pc EXCEPT ![e] = loc]

CloseEpisode ==
  /\ gen' = 0 /\ leader' = None /\ probing' = FALSE /\ ready' = FALSE
  /\ terminal' = "no" /\ waiters' = {}
  /\ UNCHANGED nextGen

StartRecoveryEpisode(lead, isReady, isProbing, term) ==
  /\ gen' = nextGen
  /\ nextGen' = nextGen + 1
  /\ leader' = lead
  /\ ready' = isReady
  /\ probing' = isProbing
  /\ terminal' = term
  /\ waiters' = {}

\* Mutant: the leadership is dropped without notify_all().
MutAbandonSilently(e, loc) ==
  /\ IF MatchingProbe(e)
     THEN leader' = None /\ probing' = FALSE /\ ready' = TRUE
     ELSE UNCHANGED <<leader, probing, ready>>
  /\ Move(e, loc)
  /\ UNCHANGED <<gen, nextGen, terminal, waiters>>

\* The leader gives the episode up: _attempt_abandoned, _abandon_probe_permit.
AbandonProbe(e, loc) ==
  IF MatchingProbe(e)
  THEN /\ leader' = None /\ probing' = FALSE /\ ready' = TRUE
       /\ MoveAndNotify(e, loc)
       /\ UNCHANGED <<gen, nextGen, terminal, waiters>>
  ELSE Move(e, loc) /\ UNCHANGED episode

-----------------------------------------------------------------------------
(***************************************************************************)
(* One pass through the body of _wait_for_gate.                            *)
(***************************************************************************)
GateOpen(e) ==
  /\ gen = 0
  /\ permit' = [permit EXCEPT ![e] = 0]
  /\ Move(e, "limiter")
  /\ UNCHANGED <<est, started, episode>>

\* ProviderRecoveryExhausted; the caller's handler fails the execution.
GateRefuses(e) ==
  /\ gen # 0 /\ terminal = "cooling"
  /\ est' = [est EXCEPT ![e] = "failed"]
  /\ permit' = [permit EXCEPT ![e] = 0]
  /\ Move(e, "done")
  /\ UNCHANGED <<started, episode>>

\* The terminal window is over: the first caller probes in a new generation.
GateReopens(e) ==
  /\ gen # 0 /\ terminal = "over"
  /\ StartRecoveryEpisode(e, TRUE, TRUE, "no")
  /\ permit' = [permit EXCEPT ![e] = nextGen]
  /\ Move(e, "limiter")
  /\ UNCHANGED <<est, started>>

GateLeads(e) ==
  /\ gen # 0 /\ terminal = "no" /\ leader \in {None, e} /\ ~probing
  /\ leader' = e
  /\ waiters' = IF leader = None THEN waiters \ {e} ELSE waiters
  /\ probing' = ready
  /\ permit' = [permit EXCEPT ![e] = IF ready THEN gen ELSE 0]
  /\ Move(e, IF ready THEN "limiter" ELSE "backoff")
  /\ UNCHANGED <<est, started, gen, nextGen, ready, terminal>>

GateFollows(e) ==
  /\ gen # 0 /\ terminal = "no" /\ leader \notin {None, e}
  /\ waiters' = waiters \cup {e}
  /\ permit' = [permit EXCEPT ![e] = 0]
  /\ Move(e, "waiting")
  /\ UNCHANGED <<est, started, gen, nextGen, leader, probing, ready, terminal>>

WaitForGate(e) ==
  \/ GateOpen(e)
  \/ GateRefuses(e)
  \/ GateReopens(e)
  \/ GateLeads(e)
  \/ GateFollows(e)

-----------------------------------------------------------------------------
(***************************************************************************)
(* open_attempt: gate, limiter, semaphore, claim.                          *)
(***************************************************************************)
OpenAttempt(e) ==
  /\ pc[e] = "idle" /\ CanAttempt(e)
  /\ WaitForGate(e)
  /\ UNCHANGED slots

\* Mutant: the loop does not look at the shared failure again.
MutWakeUpForgetsFailure(e) ==
  /\ pc[e] = "woken"
  /\ WaitForGate(e)
  /\ UNCHANGED slots

\* A notified waiter runs again; a failed one leaves with the shared failure.
WakeUp(e) ==
  /\ pc[e] = "woken"
  /\ IF est[e] = "failed"
     THEN Move(e, "done") /\ UNCHANGED <<est, started, permit, episode>>
     ELSE WaitForGate(e)
  /\ UNCHANGED slots

\* The leader's sleep is over and it still leads: it takes the probe permit.
BackoffEnds(e) ==
  /\ pc[e] = "backoff" /\ ready
  /\ gen # 0 /\ terminal = "no" /\ leader = e /\ ~probing
  /\ probing' = TRUE
  /\ permit' = [permit EXCEPT ![e] = gen]
  /\ Move(e, "limiter")
  /\ UNCHANGED <<est, started, slots, gen, nextGen, leader, ready, terminal, waiters>>

Claim(e) ==
  /\ started' = [started EXCEPT ![e] = @ + 1]
  /\ slots' = slots - 1
  /\ Move(e, "running")
  /\ UNCHANGED <<est, permit, episode>>

\* The window has capacity and the permit is still current.  The semaphore is
\* taken without suspending when it is free and nobody queues for it.
LimiterAdmits(e) ==
  /\ pc[e] = "limiter" /\ PermitIsCurrent(e)
  /\ IF slots > 0 /\ \A x \in Execs : pc[x] # "slot"
     THEN Claim(e)
     ELSE Move(e, "slot") /\ UNCHANGED <<est, started, permit, slots, episode>>

\* The permit went stale while the task waited: back to the gate.  A stale
\* permit is an ordinary one (ProbePermitsStayCurrent), so there is no probe
\* for _abandon_probe_permit to give up.
LimiterRejects(e) ==
  /\ pc[e] = "limiter" /\ ~PermitIsCurrent(e)
  /\ WaitForGate(e)
  /\ UNCHANGED slots

\* Mutant: no second check of the permit.
MutSlotGrantedUnchecked(e) ==
  /\ pc[e] = "slot" /\ slots > 0
  /\ Claim(e)

\* The second check, once the slot is held.
SlotGranted(e) ==
  /\ pc[e] = "slot" /\ slots > 0 /\ PermitIsCurrent(e)
  /\ Claim(e)

\* Mutant: the slot of a stale permit is not released.
MutSlotRejectedLeaks(e) ==
  /\ pc[e] = "slot" /\ slots > 0 /\ ~PermitIsCurrent(e)
  /\ WaitForGate(e)
  /\ slots' = slots - 1

SlotRejected(e) ==
  /\ pc[e] = "slot" /\ slots > 0 /\ ~PermitIsCurrent(e)
  /\ WaitForGate(e)
  /\ UNCHANGED slots

-----------------------------------------------------------------------------
(***************************************************************************)
(* Outcomes of an open attempt.                                            *)
(***************************************************************************)
\* Mutant: the episode is closed without notify_all().
MutResolveSilently(e) ==
  /\ IF MatchingProbe(e) THEN CloseEpisode ELSE UNCHANGED episode
  /\ Move(e, "resolved")

\* _attempt_accepted and _attempt_rejected both close the probed episode.
ResolveProbe(e) ==
  IF MatchingProbe(e)
  THEN CloseEpisode /\ MoveAndNotify(e, "resolved")
  ELSE Move(e, "resolved") /\ UNCHANGED episode

Accept(e) ==
  /\ pc[e] = "running"
  /\ ResolveProbe(e)
  /\ UNCHANGED <<est, started, permit, slots>>

\* correct(): a deterministic request correction, no provider backoff.
Correct(e) ==
  /\ pc[e] = "running" /\ CanAttempt(e)
  /\ IF MatchingProbe(e)
     THEN /\ probing' = FALSE /\ ready' = TRUE
          /\ MoveAndNotify(e, "resolved")
          /\ UNCHANGED <<gen, nextGen, leader, terminal, waiters>>
     ELSE Move(e, "resolved") /\ UNCHANGED episode
  /\ UNCHANGED <<est, started, permit, slots>>

\* fail() on a non-retryable error, and correct() with no attempt left.
Reject(e) ==
  /\ pc[e] = "running"
  /\ ResolveProbe(e)
  /\ est' = [est EXCEPT ![e] = "failed"]
  /\ UNCHANGED <<started, permit, slots>>

\* fail() on a retryable error with attempts left (_attempt_failed, can_retry).
FailOpensEpisode(e) ==
  /\ pc[e] = "running" /\ CanAttempt(e) /\ gen = 0
  /\ StartRecoveryEpisode(e, FALSE, FALSE, "no")
  /\ MoveAndNotify(e, "resolved")
  /\ UNCHANGED <<est, started, permit, slots>>

FailProbe(e) ==
  /\ pc[e] = "running" /\ CanAttempt(e) /\ MatchingProbe(e)
  /\ probing' = FALSE /\ ready' = FALSE
  /\ MoveAndNotify(e, "resolved")
  /\ UNCHANGED <<est, started, permit, slots, gen, nextGen, leader, terminal, waiters>>

FailCoalesced(e) ==
  /\ pc[e] = "running" /\ CanAttempt(e) /\ gen # 0 /\ ~MatchingProbe(e)
  /\ terminal = "no"
  /\ waiters' = waiters \cup {e}
  /\ MoveAndNotify(e, "resolved")
  /\ UNCHANGED <<est, started, permit, slots, gen, nextGen, leader, probing, ready, terminal>>

\* A late failure of an attempt that outlived the episode's leader.
FailAfterExhaustion(e) ==
  /\ pc[e] = "running" /\ CanAttempt(e) /\ gen # 0 /\ ~MatchingProbe(e)
  /\ terminal # "no"
  /\ est' = [est EXCEPT ![e] = "failed"]
  /\ MoveAndNotify(e, "resolved")
  /\ UNCHANGED <<started, permit, slots, episode>>

\* Mutant: the exhausted probe fails only its own execution.
MutExhaustFailsLeaderOnly(e) ==
  /\ pc[e] = "running" /\ est[e] = "active" /\ ~CanAttempt(e)
  /\ gen = 0 \/ MatchingProbe(e)
  /\ est' = [est EXCEPT ![e] = "failed"]
  /\ IF gen = 0
     THEN StartRecoveryEpisode(None, TRUE, FALSE, "cooling")
     ELSE /\ leader' = None /\ probing' = FALSE /\ terminal' = "cooling"
          /\ waiters' = {}
          /\ UNCHANGED <<gen, nextGen, ready>>
  /\ MoveAndNotify(e, "resolved")
  /\ UNCHANGED <<started, permit, slots>>

\* fail() on a retryable error with the attempt budget spent.
Exhaust(e) ==
  /\ pc[e] = "running" /\ est[e] = "active" /\ ~CanAttempt(e)
  /\ gen = 0 \/ MatchingProbe(e)
  /\ est' = [x \in Execs |->
               IF x = e \/ (x \in waiters /\ est[x] = "active")
               THEN "failed" ELSE est[x]]
  /\ IF gen = 0
     THEN StartRecoveryEpisode(None, TRUE, FALSE, "cooling")
     ELSE /\ leader' = None /\ probing' = FALSE /\ terminal' = "cooling"
          /\ waiters' = {}
          /\ UNCHANGED <<gen, nextGen, ready>>
  /\ MoveAndNotify(e, "resolved")
  /\ UNCHANGED <<started, permit, slots>>

\* Another episode owns the outcome: only this execution fails.
ExhaustAlone(e) ==
  /\ pc[e] = "running" /\ est[e] = "active" /\ ~CanAttempt(e)
  /\ gen # 0 /\ ~MatchingProbe(e)
  /\ est' = [est EXCEPT ![e] = "failed"]
  /\ Move(e, "resolved")
  /\ UNCHANGED <<started, permit, slots, episode>>

\* aclose(): an unresolved attempt is abandoned; the slot is released once.
Close(e) ==
  /\ HoldsSlot(e)
  /\ slots' = slots + 1
  /\ permit' = [permit EXCEPT ![e] = 0]
  /\ IF pc[e] = "running"
     THEN AbandonProbe(e, "idle")
     ELSE Move(e, "idle") /\ UNCHANGED episode
  /\ UNCHANGED <<est, started>>

\* The caller is through with its execution: succeed(), fail() or abandon(),
\* perhaps between a failed attempt that made it leader and the next one.
Finish(e) ==
  /\ pc[e] = "idle"
  /\ \E end \in {"ended", "failed"} :
       est' = [est EXCEPT ![e] = IF @ = "active" THEN end ELSE @]
  /\ Move(e, "done")
  /\ UNCHANGED <<started, permit, slots, episode>>

-----------------------------------------------------------------------------
(***************************************************************************)
(* asyncio.CancelledError raised in the await where the task is suspended; *)
(* the caller then abandons the execution.                                 *)
(***************************************************************************)
Abandoned(e) == est' = [est EXCEPT ![e] = IF @ = "active" THEN "ended" ELSE @]

\* The code compares generations first: a later episode has other waiters.
CancelFollower(e) ==
  /\ pc[e] \in {"waiting", "woken"}
  /\ waiters' = waiters \ {e}
  /\ Abandoned(e)
  /\ Move(e, "done")
  /\ UNCHANGED <<started, permit, slots, gen, nextGen, leader, probing, ready, terminal>>

CancelBackoff(e) ==
  /\ pc[e] = "backoff"
  /\ IF leader = e /\ ~probing
     THEN /\ leader' = None
          /\ MoveAndNotify(e, "done")
     ELSE Move(e, "done") /\ UNCHANGED leader
  /\ Abandoned(e)
  /\ UNCHANGED <<started, permit, slots, gen, nextGen, probing, ready, terminal, waiters>>

CancelAdmission(e) ==
  /\ pc[e] \in {"limiter", "slot"}
  /\ AbandonProbe(e, "done")
  /\ Abandoned(e)
  /\ permit' = [permit EXCEPT ![e] = 0]
  /\ UNCHANGED <<started, slots>>

-----------------------------------------------------------------------------
\* time.monotonic() passes ready_at, or terminal_until.
BackoffElapses ==
  /\ gen # 0 /\ terminal = "no" /\ ~ready
  /\ ready' = TRUE
  /\ UNCHANGED <<exec, slots, gen, nextGen, leader, probing, terminal, waiters>>

CooldownElapses ==
  /\ terminal = "cooling"
  /\ terminal' = "over"
  /\ UNCHANGED <<exec, slots, gen, nextGen, leader, probing, ready, waiters>>

AllDone ==
  /\ \A e \in Execs : pc[e] = "done"
  /\ UNCHANGED vars

Open(e) ==
  \/ OpenAttempt(e) \/ WakeUp(e) \/ BackoffEnds(e)
  \/ LimiterAdmits(e) \/ LimiterRejects(e)
  \/ SlotGranted(e) \/ SlotRejected(e)

Fail(e) ==
  \/ FailOpensEpisode(e) \/ FailProbe(e) \/ FailCoalesced(e)
  \/ FailAfterExhaustion(e) \/ Exhaust(e) \/ ExhaustAlone(e)

Resolve(e) == Accept(e) \/ Correct(e) \/ Reject(e) \/ Fail(e)

Cancel(e) == CancelFollower(e) \/ CancelBackoff(e) \/ CancelAdmission(e)

Next ==
  \/ \E e \in Execs : Open(e) \/ Resolve(e) \/ Close(e) \/ Finish(e) \/ Cancel(e)
  \/ BackoffElapses
  \/ CooldownElapses
  \/ AllDone

Spec == Init /\ [][Next]_vars

(***************************************************************************)
(* The loop runs every ready task, sleeps end, and an upstream call ends   *)
(* with an answer or an HTTP timeout.  The semaphore hands slots out in    *)
(* FIFO order, hence strong fairness for a queued task.  An execution that *)
(* leads goes straight round its retry loop; nothing makes a new one come. *)
(***************************************************************************)
Fairness ==
  /\ WF_vars(BackoffElapses)
  /\ WF_vars(CooldownElapses)
  /\ \A e \in Execs :
       /\ WF_vars(leader = e /\ OpenAttempt(e))
       /\ WF_vars(WakeUp(e))
       /\ WF_vars(BackoffEnds(e))
       /\ WF_vars(LimiterAdmits(e) \/ LimiterRejects(e))
       /\ SF_vars(SlotGranted(e) \/ SlotRejected(e))
       /\ WF_vars(Resolve(e))
       /\ WF_vars(pc[e] = "resolved" /\ Close(e))

FairSpec == Spec /\ Fairness

-----------------------------------------------------------------------------
(***************************************************************************)
(* Properties                                                              *)
(***************************************************************************)
\* Types of the variables; an episode that does not exist has no leader,
\* probe, terminal window or waiters (the code drops the whole object).
TypeOK ==
  /\ est \in [Execs -> {"active", "failed", "ended"}]
  /\ started \in [Execs -> 0..MaxAttempts]
  /\ pc \in [Execs -> Locations]
  /\ permit \in [Execs -> Nat]
  /\ slots \in 0..MaxConcurrency
  /\ gen \in Nat /\ nextGen \in Nat \ {0} /\ gen < nextGen
  /\ leader \in Execs \cup {None}
  /\ probing \in BOOLEAN /\ ready \in BOOLEAN
  /\ terminal \in {"no", "cooling", "over"}
  /\ waiters \in SUBSET Execs
  /\ gen = 0 => leader = None /\ ~probing /\ terminal = "no" /\ waiters = {}

\* Exactly one execution owns the half-open probe: whoever holds a probe
\* permit, through the waits for quota and slot and the upstream call, still
\* leads the episode of that permit.  Hence there are never two probes, and
\* the stale-permit branches never have a probe to give up.
ProbePermitsStayCurrent ==
  \A e \in Execs : Unresolved(e) /\ permit[e] # 0 => PermitIsCurrent(e)

\* An execution that passed the gate can still claim its attempt when it has
\* quota and slot, however many awaits later: _claim_attempt never raises.
ClaimsNeverRaise ==
  \A e \in Execs :
    /\ pc[e] \in {"waiting", "backoff", "limiter", "slot"} => CanAttempt(e)
    /\ pc[e] = "woken" => est[e] = "failed" \/ CanAttempt(e)
    /\ pc[e] = "running" => est[e] = "active"

\* What an execution was granted stays usable through every later await: its probe
\* permit is the one the controller knows, and its attempt can be claimed.
PermitsStayUsable == ProbePermitsStayCurrent /\ ClaimsNeverRaise

\* The exhaustion that fails all waiters never reaches an execution that holds
\* a permit or has a call upstream, nor the sleeping leader.
WaitersHaveNoCall ==
  \A e \in waiters : pc[e] \notin {"backoff", "limiter", "slot", "running"}

\* The leader has its probe under way, or owes the episode one; it never waits
\* in the condition for itself (the "leader is execution and probe_active"
\* wait of _wait_for_gate is never entered).
LeaderKeepsItsRole ==
  /\ probing => leader # None
  /\ leader # None =>
       /\ leader \notin waiters
       /\ IF probing
          THEN Unresolved(leader) /\ permit[leader] = gen
          ELSE pc[leader] \in {"idle", "resolved", "backoff", "done"}

\* A slot is held exactly by the attempts that are open: none leaks on a
\* stale permit, a cancellation or a failure, and none is released twice.
SlotsConserved ==
  slots + Cardinality({e \in Execs : HoldsSlot(e)}) = MaxConcurrency

\* No lost wakeup: whoever sleeps in the condition is a follower, registered
\* to share the outcome, of an episode that another execution leads.
FollowersAreRegistered ==
  \A e \in Execs : pc[e] = "waiting" =>
    /\ gen # 0 /\ terminal = "no"
    /\ e \in waiters /\ est[e] = "active"
    /\ leader \notin {None, e}

\* A leader asleep until the backoff ends finds the episode as it left it.
SleepingLeaderStillLeads ==
  \A e \in Execs : pc[e] = "backoff" =>
    gen # 0 /\ terminal = "no" /\ leader = e /\ ~probing

\* While an episode lasts the only attempt that starts is its leader's probe:
\* an ordinary permit taken before the failure never reaches the upstream.
NoAttemptBypassesRecovery ==
  [][\A e \in Execs : pc[e] # "running" /\ pc'[e] = "running" =>
       gen = 0 \/ (leader = e /\ probing /\ terminal = "no")]_vars

\* The episode as a circuit breaker: what it waits for, and who may call meanwhile.
BreakerMode ==
  IF gen = 0 THEN "closed"
  ELSE IF probing THEN "probing"
  ELSE IF terminal = "cooling" \/ (terminal = "no" /\ ~ready) THEN "waiting"
  ELSE "ready"

Calling == {e \in Execs : pc[e] = "running"}

ProbeOwner == IF probing THEN leader ELSE None

Breaker == INSTANCE CircuitBreaker
             WITH mode <- BreakerMode, probe <- ProbeOwner, calls <- Calling

\* Whatever is in flight when the provider fails, and however late it ends, the
\* controller works as a circuit breaker with a half-open state: no call bypasses
\* the recovery, no probe starts early or beside another one, and only a probe's own
\* outcome closes or reopens the circuit (ProviderAdmissionController, "Exactly one
\* logical execution owns its half-open probes").
IsCircuitBreaker == Breaker!Spec

\* An execution that shared the exhaustion of an episode starts no attempt in
\* a later generation, even when it was asleep, or between two attempts, when
\* the leader gave up.
FailedNeverRetries ==
  [][\A e \in Execs : est[e] = "failed" =>
       est'[e] = "failed" /\ started'[e] = started[e]]_vars

\* The outcome of an exhausted probe reaches every execution that coalesced
\* into the episode, and an episode only ever ends by its leader's probe.
ExhaustionIsShared ==
  [][/\ terminal = "no" /\ terminal' = "cooling" =>
          \A e \in waiters : est'[e] # "active"
     /\ gen # 0 /\ gen' # gen =>
          terminal = "over" \/ (probing /\ pc[leader] = "running")]_vars

\* Every open_attempt settles, it returns an attempt or raises, unless it
\* follows a leader whose caller has ended without a word.
OpenSettles ==
  \A e \in Execs :
    pc[e] \in {"waiting", "woken", "backoff", "limiter", "slot"}
      ~> pc[e] \in {"running", "done"} \/ (leader # None /\ pc[leader] = "done")

\* A follower does not wait for a leader that is gone.
FollowersAreReleased ==
  \A e \in Execs : pc[e] = "waiting" ~> pc[e] # "waiting"
=============================================================================
