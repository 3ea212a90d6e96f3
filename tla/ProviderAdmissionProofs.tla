----------------------- MODULE ProviderAdmissionProofs -----------------------
(***************************************************************************)
(* Proofs about ProviderAdmission, for any set of executions, any attempt  *)
(* budget and any number of concurrency slots.                             *)
(*                                                                         *)
(* Inv is the inductive invariant: no part of it is inductive alone.  That *)
(* a probe permit stays current rests on the leader's role; that a claim   *)
(* cannot raise rests on the waiters having no call; both rest on TypeOK's *)
(* last conjunct, that a dropped episode leaves nothing behind.            *)
(*                                                                         *)
(* The last part proves, from Inv, that the controller implements          *)
(* CircuitBreaker.                                                         *)
(***************************************************************************)
EXTENDS ProviderAdmission, FiniteSetTheorems, TLAPS

\* TypeOK in three parts that the provers handle one at a time.
ExecTypes ==
  /\ est \in [Execs -> {"active", "failed", "ended"}]
  /\ started \in [Execs -> 0..MaxAttempts]
  /\ pc \in [Execs -> Locations]
  /\ permit \in [Execs -> Nat]
  /\ slots \in 0..MaxConcurrency
  /\ gen \in Nat /\ nextGen \in Nat \ {0} /\ gen < nextGen
  /\ leader \in Execs \cup {None}

FlagTypes ==
  /\ probing \in BOOLEAN /\ ready \in BOOLEAN
  /\ terminal \in {"no", "cooling", "over"}
  /\ waiters \in SUBSET Execs

DroppedIsEmpty ==
  gen = 0 => leader = None /\ ~probing /\ terminal = "no" /\ waiters = {}

LEMMA TypeParts == ExecTypes /\ FlagTypes /\ DroppedIsEmpty => TypeOK
BY DEF ExecTypes, FlagTypes, DroppedIsEmpty, TypeOK

LEMMA TypePartsPrime == ExecTypes' /\ FlagTypes' /\ DroppedIsEmpty' => TypeOK'
BY DEF ExecTypes, FlagTypes, DroppedIsEmpty, TypeOK

EpisodeInv ==
  /\ ProbePermitsStayCurrent
  /\ ClaimsNeverRaise
  /\ WaitersHaveNoCall
  /\ LeaderKeepsItsRole
  /\ FollowersAreRegistered
  /\ SleepingLeaderStillLeads

Inv == TypeOK /\ EpisodeInv

USE ExecsAssumption, BoundsAssumption

LEMMA InitInv == Init => Inv
<1> SUFFICES ASSUME Init PROVE Inv
  OBVIOUS
<1>1. TypeOK
  <2>1. ExecTypes
    BY DEF Init, ExecTypes, Locations
  <2>2. FlagTypes /\ DroppedIsEmpty
    BY DEF Init, FlagTypes, DroppedIsEmpty
  <2> QED BY <2>1, <2>2, TypeParts
<1>2. \A e \in Execs : pc[e] = "idle" /\ est[e] = "active" /\ started[e] < MaxAttempts
  BY DEF Init
<1>3. EpisodeInv
  BY <1>2 DEF Init, EpisodeInv, ProbePermitsStayCurrent, ClaimsNeverRaise,
     WaitersHaveNoCall, LeaderKeepsItsRole, FollowersAreRegistered,
     SleepingLeaderStillLeads, Unresolved, CanAttempt
<1> QED BY <1>1, <1>3 DEF Inv

\* One pass through the gate keeps the invariant, wherever the task came from.
LEMMA GateStep ==
  ASSUME NEW e \in Execs, Inv, CanAttempt(e), UNCHANGED slots,
         \/ pc[e] \in {"idle", "woken"}
         \/ pc[e] \in {"limiter", "slot"} /\ ~PermitIsCurrent(e),
         WaitForGate(e)
  PROVE  Inv'
<1> USE DEF Inv, TypeOK, EpisodeInv, ProbePermitsStayCurrent, ClaimsNeverRaise,
      WaitersHaveNoCall, LeaderKeepsItsRole, FollowersAreRegistered,
      SleepingLeaderStillLeads, Unresolved, Locations, CanAttempt,
      PermitIsCurrent, Move, episode
<1>1. CASE GateOpen(e)
  BY <1>1 DEF GateOpen
<1>2. CASE GateRefuses(e)
  BY <1>2 DEF GateRefuses
<1>3. CASE GateReopens(e)
  BY <1>3 DEF GateReopens, StartRecoveryEpisode
<1>4. CASE GateLeads(e)
  BY <1>4 DEF GateLeads
<1>5. CASE GateFollows(e)
  BY <1>5 DEF GateFollows
<1> QED BY <1>1, <1>2, <1>3, <1>4, <1>5 DEF WaitForGate

\* Admission after the gate: the sleeping leader, the limiter and the slot.
LEMMA ClaimStep ==
  ASSUME NEW e \in Execs, Inv, pc[e] \in {"limiter", "slot"}, slots > 0,
         PermitIsCurrent(e), Claim(e)
  PROVE  Inv'
BY DEF Claim, Inv, TypeOK, EpisodeInv, ProbePermitsStayCurrent, ClaimsNeverRaise,
   WaitersHaveNoCall, LeaderKeepsItsRole, FollowersAreRegistered,
   SleepingLeaderStillLeads, Unresolved, Locations, CanAttempt,
   PermitIsCurrent, Move, episode

LEMMA OpenStep ==
  ASSUME NEW e \in Execs, Inv, Open(e)
  PROVE  Inv'
<1> USE DEF Inv, TypeOK, EpisodeInv, ProbePermitsStayCurrent, ClaimsNeverRaise,
      WaitersHaveNoCall, LeaderKeepsItsRole, FollowersAreRegistered,
      SleepingLeaderStillLeads, Unresolved, Locations, CanAttempt,
      PermitIsCurrent, Move, episode
<1>1. CASE OpenAttempt(e)
  BY <1>1, GateStep DEF OpenAttempt
<1>2. CASE WakeUp(e)
  <2>1. CASE est[e] = "failed"
    BY <1>2, <2>1 DEF WakeUp
  <2>2. CASE est[e] # "failed"
    BY <1>2, <2>2, GateStep DEF WakeUp
  <2> QED BY <2>1, <2>2
<1>3. CASE BackoffEnds(e)
  BY <1>3 DEF BackoffEnds
<1>4. CASE LimiterAdmits(e)
  <2>1. CASE Claim(e) /\ slots > 0
    BY <1>4, <2>1, ClaimStep DEF LimiterAdmits
  <2>2. CASE Move(e, "slot") /\ UNCHANGED <<est, started, permit, slots, episode>>
    BY <1>4, <2>2 DEF LimiterAdmits
  <2> QED BY <1>4, <2>1, <2>2 DEF LimiterAdmits
<1>5. CASE LimiterRejects(e)
  BY <1>5, GateStep DEF LimiterRejects
<1>6. CASE SlotGranted(e)
  BY <1>6, ClaimStep DEF SlotGranted
<1>7. CASE SlotRejected(e)
  BY <1>7, GateStep DEF SlotRejected
<1> QED BY <1>1, <1>2, <1>3, <1>4, <1>5, <1>6, <1>7 DEF Open

\* What a notifying step does to the locations of the tasks.
LEMMA NotifyMoves ==
  ASSUME NEW e \in Execs, NEW loc \in Locations,
         pc \in [Execs -> Locations], MoveAndNotify(e, loc)
  PROVE  /\ pc' \in [Execs -> Locations]
         /\ pc'[e] = loc
         /\ \A x \in Execs : x # e /\ pc[x] = "waiting" => pc'[x] = "woken"
         /\ \A x \in Execs : x # e /\ pc[x] # "waiting" => pc'[x] = pc[x]
BY DEF MoveAndNotify, Locations

\* The outcomes of an attempt, one case per branch of accept, correct and fail.
LEMMA ResolveStep ==
  ASSUME NEW e \in Execs, Inv, Resolve(e)
  PROVE  Inv'
<1> USE DEF Inv, TypeOK, EpisodeInv, ProbePermitsStayCurrent, ClaimsNeverRaise,
      WaitersHaveNoCall, LeaderKeepsItsRole, FollowersAreRegistered,
      SleepingLeaderStillLeads, Unresolved, Locations, CanAttempt,
      PermitIsCurrent, MatchingProbe, Move, episode
<1>n. "resolved" \in Locations /\ pc \in [Execs -> Locations]
  OBVIOUS
<1>1. CASE Accept(e)
  <2>1. CASE MatchingProbe(e)
    <3>1. TypeOK'
      <4>1. ExecTypes'
        BY <1>n, <1>1, <2>1, NotifyMoves DEF Accept, ResolveProbe, CloseEpisode, ExecTypes
      <4>2. FlagTypes'
        BY <1>n, <1>1, <2>1, NotifyMoves DEF Accept, ResolveProbe, CloseEpisode, FlagTypes
      <4>3. DroppedIsEmpty'
        BY <1>n, <1>1, <2>1, NotifyMoves DEF Accept, ResolveProbe, CloseEpisode, DroppedIsEmpty
      <4> QED BY <4>1, <4>2, <4>3, TypePartsPrime
    <3>2. EpisodeInv'
      BY <1>n, <1>1, <2>1, NotifyMoves DEF Accept, ResolveProbe, CloseEpisode
    <3> QED BY <3>1, <3>2
  <2>2. CASE ~MatchingProbe(e)
    BY <1>1, <2>2 DEF Accept, ResolveProbe
  <2> QED BY <2>1, <2>2
<1>2. CASE Correct(e)
  <2>1. CASE MatchingProbe(e)
    <3>1. TypeOK'
      <4>1. ExecTypes'
        BY <1>n, <1>2, <2>1, NotifyMoves DEF Correct, ExecTypes
      <4>2. FlagTypes'
        BY <1>n, <1>2, <2>1, NotifyMoves DEF Correct, FlagTypes
      <4>3. DroppedIsEmpty'
        BY <1>n, <1>2, <2>1, NotifyMoves DEF Correct, DroppedIsEmpty
      <4> QED BY <4>1, <4>2, <4>3, TypePartsPrime
    <3>2. EpisodeInv'
      BY <1>n, <1>2, <2>1, NotifyMoves DEF Correct
    <3> QED BY <3>1, <3>2
  <2>2. CASE ~MatchingProbe(e)
    BY <1>2, <2>2 DEF Correct
  <2> QED BY <2>1, <2>2
<1>3. CASE Reject(e)
  <2>1. CASE MatchingProbe(e)
    <3>1. TypeOK'
      <4>1. ExecTypes'
        BY <1>n, <1>3, <2>1, NotifyMoves DEF Reject, ResolveProbe, CloseEpisode, ExecTypes
      <4>2. FlagTypes'
        BY <1>n, <1>3, <2>1, NotifyMoves DEF Reject, ResolveProbe, CloseEpisode, FlagTypes
      <4>3. DroppedIsEmpty'
        BY <1>n, <1>3, <2>1, NotifyMoves DEF Reject, ResolveProbe, CloseEpisode, DroppedIsEmpty
      <4> QED BY <4>1, <4>2, <4>3, TypePartsPrime
    <3>2. EpisodeInv'
      BY <1>n, <1>3, <2>1, NotifyMoves DEF Reject, ResolveProbe, CloseEpisode
    <3> QED BY <3>1, <3>2
  <2>2. CASE ~MatchingProbe(e)
    BY <1>3, <2>2 DEF Reject, ResolveProbe
  <2> QED BY <2>1, <2>2
<1>4. CASE FailOpensEpisode(e)
  <2>1. TypeOK'
    <3>1. ExecTypes'
      BY <1>n, <1>4, NotifyMoves DEF FailOpensEpisode, StartRecoveryEpisode, ExecTypes
    <3>2. FlagTypes'
      BY <1>n, <1>4, NotifyMoves DEF FailOpensEpisode, StartRecoveryEpisode, FlagTypes
    <3>3. DroppedIsEmpty'
      BY <1>n, <1>4, NotifyMoves DEF FailOpensEpisode, StartRecoveryEpisode, DroppedIsEmpty
    <3> QED BY <3>1, <3>2, <3>3, TypePartsPrime
  <2>2. EpisodeInv'
    BY <1>n, <1>4, NotifyMoves DEF FailOpensEpisode, StartRecoveryEpisode
  <2> QED BY <2>1, <2>2
<1>5. CASE FailProbe(e)
  <2>1. TypeOK'
    <3>1. ExecTypes'
      BY <1>n, <1>5, NotifyMoves DEF FailProbe, ExecTypes
    <3>2. FlagTypes'
      BY <1>n, <1>5, NotifyMoves DEF FailProbe, FlagTypes
    <3>3. DroppedIsEmpty'
      BY <1>n, <1>5, NotifyMoves DEF FailProbe, DroppedIsEmpty
    <3> QED BY <3>1, <3>2, <3>3, TypePartsPrime
  <2>2. EpisodeInv'
    BY <1>n, <1>5, NotifyMoves DEF FailProbe
  <2> QED BY <2>1, <2>2
<1>6. CASE FailCoalesced(e)
  BY <1>n, <1>6, NotifyMoves DEF FailCoalesced
<1>7. CASE FailAfterExhaustion(e)
  BY <1>n, <1>7, NotifyMoves DEF FailAfterExhaustion
<1>8. CASE Exhaust(e)
  <2>1. CASE gen = 0
    <3>1. TypeOK'
      <4>1. ExecTypes'
        BY <1>n, <1>8, <2>1, NotifyMoves DEF Exhaust, StartRecoveryEpisode, ExecTypes
      <4>2. FlagTypes'
        BY <1>n, <1>8, <2>1, NotifyMoves DEF Exhaust, StartRecoveryEpisode, FlagTypes
      <4>3. DroppedIsEmpty'
        BY <1>n, <1>8, <2>1, NotifyMoves DEF Exhaust, StartRecoveryEpisode, DroppedIsEmpty
      <4> QED BY <4>1, <4>2, <4>3, TypePartsPrime
    <3>2. EpisodeInv'
      BY <1>n, <1>8, <2>1, NotifyMoves DEF Exhaust, StartRecoveryEpisode
    <3> QED BY <3>1, <3>2
  <2>2. CASE gen # 0
    <3>1. TypeOK'
      <4>1. ExecTypes'
        BY <1>n, <1>8, <2>2, NotifyMoves DEF Exhaust, ExecTypes
      <4>2. FlagTypes'
        BY <1>n, <1>8, <2>2, NotifyMoves DEF Exhaust, FlagTypes
      <4>3. DroppedIsEmpty'
        BY <1>n, <1>8, <2>2, NotifyMoves DEF Exhaust, DroppedIsEmpty
      <4> QED BY <4>1, <4>2, <4>3, TypePartsPrime
    <3>2. EpisodeInv'
      BY <1>n, <1>8, <2>2, NotifyMoves DEF Exhaust
    <3> QED BY <3>1, <3>2
  <2> QED BY <2>1, <2>2
<1>9. CASE ExhaustAlone(e)
  BY <1>9 DEF ExhaustAlone
<1> QED BY <1>1, <1>2, <1>3, <1>4, <1>5, <1>6, <1>7, <1>8, <1>9 DEF Resolve, Fail

LEMMA CloseStep ==
  ASSUME NEW e \in Execs, Inv, slots < MaxConcurrency, Close(e)
  PROVE  Inv'
<1> USE DEF Close, HoldsSlot, Inv, TypeOK, EpisodeInv,
      ProbePermitsStayCurrent, ClaimsNeverRaise, WaitersHaveNoCall,
      LeaderKeepsItsRole, FollowersAreRegistered, SleepingLeaderStillLeads,
      Unresolved, Locations, CanAttempt, PermitIsCurrent, MatchingProbe, Move,
      episode
<1>1. CASE pc[e] = "running" /\ MatchingProbe(e)
  <2>1. "idle" \in Locations /\ pc \in [Execs -> Locations]
    OBVIOUS
  <2>2. TypeOK'
    <3>1. ExecTypes'
      BY <1>1, <2>1, NotifyMoves DEF AbandonProbe, ExecTypes
    <3>2. FlagTypes'
      BY <1>1, <2>1, NotifyMoves DEF AbandonProbe, FlagTypes
    <3>3. DroppedIsEmpty'
      BY <1>1, <2>1, NotifyMoves DEF AbandonProbe, DroppedIsEmpty
    <3> QED BY <3>1, <3>2, <3>3, TypePartsPrime
  <2>3. EpisodeInv'
    BY <1>1, <2>1, NotifyMoves DEF AbandonProbe
  <2> QED BY <2>2, <2>3
<1>2. CASE pc[e] = "running" /\ ~MatchingProbe(e)
  BY <1>2 DEF AbandonProbe
<1>3. CASE pc[e] = "resolved"
  BY <1>3
<1> QED BY <1>1, <1>2, <1>3

\* The caller leaving, and a cancellation in each of the waits.
LEMMA LeaveStep ==
  ASSUME NEW e \in Execs, Inv, Finish(e) \/ Cancel(e)
  PROVE  Inv'
<1> USE DEF Inv, TypeOK, EpisodeInv, ProbePermitsStayCurrent, ClaimsNeverRaise,
      WaitersHaveNoCall, LeaderKeepsItsRole, FollowersAreRegistered,
      SleepingLeaderStillLeads, Unresolved, Locations, CanAttempt,
      PermitIsCurrent, MatchingProbe, Move, Abandoned, episode
<1>1. CASE Finish(e)
  BY <1>1 DEF Finish
<1>2. CASE CancelFollower(e)
  BY <1>2 DEF CancelFollower
<1>n. "done" \in Locations /\ pc \in [Execs -> Locations]
  OBVIOUS
<1>3. CASE CancelBackoff(e)
  BY <1>n, <1>3, NotifyMoves DEF CancelBackoff
<1>4. CASE CancelAdmission(e)
  <2>1. CASE MatchingProbe(e)
    <3>1. TypeOK'
      <4>1. ExecTypes'
        BY <1>n, <1>4, <2>1, NotifyMoves DEF CancelAdmission, AbandonProbe, ExecTypes
      <4>2. FlagTypes'
        BY <1>n, <1>4, <2>1, NotifyMoves DEF CancelAdmission, AbandonProbe, FlagTypes
      <4>3. DroppedIsEmpty'
        BY <1>n, <1>4, <2>1, NotifyMoves DEF CancelAdmission, AbandonProbe, DroppedIsEmpty
      <4> QED BY <4>1, <4>2, <4>3, TypePartsPrime
    <3>2. EpisodeInv'
      BY <1>n, <1>4, <2>1, NotifyMoves DEF CancelAdmission, AbandonProbe
    <3> QED BY <3>1, <3>2
  <2>2. CASE ~MatchingProbe(e)
    BY <1>4, <2>2 DEF CancelAdmission, AbandonProbe
  <2> QED BY <2>1, <2>2
<1> QED BY <1>1, <1>2, <1>3, <1>4 DEF Cancel

LEMMA ClockStep ==
  ASSUME Inv, BackoffElapses \/ CooldownElapses
  PROVE  Inv'
<1> USE DEF exec, Inv, TypeOK, EpisodeInv, ProbePermitsStayCurrent,
      ClaimsNeverRaise, WaitersHaveNoCall, LeaderKeepsItsRole,
      FollowersAreRegistered, SleepingLeaderStillLeads, Unresolved, CanAttempt,
      PermitIsCurrent
<1>1. CASE BackoffElapses
  BY <1>1 DEF BackoffElapses
<1>2. CASE CooldownElapses
  BY <1>2 DEF CooldownElapses
<1> QED BY <1>1, <1>2


-----------------------------------------------------------------------------
Holding == {e \in Execs : HoldsSlot(e)}

LEMMA HoldingIsFinite == IsFiniteSet(Holding) /\ Cardinality(Holding) \in Nat
<1>1. IsFiniteSet(Holding)
  BY FS_Subset DEF Holding
<1> QED BY <1>1, FS_CardinalityType

LEMMA ClaimTakesASlot ==
  ASSUME NEW e \in Execs, Inv, pc[e] \in {"limiter", "slot"}, Claim(e), SlotsConserved
  PROVE  SlotsConserved'
<1>1. Holding' = Holding \cup {e} /\ e \notin Holding
  BY DEF Claim, Move, Holding, HoldsSlot, Inv, TypeOK
<1>2. Cardinality(Holding') = Cardinality(Holding) + 1
  BY <1>1, HoldingIsFinite, FS_AddElement
<1> QED BY <1>2, HoldingIsFinite DEF Claim, SlotsConserved, Holding, Inv, TypeOK

LEMMA CloseReturnsASlot ==
  ASSUME NEW e \in Execs, Inv, Close(e), SlotsConserved
  PROVE  SlotsConserved' /\ slots < MaxConcurrency
<1>1. e \in Holding
  BY DEF Close, Holding
<1>2. Holding' = Holding \ {e}
  <2>1. CASE pc[e] = "running" /\ MatchingProbe(e)
    <3>1. "idle" \in Locations /\ pc \in [Execs -> Locations] /\ MoveAndNotify(e, "idle")
      BY <2>1 DEF Close, AbandonProbe, Inv, TypeOK, Locations
    <3> QED BY <2>1, <3>1, NotifyMoves DEF Holding, HoldsSlot
  <2>2. CASE ~(pc[e] = "running" /\ MatchingProbe(e))
    BY <2>2 DEF Close, AbandonProbe, Move, Holding, HoldsSlot, Inv, TypeOK
  <2> QED BY <2>1, <2>2
<1>3. Cardinality(Holding') = Cardinality(Holding) - 1 /\ Cardinality(Holding) # 0
  BY <1>1, <1>2, HoldingIsFinite, FS_RemoveElement, FS_EmptySet
<1> QED BY <1>3, HoldingIsFinite DEF Close, SlotsConserved, Holding, Inv, TypeOK

\* A step that leaves the holders and the free slots alone.
LEMMA SameHolders ==
  ASSUME SlotsConserved, Holding' = Holding, slots' = slots
  PROVE  SlotsConserved'
BY DEF SlotsConserved, Holding

LEMMA GateKeepsHolders ==
  ASSUME NEW e \in Execs, Inv, ~HoldsSlot(e), WaitForGate(e)
  PROVE  Holding' = Holding
<1> USE DEF Holding, HoldsSlot, Inv, TypeOK, Move
<1>1. CASE GateOpen(e)
  BY <1>1 DEF GateOpen
<1>2. CASE GateRefuses(e)
  BY <1>2 DEF GateRefuses
<1>3. CASE GateReopens(e)
  BY <1>3 DEF GateReopens
<1>4. CASE GateLeads(e)
  BY <1>4 DEF GateLeads
<1>5. CASE GateFollows(e)
  BY <1>5 DEF GateFollows
<1> QED BY <1>1, <1>2, <1>3, <1>4, <1>5 DEF WaitForGate

LEMMA NotifyKeepsHolders ==
  ASSUME NEW e \in Execs, NEW loc \in Locations, Inv, MoveAndNotify(e, loc),
         HoldsSlot(e) <=> loc \in {"running", "resolved"}
  PROVE  Holding' = Holding
<1>1. pc \in [Execs -> Locations]
  BY DEF Inv, TypeOK
<1> QED BY <1>1, NotifyMoves DEF Holding, HoldsSlot

LEMMA MoveKeepsHolders ==
  ASSUME NEW e \in Execs, NEW loc \in Locations, Inv, Move(e, loc),
         HoldsSlot(e) <=> loc \in {"running", "resolved"}
  PROVE  Holding' = Holding
BY DEF Holding, HoldsSlot, Inv, TypeOK, Move

LEMMA OpenKeepsSlots ==
  ASSUME NEW e \in Execs, Inv, Open(e), SlotsConserved
  PROVE  SlotsConserved'
<1>1. CASE OpenAttempt(e)
  BY <1>1, GateKeepsHolders, SameHolders DEF OpenAttempt, HoldsSlot
<1>2. CASE WakeUp(e)
  BY <1>2, GateKeepsHolders, MoveKeepsHolders, SameHolders
  DEF WakeUp, HoldsSlot, Locations
<1>3. CASE BackoffEnds(e)
  BY <1>3, MoveKeepsHolders, SameHolders DEF BackoffEnds, HoldsSlot, Locations
<1>4. CASE LimiterAdmits(e)
  BY <1>4, ClaimTakesASlot, MoveKeepsHolders, SameHolders
  DEF LimiterAdmits, HoldsSlot, Locations
<1>5. CASE LimiterRejects(e)
  BY <1>5, GateKeepsHolders, SameHolders DEF LimiterRejects, HoldsSlot
<1>6. CASE SlotGranted(e)
  BY <1>6, ClaimTakesASlot DEF SlotGranted
<1>7. CASE SlotRejected(e)
  BY <1>7, GateKeepsHolders, SameHolders DEF SlotRejected, HoldsSlot
<1> QED BY <1>1, <1>2, <1>3, <1>4, <1>5, <1>6, <1>7 DEF Open

LEMMA ResolveKeepsSlots ==
  ASSUME NEW e \in Execs, Inv, Resolve(e), SlotsConserved
  PROVE  SlotsConserved'
<1>1. "resolved" \in Locations /\ HoldsSlot(e) /\ UNCHANGED slots
  BY DEF Resolve, Fail, Accept, Correct, Reject, FailOpensEpisode, FailProbe,
     FailCoalesced, FailAfterExhaustion, Exhaust, ExhaustAlone, HoldsSlot, Locations
<1>2. MoveAndNotify(e, "resolved") \/ Move(e, "resolved")
  BY DEF Resolve, Fail, Accept, Correct, Reject, FailOpensEpisode, FailProbe,
     FailCoalesced, FailAfterExhaustion, Exhaust, ExhaustAlone, ResolveProbe
<1> QED BY <1>1, <1>2, NotifyKeepsHolders, MoveKeepsHolders, SameHolders

LEMMA LeaveKeepsSlots ==
  ASSUME NEW e \in Execs, Inv, Finish(e) \/ Cancel(e), SlotsConserved
  PROVE  SlotsConserved'
<1>1. "done" \in Locations /\ ~HoldsSlot(e) /\ UNCHANGED slots
  BY DEF Finish, Cancel, CancelFollower, CancelBackoff, CancelAdmission,
     HoldsSlot, Locations
<1>2. MoveAndNotify(e, "done") \/ Move(e, "done")
  BY DEF Finish, Cancel, CancelFollower, CancelBackoff, CancelAdmission, AbandonProbe
<1> QED BY <1>1, <1>2, NotifyKeepsHolders, MoveKeepsHolders, SameHolders

-----------------------------------------------------------------------------
FullInv == Inv /\ SlotsConserved

LEMMA InitFullInv == Init => FullInv
<1> SUFFICES ASSUME Init PROVE FullInv
  OBVIOUS
<1>1. {e \in Execs : HoldsSlot(e)} = {}
  BY DEF Init, HoldsSlot
<1> QED BY <1>1, InitInv, FS_EmptySet DEF FullInv, SlotsConserved, Init

LEMMA StutterKeepsInv == FullInv /\ UNCHANGED vars => FullInv'
<1> SUFFICES ASSUME FullInv, UNCHANGED vars PROVE FullInv'
  OBVIOUS
<1>1. TypeOK'
  BY DEF vars, exec, episode, FullInv, Inv, TypeOK
<1>2. EpisodeInv'
  BY DEF vars, exec, episode, FullInv, Inv, EpisodeInv, ProbePermitsStayCurrent,
     ClaimsNeverRaise, WaitersHaveNoCall, LeaderKeepsItsRole,
     FollowersAreRegistered, SleepingLeaderStillLeads, Unresolved, CanAttempt,
     PermitIsCurrent
<1>3. SlotsConserved'
  BY DEF vars, exec, FullInv, SlotsConserved, HoldsSlot
<1> QED BY <1>1, <1>2, <1>3 DEF FullInv, Inv

LEMMA NextKeepsInv == FullInv /\ [Next]_vars => FullInv'
<1> SUFFICES ASSUME FullInv, [Next]_vars PROVE FullInv'
  OBVIOUS
<1> USE DEF FullInv
<1>1. ASSUME NEW e \in Execs, Open(e) PROVE FullInv'
  BY <1>1, OpenStep, OpenKeepsSlots
<1>2. ASSUME NEW e \in Execs, Resolve(e) PROVE FullInv'
  BY <1>2, ResolveStep, ResolveKeepsSlots
<1>3. ASSUME NEW e \in Execs, Close(e) PROVE FullInv'
  BY <1>3, CloseStep, CloseReturnsASlot
<1>4. ASSUME NEW e \in Execs, Finish(e) \/ Cancel(e) PROVE FullInv'
  BY <1>4, LeaveStep, LeaveKeepsSlots
<1>5. CASE BackoffElapses \/ CooldownElapses
  <2>1. Holding' = Holding /\ slots' = slots
    BY <1>5 DEF BackoffElapses, CooldownElapses, exec, Holding, HoldsSlot
  <2> QED BY <1>5, <2>1, ClockStep, SameHolders
<1>6. CASE UNCHANGED vars
  BY <1>6, StutterKeepsInv
<1> QED BY <1>1, <1>2, <1>3, <1>4, <1>5, <1>6 DEF Next, AllDone

\* The inductive invariant holds in every reachable state.
THEOREM FullInvariant == Spec => []FullInv
BY InitFullInv, NextKeepsInv, PTL DEF Spec

\* Every variable of the controller and of its executions keeps its type, and
\* a closed episode leaves no leader, probe, terminal window or waiter behind.
THEOREM TypeCorrect == Spec => []TypeOK
<1>1. FullInv => TypeOK
  BY DEF FullInv, Inv
<1> QED BY <1>1, FullInvariant, PTL

\* Exactly one execution owns the half-open probe of an episode, and _claim_attempt
\* never raises once the gate has let an execution pass.
THEOREM PermitsAreKept == Spec => []PermitsStayUsable
<1>1. FullInv => PermitsStayUsable
  BY DEF FullInv, Inv, EpisodeInv, PermitsStayUsable
<1> QED BY <1>1, FullInvariant, PTL

\* Free slots and open attempts always add up to max_concurrency.
THEOREM SlotsAreConserved == Spec => []SlotsConserved
<1>1. FullInv => SlotsConserved
  BY DEF FullInv
<1> QED BY <1>1, FullInvariant, PTL

\* Whoever sleeps in the condition follows an episode that another execution leads.
THEOREM NoWakeupIsLost == Spec => []FollowersAreRegistered
<1>1. FullInv => FollowersAreRegistered
  BY DEF FullInv, Inv, EpisodeInv
<1> QED BY <1>1, FullInvariant, PTL

-----------------------------------------------------------------------------
(***************************************************************************)
(* What a step may never do.  Attempts start in Claim only, and Claim is   *)
(* reached with a current permit by an execution that can still attempt.   *)
(***************************************************************************)
LEMMA NotifyStartsNothing ==
  ASSUME NEW e \in Execs, NEW loc \in Locations, pc \in [Execs -> Locations],
         MoveAndNotify(e, loc) \/ Move(e, loc), loc # "running",
         NEW x \in Execs, pc'[x] = "running"
  PROVE  pc[x] = "running"
BY NotifyMoves DEF Move, Locations

LEMMA OnlyClaimStarts ==
  ASSUME Inv, [Next]_vars, NEW x \in Execs
  PROVE  \/ /\ pc'[x] = "running" => pc[x] = "running"
            /\ started'[x] = started[x]
         \/ pc[x] \in {"limiter", "slot"} /\ PermitIsCurrent(x) /\ Claim(x)
<1> DEFINE Goal == \/ /\ pc'[x] = "running" => pc[x] = "running"
                      /\ started'[x] = started[x]
                   \/ pc[x] \in {"limiter", "slot"} /\ PermitIsCurrent(x) /\ Claim(x)
<1>t. pc \in [Execs -> Locations] /\ started \in [Execs -> 0..MaxAttempts]
  BY DEF Inv, TypeOK
<1>g. ASSUME NEW e \in Execs, WaitForGate(e) PROVE Goal
  <2>1. started' = started
    BY <1>g DEF WaitForGate, GateOpen, GateRefuses, GateReopens, GateLeads, GateFollows
  <2>2. PICK loc \in {"limiter", "done", "backoff", "waiting"} : Move(e, loc)
    BY <1>g DEF WaitForGate, GateOpen, GateRefuses, GateReopens, GateLeads, GateFollows
  <2> QED BY <1>t, <2>1, <2>2 DEF Move, Locations
<1>c. ASSUME NEW e \in Execs, Claim(e), pc[e] \in {"limiter", "slot"}, PermitIsCurrent(e)
      PROVE  Goal
  <2>1. CASE x = e
    BY <1>c, <2>1
  <2>2. CASE x # e
    BY <1>c, <1>t, <2>2 DEF Claim, Move
  <2> QED BY <2>1, <2>2
<1>1. ASSUME NEW e \in Execs, Open(e) PROVE Goal
  <2>1. CASE WaitForGate(e)
    BY <1>g, <2>1
  <2>2. CASE Claim(e) /\ pc[e] \in {"limiter", "slot"} /\ PermitIsCurrent(e)
    BY <1>c, <2>2
  <2>3. CASE started' = started /\ \E loc \in {"done", "limiter", "slot"} : Move(e, loc)
    BY <1>t, <2>3 DEF Move, Locations
  <2> QED BY <1>1, <2>1, <2>2, <2>3 DEF Open, OpenAttempt, WakeUp, BackoffEnds,
             LimiterAdmits, LimiterRejects, SlotGranted, SlotRejected
<1>2. ASSUME NEW e \in Execs, Resolve(e) PROVE Goal
  <2>1. MoveAndNotify(e, "resolved") \/ Move(e, "resolved")
    BY <1>2 DEF Resolve, Fail, Accept, Correct, Reject, FailOpensEpisode, FailProbe,
       FailCoalesced, FailAfterExhaustion, Exhaust, ExhaustAlone, ResolveProbe
  <2>2. started' = started
    BY <1>2 DEF Resolve, Fail, Accept, Correct, Reject, FailOpensEpisode, FailProbe,
       FailCoalesced, FailAfterExhaustion, Exhaust, ExhaustAlone
  <2>3. "resolved" \in Locations
    BY DEF Locations
  <2> QED BY <1>t, <2>1, <2>2, <2>3, NotifyStartsNothing
<1>3. ASSUME NEW e \in Execs, Close(e) \/ Finish(e) \/ Cancel(e) PROVE Goal
  <2>1. PICK loc \in {"idle", "done"} : MoveAndNotify(e, loc) \/ Move(e, loc)
    BY <1>3 DEF Close, AbandonProbe, Finish, Cancel, CancelFollower, CancelBackoff,
       CancelAdmission
  <2>2. started' = started
    BY <1>3 DEF Close, Finish, Cancel, CancelFollower, CancelBackoff, CancelAdmission
  <2>3. loc \in Locations /\ loc # "running"
    BY DEF Locations
  <2> QED BY <1>t, <2>1, <2>2, <2>3, NotifyStartsNothing
<1>4. CASE BackoffElapses \/ CooldownElapses \/ UNCHANGED vars
  BY <1>4 DEF BackoffElapses, CooldownElapses, vars, exec
<1> QED BY <1>1, <1>2, <1>3, <1>4 DEF Next, AllDone

\* While an episode lasts, the only attempt that starts is its leader's probe.
THEOREM RecoveryIsNotBypassed == Spec => NoAttemptBypassesRecovery
<1> DEFINE P(e) == pc[e] # "running" /\ pc'[e] = "running" =>
                     gen = 0 \/ (leader = e /\ probing /\ terminal = "no")
<1>1. FullInv /\ [Next]_vars => [\A e \in Execs : P(e)]_vars
  <2> SUFFICES ASSUME FullInv, [Next]_vars, NEW e \in Execs PROVE P(e)
    OBVIOUS
  <2> QED BY OnlyClaimStarts DEF FullInv, PermitIsCurrent
<1> QED BY <1>1, FullInvariant, PTL DEF Spec, NoAttemptBypassesRecovery

LEMMA FailedStaysFailed ==
  ASSUME Inv, [Next]_vars, NEW x \in Execs, est[x] = "failed"
  PROVE  est'[x] = "failed"
<1>t. est \in [Execs -> {"active", "failed", "ended"}]
  BY DEF Inv, TypeOK
<1>1. ASSUME NEW e \in Execs, Open(e) PROVE est'[x] = "failed"
  BY <1>t, <1>1 DEF Open, OpenAttempt, WakeUp, BackoffEnds, LimiterAdmits,
     LimiterRejects, SlotGranted, SlotRejected, Claim, WaitForGate, GateOpen,
     GateRefuses, GateReopens, GateLeads, GateFollows
<1>2. ASSUME NEW e \in Execs, Resolve(e) PROVE est'[x] = "failed"
  BY <1>t, <1>2 DEF Resolve, Fail, Accept, Correct, Reject, FailOpensEpisode,
     FailProbe, FailCoalesced, FailAfterExhaustion, Exhaust, ExhaustAlone
<1>3. ASSUME NEW e \in Execs, Close(e) \/ Finish(e) \/ Cancel(e)
      PROVE  est'[x] = "failed"
  BY <1>t, <1>3 DEF Close, Finish, Cancel, CancelFollower, CancelBackoff,
     CancelAdmission, Abandoned
<1>4. CASE BackoffElapses \/ CooldownElapses \/ UNCHANGED vars
  BY <1>4 DEF BackoffElapses, CooldownElapses, vars, exec
<1> QED BY <1>1, <1>2, <1>3, <1>4 DEF Next, AllDone

\* An execution that failed, by its own error or by a shared exhaustion, starts
\* no attempt ever again.
THEOREM FailureIsFinal == Spec => FailedNeverRetries
<1> DEFINE P(e) == est[e] = "failed" =>
                     est'[e] = "failed" /\ started'[e] = started[e]
<1>1. FullInv /\ [Next]_vars => [\A e \in Execs : P(e)]_vars
  <2> SUFFICES ASSUME FullInv, [Next]_vars, NEW e \in Execs, est[e] = "failed"
               PROVE  est'[e] = "failed" /\ started'[e] = started[e]
    OBVIOUS
  <2>1. est'[e] = "failed"
    BY FailedStaysFailed DEF FullInv
  <2>2. ~(pc[e] \in {"limiter", "slot"} /\ Claim(e))
    BY DEF FullInv, Inv, EpisodeInv, ClaimsNeverRaise, CanAttempt
  <2> QED BY <2>1, <2>2, OnlyClaimStarts DEF FullInv
<1> QED BY <1>1, FullInvariant, PTL DEF Spec, FailedNeverRetries

-----------------------------------------------------------------------------
(***************************************************************************)
(* Only the outcome of an attempt ends an episode that still has hope, and *)
(* only Exhaust begins a terminal window.                                  *)
(***************************************************************************)
Shares == terminal = "no" /\ terminal' = "cooling" => \A x \in waiters : est'[x] # "active"

EndsByProbe == gen # 0 /\ gen' # gen => terminal = "over" \/ (probing /\ pc[leader] = "running")

LEMMA SteadyEpisode ==
  ASSUME terminal' = terminal, gen' = gen
  PROVE  Shares /\ EndsByProbe
BY DEF Shares, EndsByProbe

LEMMA GateEndsNothing ==
  ASSUME NEW e \in Execs, WaitForGate(e)
  PROVE  Shares /\ EndsByProbe
BY DEF WaitForGate, GateOpen, GateRefuses, GateReopens, GateLeads, GateFollows,
   StartRecoveryEpisode, episode, Shares, EndsByProbe

LEMMA OutcomeIsTheProbes ==
  ASSUME Inv, NEW e \in Execs, Resolve(e)
  PROVE  Shares /\ EndsByProbe
<1>t. /\ gen = 0 => waiters = {}
      /\ waiters \subseteq Execs /\ est \in [Execs -> {"active", "failed", "ended"}]
  BY DEF Inv, TypeOK
<1>1. CASE Accept(e) \/ Reject(e)
  BY <1>1 DEF Accept, Reject, ResolveProbe, CloseEpisode, MatchingProbe, episode,
     Shares, EndsByProbe
<1>2. CASE Correct(e)
  BY <1>2, SteadyEpisode DEF Correct, episode
<1>3. CASE FailOpensEpisode(e)
  BY <1>3 DEF FailOpensEpisode, StartRecoveryEpisode, Shares, EndsByProbe
<1>4. CASE FailProbe(e) \/ FailCoalesced(e) \/ FailAfterExhaustion(e) \/ ExhaustAlone(e)
  BY <1>4, SteadyEpisode DEF FailProbe, FailCoalesced, FailAfterExhaustion,
     ExhaustAlone, episode
<1>5. CASE Exhaust(e)
  <2>1. Shares
    BY <1>t, <1>5 DEF Exhaust, Shares
  <2>2. EndsByProbe
    BY <1>5 DEF Exhaust, StartRecoveryEpisode, EndsByProbe
  <2> QED BY <2>1, <2>2
<1> QED BY <1>1, <1>2, <1>3, <1>4, <1>5 DEF Resolve, Fail

LEMMA StepsShare == ASSUME Inv, [Next]_vars PROVE Shares /\ EndsByProbe
<1>1. ASSUME NEW e \in Execs, Open(e) PROVE Shares /\ EndsByProbe
  <2>1. CASE WaitForGate(e)
    BY <2>1, GateEndsNothing
  <2>2. CASE terminal' = terminal /\ gen' = gen
    BY <2>2, SteadyEpisode
  <2> QED BY <1>1, <2>1, <2>2 DEF Open, OpenAttempt, WakeUp, BackoffEnds, LimiterAdmits,
             LimiterRejects, SlotGranted, SlotRejected, Claim, episode
<1>2. ASSUME NEW e \in Execs, Resolve(e) PROVE Shares /\ EndsByProbe
  BY <1>2, OutcomeIsTheProbes
<1>3. ASSUME NEW e \in Execs, Close(e) \/ Finish(e) \/ Cancel(e) PROVE Shares /\ EndsByProbe
  BY <1>3, SteadyEpisode DEF Close, AbandonProbe, Finish, Cancel, CancelFollower,
     CancelBackoff, CancelAdmission, episode
<1>4. CASE BackoffElapses \/ UNCHANGED vars
  BY <1>4, SteadyEpisode DEF BackoffElapses, vars, episode
<1>5. CASE CooldownElapses
  BY <1>5 DEF CooldownElapses, Shares, EndsByProbe
<1> QED BY <1>1, <1>2, <1>3, <1>4, <1>5 DEF Next, AllDone

\* The exhaustion of a probe reaches every execution that coalesced into its
\* episode, and an episode ends by its leader's probe or after its terminal window.
THEOREM ExhaustionReachesAll == Spec => ExhaustionIsShared
<1>1. FullInv /\ [Next]_vars =>
        [/\ terminal = "no" /\ terminal' = "cooling" =>
               \A e \in waiters : est'[e] # "active"
         /\ gen # 0 /\ gen' # gen =>
               terminal = "over" \/ (probing /\ pc[leader] = "running")]_vars
  BY StepsShare DEF FullInv, Shares, EndsByProbe
<1> QED BY <1>1, FullInvariant, PTL DEF Spec, ExhaustionIsShared

-----------------------------------------------------------------------------
(***************************************************************************)
(* The controller as a circuit breaker.  Every step of the episode is one  *)
(* step of CircuitBreaker or leaves it alone; one lemma per kind of step   *)
(* says which.                                                             *)
(***************************************************************************)

\* The probe of an episode is the leader's, from the gate to the outcome.
LEMMA ProbeFacts ==
  ASSUME Inv
  PROVE  /\ probing => gen # 0 /\ terminal = "no" /\ leader \in Execs
         /\ \A e \in Execs : Unresolved(e) => (MatchingProbe(e) <=> probing /\ leader = e)
         /\ \A e \in Execs : PermitIsCurrent(e) => gen = 0 \/ (probing /\ leader = e)
         /\ gen = 0 => ~probing /\ terminal = "no" /\ leader = None
<1>1. gen = 0 => ~probing /\ terminal = "no" /\ leader = None
  BY DEF Inv, TypeOK
<1>2. probing => leader \in Execs /\ Unresolved(leader) /\ permit[leader] = gen
  BY DEF Inv, TypeOK, EpisodeInv, LeaderKeepsItsRole
<1>3. probing => gen # 0
  BY <1>1
<1>4. probing => PermitIsCurrent(leader)
  BY <1>2, <1>3 DEF Inv, EpisodeInv, ProbePermitsStayCurrent
<1>5. probing => terminal = "no"
  BY <1>2, <1>3, <1>4 DEF PermitIsCurrent
<1>6. ASSUME NEW e \in Execs PROVE MatchingProbe(e) <=> probing /\ leader = e /\ permit[e] = gen
  BY <1>3 DEF MatchingProbe
<1> QED BY <1>1, <1>2, <1>3, <1>5, <1>6 DEF PermitIsCurrent

\* Who is calling after a step that moves one task.
LEMMA MoveCalls ==
  ASSUME NEW e \in Execs, NEW loc \in Locations, pc \in [Execs -> Locations],
         Move(e, loc) \/ MoveAndNotify(e, loc)
  PROVE  Calling' = IF loc = "running" THEN Calling \cup {e} ELSE Calling \ {e}
<1>1. \A x \in Execs : pc'[x] = "running" <=> IF x = e THEN loc = "running" ELSE pc[x] = "running"
  BY DEF Move, MoveAndNotify, Locations
<1> QED BY <1>1 DEF Calling

LEMMA SameBreaker ==
  ASSUME UNCHANGED <<gen, leader, probing, ready, terminal>>
  PROVE  BreakerMode' = BreakerMode /\ ProbeOwner' = ProbeOwner
BY DEF BreakerMode, ProbeOwner

\* The gate starts a probe, or leaves the breaker alone.
LEMMA GateBreaks ==
  ASSUME Inv, NEW e \in Execs, pc[e] # "running", WaitForGate(e)
  PROVE  [Breaker!Next]_(Breaker!vars)
<1>t. pc \in [Execs -> Locations] /\ e \notin Calling
  BY DEF Inv, TypeOK, Calling
<1>1. Calling' = Calling
  <2>1. PICK loc \in {"limiter", "done", "backoff", "waiting"} : Move(e, loc)
    BY DEF WaitForGate, GateOpen, GateRefuses, GateReopens, GateLeads, GateFollows
  <2>2. loc \in Locations /\ loc # "running"
    BY DEF Locations
  <2> QED BY <1>t, <2>1, <2>2, MoveCalls
<1>2. CASE UNCHANGED <<gen, leader, probing, ready, terminal>>
  BY <1>1, <1>2, SameBreaker DEF Breaker!vars
<1>3. CASE BreakerMode = "ready" /\ BreakerMode' = "probing" /\ ProbeOwner' = e
  <2>1. Breaker!StartProbe(e)
    BY <1>t, <1>1, <1>3 DEF Breaker!StartProbe
  <2> QED BY <2>1 DEF Breaker!Next
<1>4. CASE GateReopens(e)
  <2>1. ~probing /\ gen # 0 /\ terminal = "over"
    BY <1>4, ProbeFacts DEF GateReopens
  <2>2. gen' = nextGen /\ nextGen # 0 /\ leader' = e /\ probing'
    BY <1>4 DEF GateReopens, StartRecoveryEpisode, Inv, TypeOK
  <2> QED BY <1>3, <2>1, <2>2 DEF BreakerMode, ProbeOwner
<1>5. CASE GateLeads(e)
  <2>0. ready \in BOOLEAN /\ probing \in BOOLEAN
    BY DEF Inv, TypeOK
  <2>1. /\ gen # 0 /\ terminal = "no" /\ ~probing
        /\ leader' = e /\ probing' = ready /\ gen' = gen /\ ready' = ready /\ terminal' = terminal
    BY <1>5 DEF GateLeads
  <2>2. CASE ready
    BY <1>3, <2>1, <2>2 DEF BreakerMode, ProbeOwner
  <2>3. CASE ~ready
    <3>1. BreakerMode' = BreakerMode /\ ProbeOwner' = ProbeOwner
      BY <2>0, <2>1, <2>3 DEF BreakerMode, ProbeOwner
    <3> QED BY <1>1, <3>1 DEF Breaker!vars
  <2> QED BY <2>0, <2>2, <2>3
<1>6. CASE GateOpen(e) \/ GateRefuses(e) \/ GateFollows(e)
  BY <1>2, <1>6 DEF GateOpen, GateRefuses, GateFollows, episode
<1> QED BY <1>4, <1>5, <1>6 DEF WaitForGate

LEMMA OpenBreaks ==
  ASSUME Inv, NEW e \in Execs, Open(e)
  PROVE  [Breaker!Next]_(Breaker!vars)
<1>t. pc \in [Execs -> Locations]
  BY DEF Inv, TypeOK
<1>1. pc[e] # "running"
  BY DEF Open, OpenAttempt, WakeUp, BackoffEnds, LimiterAdmits, LimiterRejects,
     SlotGranted, SlotRejected
<1>n. e \notin Calling
  BY <1>1 DEF Calling
<1>2. CASE WaitForGate(e)
  BY <1>1, <1>2, GateBreaks
<1>3. CASE Claim(e) /\ PermitIsCurrent(e)
  <2>1. Calling' = Calling \cup {e}
    BY <1>t, <1>3, MoveCalls DEF Claim, Locations
  <2>2. BreakerMode' = BreakerMode /\ ProbeOwner' = ProbeOwner
    BY <1>3, SameBreaker DEF Claim, episode
  <2>3. BreakerMode = "closed" \/ (BreakerMode = "probing" /\ ProbeOwner = e)
    BY <1>3, ProbeFacts DEF BreakerMode, ProbeOwner
  <2>4. Breaker!Call(e)
    BY <1>n, <2>1, <2>2, <2>3 DEF Breaker!Call
  <2> QED BY <2>4 DEF Breaker!Next
<1>4. CASE BackoffEnds(e)
  <2>1. Calling' = Calling
    BY <1>t, <1>n, <1>4, MoveCalls DEF BackoffEnds, Locations
  <2>2. BreakerMode = "ready" /\ BreakerMode' = "probing" /\ ProbeOwner' = e
    BY <1>4 DEF BackoffEnds, BreakerMode, ProbeOwner
  <2>3. Breaker!StartProbe(e)
    BY <1>n, <2>1, <2>2 DEF Breaker!StartProbe
  <2> QED BY <2>3 DEF Breaker!Next
<1>5. CASE UNCHANGED episode /\ \E loc \in {"done", "slot"} : Move(e, loc)
  <2>1. Calling' = Calling
    BY <1>t, <1>n, <1>5, MoveCalls DEF Locations
  <2> QED BY <1>5, <2>1, SameBreaker DEF Breaker!vars, episode
<1> QED BY <1>2, <1>3, <1>4, <1>5 DEF Open, OpenAttempt, WakeUp, LimiterAdmits,
         LimiterRejects, SlotGranted, SlotRejected

\* A call ends: as the probe's, as the failure that opens the circuit, or as any other.
LEMMA CallBreaks ==
  ASSUME Inv, NEW e \in Execs, pc[e] = "running", NEW loc \in {"resolved", "idle"},
         Move(e, loc) \/ MoveAndNotify(e, loc),
         \/ MatchingProbe(e) /\ ~probing' /\ BreakerMode' \in {"closed", "waiting", "ready"}
         \/ gen = 0 /\ BreakerMode' = "waiting" /\ ~probing'
         \/ ~MatchingProbe(e) /\ UNCHANGED <<gen, leader, probing, ready, terminal>>
  PROVE  [Breaker!Next]_(Breaker!vars)
<1>1. pc \in [Execs -> Locations] /\ e \in Calling /\ Unresolved(e)
  BY DEF Inv, TypeOK, Calling, Unresolved
<1>2. Calling' = Calling \ {e}
  BY <1>1, MoveCalls DEF Locations
<1>3. CASE MatchingProbe(e) /\ ~probing' /\ BreakerMode' \in {"closed", "waiting", "ready"}
  <2>1. BreakerMode = "probing" /\ ProbeOwner = e /\ ProbeOwner' = None
    BY <1>1, <1>3, ProbeFacts DEF BreakerMode, ProbeOwner
  <2>2. Breaker!ProbeEnds(e)
    BY <1>1, <1>2, <1>3, <2>1 DEF Breaker!ProbeEnds
  <2> QED BY <2>2 DEF Breaker!Next
<1>4. CASE gen = 0 /\ BreakerMode' = "waiting" /\ ~probing'
  <2>1. BreakerMode = "closed" /\ ProbeOwner' = ProbeOwner
    BY <1>4, ProbeFacts DEF BreakerMode, ProbeOwner
  <2>2. Breaker!Trip(e)
    BY <1>1, <1>2, <1>4, <2>1 DEF Breaker!Trip
  <2> QED BY <2>2 DEF Breaker!Next
<1>5. CASE ~MatchingProbe(e) /\ UNCHANGED <<gen, leader, probing, ready, terminal>>
  <2>1. ~(probing /\ leader = e) /\ e # None
    BY <1>1, <1>5, ProbeFacts, ExecsAssumption
  <2>2. ProbeOwner # e
    BY <2>1 DEF ProbeOwner
  <2>3. Breaker!CallEnds(e)
    BY <1>1, <1>2, <1>5, <2>2, SameBreaker DEF Breaker!CallEnds
  <2> QED BY <2>3 DEF Breaker!Next
<1> QED BY <1>3, <1>4, <1>5

LEMMA ResolveBreaks ==
  ASSUME Inv, NEW e \in Execs, Resolve(e)
  PROVE  [Breaker!Next]_(Breaker!vars)
<1>1. pc[e] = "running" /\ (Move(e, "resolved") \/ MoveAndNotify(e, "resolved"))
  BY DEF Resolve, Fail, Accept, Correct, Reject, FailOpensEpisode, FailProbe,
     FailCoalesced, FailAfterExhaustion, Exhaust, ExhaustAlone, ResolveProbe
<1>2. /\ nextGen # 0 /\ gen # nextGen /\ probing \in BOOLEAN
      /\ MatchingProbe(e) => gen # 0 /\ terminal = "no"
  <2>1. Unresolved(e)
    BY <1>1 DEF Unresolved
  <2> QED BY <2>1, ProbeFacts DEF Inv, TypeOK
<1>3. CASE Accept(e) \/ Reject(e)
  BY <1>1, <1>3, CallBreaks
     DEF Accept, Reject, ResolveProbe, CloseEpisode, BreakerMode, episode
<1>4. CASE Correct(e)
  BY <1>1, <1>2, <1>4, CallBreaks DEF Correct, BreakerMode, episode
<1>5. CASE FailOpensEpisode(e)
  BY <1>1, <1>2, <1>5, CallBreaks DEF FailOpensEpisode, StartRecoveryEpisode, BreakerMode
<1>6. CASE FailProbe(e)
  BY <1>1, <1>2, <1>6, CallBreaks DEF FailProbe, BreakerMode
<1>7. CASE FailCoalesced(e) \/ FailAfterExhaustion(e) \/ ExhaustAlone(e)
  BY <1>1, <1>7, CallBreaks DEF FailCoalesced, FailAfterExhaustion, ExhaustAlone, episode
<1>8. CASE Exhaust(e)
  <2>1. CASE gen = 0
    BY <1>1, <1>2, <1>8, <2>1, CallBreaks DEF Exhaust, StartRecoveryEpisode, BreakerMode
  <2>2. CASE gen # 0
    BY <1>1, <1>2, <1>8, <2>2, CallBreaks DEF Exhaust, BreakerMode
  <2> QED BY <2>1, <2>2
<1> QED BY <1>3, <1>4, <1>5, <1>6, <1>7, <1>8 DEF Resolve, Fail

\* A task leaves: from its call, with the probe before its call, or with nothing.
LEMMA LeaveBreaks ==
  ASSUME Inv, NEW e \in Execs, Close(e) \/ Finish(e) \/ Cancel(e)
  PROVE  [Breaker!Next]_(Breaker!vars)
<1>t. pc \in [Execs -> Locations] /\ probing \in BOOLEAN /\ terminal \in {"no", "cooling", "over"}
  BY DEF Inv, TypeOK
<1>q. ASSUME pc[e] # "running", \E loc \in {"idle", "done"} : Move(e, loc) \/ MoveAndNotify(e, loc)
      PROVE  Calling' = Calling /\ e \notin Calling
  <2>1. PICK loc \in {"idle", "done"} : Move(e, loc) \/ MoveAndNotify(e, loc)
    BY <1>q
  <2>2. Calling' = Calling \ {e}
    BY <1>t, <2>1, MoveCalls DEF Locations
  <2> QED BY <1>q, <2>2 DEF Calling
<1>1. CASE Close(e) /\ pc[e] = "running"
  <2>1. AbandonProbe(e, "idle")
    BY <1>1 DEF Close
  <2>2. CASE MatchingProbe(e)
    <3>1. terminal = "no" /\ gen # 0
      BY <1>1, <2>2, ProbeFacts DEF Unresolved
    <3> QED BY <1>1, <2>1, <2>2, <3>1, CallBreaks DEF AbandonProbe, BreakerMode
  <2>3. CASE ~MatchingProbe(e)
    BY <1>1, <2>1, <2>3, CallBreaks DEF AbandonProbe, episode
  <2> QED BY <2>2, <2>3
<1>2. CASE CancelAdmission(e)
  <2>1. AbandonProbe(e, "done") /\ pc[e] # "running" /\ Unresolved(e)
    BY <1>2 DEF CancelAdmission, Unresolved
  <2>2. Calling' = Calling /\ e \notin Calling
    BY <1>q, <2>1 DEF AbandonProbe
  <2>3. CASE MatchingProbe(e)
    <3>1. BreakerMode = "probing" /\ ProbeOwner = e /\ terminal = "no" /\ gen # 0
      BY <2>1, <2>3, ProbeFacts DEF BreakerMode, ProbeOwner
    <3>2. BreakerMode' = "ready" /\ ProbeOwner' = None
      BY <2>1, <2>3, <3>1 DEF AbandonProbe, BreakerMode, ProbeOwner
    <3>3. Breaker!GiveUpProbe(e)
      BY <2>2, <3>1, <3>2 DEF Breaker!GiveUpProbe
    <3> QED BY <3>3 DEF Breaker!Next
  <2>4. CASE ~MatchingProbe(e)
    BY <2>1, <2>2, <2>4, SameBreaker DEF AbandonProbe, episode, Breaker!vars
  <2> QED BY <2>3, <2>4
<1>3. CASE CancelBackoff(e)
  <2>1. Calling' = Calling
    BY <1>3, <1>q DEF CancelBackoff
  <2>2. ~probing
    BY <1>3 DEF CancelBackoff, Inv, EpisodeInv, SleepingLeaderStillLeads
  <2>3. BreakerMode' = BreakerMode /\ ProbeOwner' = ProbeOwner
    BY <1>3, <2>2 DEF CancelBackoff, BreakerMode, ProbeOwner
  <2> QED BY <2>1, <2>3 DEF Breaker!vars
<1>4. CASE (Close(e) /\ pc[e] # "running") \/ Finish(e) \/ CancelFollower(e)
  <2>1. Calling' = Calling
    BY <1>4, <1>q DEF Close, Finish, CancelFollower
  <2>2. UNCHANGED <<gen, leader, probing, ready, terminal>>
    BY <1>4 DEF Close, Finish, CancelFollower, episode
  <2> QED BY <2>1, <2>2, SameBreaker DEF Breaker!vars
<1> QED BY <1>1, <1>2, <1>3, <1>4 DEF Cancel

LEMMA ClockBreaks ==
  ASSUME Inv, BackoffElapses \/ CooldownElapses \/ UNCHANGED vars
  PROVE  [Breaker!Next]_(Breaker!vars)
<1>1. Calling' = Calling
  BY DEF BackoffElapses, CooldownElapses, vars, exec, Calling
<1>2. CASE BackoffElapses
  <2>1. CASE probing
    <3>1. BreakerMode' = BreakerMode /\ ProbeOwner' = ProbeOwner
      BY <1>2, <2>1 DEF BackoffElapses, BreakerMode, ProbeOwner
    <3> QED BY <1>1, <3>1 DEF Breaker!vars
  <2>2. CASE ~probing
    <3>1. BreakerMode = "waiting" /\ BreakerMode' = "ready" /\ ProbeOwner' = ProbeOwner
      BY <1>2, <2>2 DEF BackoffElapses, BreakerMode, ProbeOwner
    <3>2. Breaker!Elapse
      BY <1>1, <3>1 DEF Breaker!Elapse
    <3> QED BY <3>2 DEF Breaker!Next
  <2> QED BY <2>1, <2>2
<1>3. CASE CooldownElapses
  <2>1. gen # 0 /\ ~probing
    BY <1>3, ProbeFacts DEF CooldownElapses
  <2>2. BreakerMode = "waiting" /\ BreakerMode' = "ready" /\ ProbeOwner' = ProbeOwner
    BY <1>3, <2>1 DEF CooldownElapses, BreakerMode, ProbeOwner
  <2>3. Breaker!Elapse
    BY <1>1, <2>2 DEF Breaker!Elapse
  <2> QED BY <2>3 DEF Breaker!Next
<1>4. CASE UNCHANGED vars
  BY <1>1, <1>4, SameBreaker DEF vars, episode, Breaker!vars
<1> QED BY <1>2, <1>3, <1>4

\* The controller, with its permits, generations and waiters, is a circuit breaker.
THEOREM AdmissionIsACircuitBreaker == Spec => IsCircuitBreaker
<1>1. Init => Breaker!Init
  BY DEF Init, Breaker!Init, BreakerMode, ProbeOwner, Calling
<1>2. Inv /\ [Next]_vars => [Breaker!Next]_(Breaker!vars)
  <2> SUFFICES ASSUME Inv, [Next]_vars PROVE [Breaker!Next]_(Breaker!vars)
    OBVIOUS
  <2>1. ASSUME NEW e \in Execs, Open(e) \/ Resolve(e) \/ Close(e) \/ Finish(e) \/ Cancel(e)
        PROVE  [Breaker!Next]_(Breaker!vars)
    BY <2>1, OpenBreaks, ResolveBreaks, LeaveBreaks
  <2>2. CASE BackoffElapses \/ CooldownElapses \/ UNCHANGED vars
    BY <2>2, ClockBreaks
  <2> QED BY <2>1, <2>2 DEF Next, AllDone
<1>3. FullInv => Inv
  BY DEF FullInv
<1> QED BY <1>1, <1>2, <1>3, FullInvariant, PTL DEF Spec, IsCircuitBreaker, Breaker!Spec

LEMMA OnlyProbesCallStep ==
  ASSUME [Breaker!Next]_(Breaker!vars)
  PROVE  [/\ Calling' \subseteq Calling \/ BreakerMode = "closed" \/ Calling' = Calling \cup {ProbeOwner}
          /\ BreakerMode # "closed" /\ BreakerMode' = "closed" =>
               BreakerMode = "probing" /\ ProbeOwner \in Calling \ Calling']_(Breaker!vars)
BY DEF Breaker!Next, Breaker!Elapse, Breaker!Call, Breaker!Trip, Breaker!CallEnds,
   Breaker!StartProbe, Breaker!ProbeEnds, Breaker!GiveUpProbe

\* During a recovery only the probe calls the provider, and only what came of its call
\* ends the recovery.
THEOREM OnlyProbesEndRecovery == Spec => Breaker!OnlyProbesCall
<1>1. Breaker!Spec => Breaker!OnlyProbesCall
  BY OnlyProbesCallStep, PTL DEF Breaker!Spec, Breaker!OnlyProbesCall
<1> QED BY <1>1, AdmissionIsACircuitBreaker, PTL DEF IsCircuitBreaker
=============================================================================
