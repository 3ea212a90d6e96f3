----------------------- MODULE RequestExecutionProofs -----------------------
(***************************************************************************)
(* For every number of candidates, attempts and chunks: a request shows    *)
(* the answer of one candidate, its deadline is final, its generation      *)
(* stays leased as long as anything of its upstream is open, and its       *)
(* client is sent a stream of StreamContract that shows what its provider  *)
(* recorded and that no cut-off leaves with half a call.                   *)
(*                                                                         *)
(* The request is first shown to implement the executor of ModelFallback,  *)
(* which promises the first two; the lease needs, beside the executor's    *)
(* invariant, where in the provider stream an attempt can be held.         *)
(*                                                                         *)
(* What the client is sent needs the invariant StreamInv: the events that  *)
(* wait for the client and those that are held back lead, legally one      *)
(* after the other, from what it has to what the output has recorded.      *)
(* Every method of the output keeps this (Follows), whatever it emits.     *)
(***************************************************************************)
EXTENDS RequestExecution, FiniteSetTheorems, SequenceTheorems, WellFoundedInduction, TLAPS

(***************************************************************************)
(* The executor.                                                           *)
(***************************************************************************)

\* One stream is open, that of the candidate being tried.
OneStream == streams = IF stage \in {"read", "handed", "close"} THEN {candidate} ELSE {}

\* Whatever was shown is of this candidate, which is committed by it.
OneAnswer == \A i \in shown : i = candidate /\ committed

\* Before the end a verdict is given for closing a stream only, and a request that is
\* late has it.
Verdicts ==
    /\ stage \in {"open", "read", "handed"} => verdict = ""
    /\ stage = "close" => verdict \in {"", "timeout", "cancelled"}
    /\ stage = "handed" => ~late
    /\ stage = "close" /\ late => verdict # ""

ExecutorInv == OneStream /\ OneAnswer /\ Verdicts

LEMMA ExecutorStep == ExecutorInv /\ [ExecutorNext]_executorVars => ExecutorInv'
<1> SUFFICES ASSUME ExecutorInv, [ExecutorNext]_executorVars PROVE ExecutorInv'
  OBVIOUS
<1> USE DEF ExecutorInv, OneStream, OneAnswer, Verdicts
<1>1. CASE OpenCandidate
  BY <1>1 DEF OpenCandidate
<1>2. CASE CandidateRefused
  <2>1. CASE FallBack
    BY <1>2, <2>1 DEF CandidateRefused, FallBack
  <2>2. CASE EndWith("failed")
    BY <1>2, <2>2 DEF CandidateRefused, EndWith
  <2> QED BY <1>2, <2>1, <2>2 DEF CandidateRefused, FailOrFallBack
<1>3. CASE OpenRaises
  BY <1>3 DEF OpenRaises, EndWith
<1>4. CASE ReadEmpty
  BY <1>4 DEF ReadEmpty, executorVars
<1>5. CASE ReadChunk
  BY <1>5 DEF ReadChunk, Reading
<1>6. CASE Resume
  BY <1>6 DEF Resume
<1>7. CASE ReadEnd
  BY <1>7 DEF ReadEnd, Reading
<1>8. CASE ReadFailure
  BY <1>8 DEF ReadFailure, Reading
<1>9. CASE DeadlinePasses
  BY <1>9 DEF DeadlinePasses
<1>10. CASE TimesOut
  BY <1>10 DEF TimesOut
<1>11. CASE Cancel
  BY <1>11 DEF Cancel
<1>12. CASE CloseCandidate
  <2>1. streams' = {} /\ shown' = shown
    BY <1>12 DEF CloseCandidate
  <2>2. CASE FallBack
    BY <2>1, <2>2, <1>12 DEF CloseCandidate, FallBack, EndWith
  <2>3. ASSUME NEW v, EndWith(v) PROVE ExecutorInv'
    BY <2>1, <2>3 DEF EndWith
  <2> QED BY <1>12, <2>2, <2>3 DEF CloseCandidate, FailOrFallBack
<1>13. CASE UNCHANGED executorVars
  BY <1>13 DEF executorVars
<1> QED
  BY <1>1, <1>2, <1>3, <1>4, <1>5, <1>6, <1>7, <1>8, <1>9, <1>10, <1>11, <1>12, <1>13
     DEF ExecutorNext

LEMMA ExecutorInvariant == ExecutorSpec => []ExecutorInv
<1>1. ExecutorInit => ExecutorInv
  BY DEF ExecutorInit, ExecutorInv, OneStream, OneAnswer, Verdicts
<1> QED BY <1>1, ExecutorStep, PTL DEF ExecutorSpec

\* A late step shows nothing, stays late and does not complete the request.
LEMMA LateStep ==
    ASSUME ExecutorInv, [ExecutorNext]_executorVars
    PROVE  [late => late' /\ shown' = shown /\ verdict' # "completed"]_executorVars
<1> SUFFICES ASSUME ExecutorNext, late, executorVars' # executorVars
             PROVE  late' /\ shown' = shown /\ verdict' # "completed"
  BY DEF executorVars
<1> USE DEF ExecutorInv, Verdicts
<1>1. CASE OpenCandidate
  BY <1>1 DEF OpenCandidate
<1>2. CASE CandidateRefused
  BY <1>2 DEF CandidateRefused, FailOrFallBack, FallBack, EndWith
<1>3. CASE OpenRaises
  BY <1>3 DEF OpenRaises, EndWith
<1>4. CASE ReadEmpty \/ ReadChunk \/ ReadEnd \/ ReadFailure
  BY <1>4 DEF ReadEmpty, ReadChunk, ReadEnd, ReadFailure, Reading
<1>5. CASE Resume \/ DeadlinePasses
  BY <1>5 DEF Resume, DeadlinePasses
<1>6. CASE TimesOut
  BY <1>6 DEF TimesOut
<1>7. CASE Cancel
  BY <1>7 DEF Cancel
<1>8. CASE CloseCandidate
  BY <1>8 DEF CloseCandidate, FailOrFallBack, FallBack, EndWith
<1> QED
  BY <1>1, <1>2, <1>3, <1>4, <1>5, <1>6, <1>7, <1>8 DEF ExecutorNext

(***************************************************************************)
(* The request implements the executor.                                    *)
(***************************************************************************)

LEMMA RequestStep == [Next]_vars => [ExecutorNext]_executorVars
<1> SUFFICES ASSUME [Next]_vars PROVE ExecutorNext \/ UNCHANGED executorVars
  OBVIOUS
<1> USE DEF ExecutorNext
<1>1. CASE Open
  BY <1>1 DEF Open
<1>2. CASE Refuse
  BY <1>2 DEF Refuse
<1>3. CASE Provide \/ ProviderWorks \/ FinishCleanup \/ ReleaseLease
  BY <1>3 DEF Provide, ProviderWorks, FinishCleanup, ReleaseLease
<1>4. CASE TakeEmpty
  BY <1>4 DEF TakeEmpty
<1>5. CASE TakeChunk
  BY <1>5 DEF TakeChunk
<1>6. CASE AskForMore
  BY <1>6 DEF AskForMore
<1>7. CASE StreamReturns \/ StreamRaises
  BY <1>7 DEF StreamReturns, StreamRaises
<1>8. CASE Late
  BY <1>8 DEF Late
<1>9. CASE StopReading
  BY <1>9 DEF StopReading
<1>10. CASE Close
  BY <1>10 DEF Close
<1>11. CASE Disconnect
  BY <1>11 DEF Disconnect
<1>12. CASE UNCHANGED vars
  BY <1>12 DEF vars
<1> QED
  BY <1>1, <1>2, <1>3, <1>4, <1>5, <1>6, <1>7, <1>8, <1>9, <1>10, <1>11, <1>12 DEF Next

\* The request, whatever its providers do, is an execution of the candidates of its
\* route as provider_body (execution.py) tries them.
THEOREM RequestDrivesExecutor == Spec => ExecutorSpec
<1>1. Init => ExecutorInit
  BY DEF Init
<1> QED BY <1>1, RequestStep, PTL DEF Spec, ExecutorSpec

LEMMA RequestKeepsExecutorInv == Spec => []ExecutorInv
BY RequestDrivesExecutor, ExecutorInvariant, PTL

\* The answer a client sees comes from one candidate, and no other candidate's stream
\* is open beside it, whatever fails and falls back (FallbackIsInvisible).
THEOREM OneCandidateIsSeen == Spec => []FallbackIsInvisible
<1>1. ExecutorInv => FallbackIsInvisible
  BY DEF ExecutorInv, OneStream, OneAnswer, FallbackIsInvisible
<1> QED BY <1>1, RequestKeepsExecutorInv, PTL

\* Nothing is handed on once the progress deadline has passed (DeadlineIsFinal).
THEOREM DeadlineIsKept == Spec => DeadlineIsFinal
<1>1. ExecutorInv /\ [Next]_vars
        => [late => late' /\ shown' = shown /\ verdict' # "completed"]_executorVars
  BY RequestStep, LateStep
<1> QED BY <1>1, RequestKeepsExecutorInv, PTL DEF Spec, DeadlineIsFinal

(***************************************************************************)
(* The lease.                                                              *)
(***************************************************************************)

\* Where the generator of a provider stream holds no attempt.
IdlePoints == {"new", "open", "finish", "recover", "done", "raised", "gone"}

Held == live => pc \notin IdlePoints

\* Between two candidates, and after the last, the generator is not there or has ended.
Rests == stage \in {"open", "over"} => pc \in {"new", "done", "raised", "gone"}

LeaseInv == Held /\ Rests /\ (~lease => stage = "over")

\* Stretches of the generator that take nothing and give nothing back.
LEMMA Stays == ASSUME Held, UNCHANGED <<pc, attemptVars>> PROVE Held'
<1>1. pc' = pc /\ live' = live
  BY DEF attemptVars
<1> QED BY <1>1 DEF Held

LEMMA IsAtWork == ASSUME pc' \notin IdlePoints PROVE Held'
BY DEF Held

LEMMA GivesBack == ASSUME live' = FALSE PROVE Held'
BY DEF Held

LEMMA ChatStepHeld == Held /\ UpstreamStep => Held'
<1> SUFFICES ASSUME Held, UpstreamStep PROVE Held'
  OBVIOUS
<1>1. CASE OpenAttempt \/ Connected \/ StreamIsCut \/ StreamFails \/ AskUpstream
  BY <1>1, IsAtWork DEF OpenAttempt, Connected, StreamIsCut, StreamFails, AskUpstream, Goto,
     IdlePoints
<1>2. CASE ConnectRetries \/ ConnectFails \/ CollectRetries \/ CollectFails
  BY <1>2, GivesBack DEF ConnectRetries, ConnectFails, CollectRetries, CollectFails, LoseAttempt
<1>3. CASE RepairArrives \/ ContinuationArrives
  BY <1>3, GivesBack DEF RepairArrives, ContinuationArrives, LoseAttempt
<1>4. CASE FeedText \/ FeedWrittenCall
  BY <1>4, Stays DEF FeedText, FeedWrittenCall, Feed
<1>5. CASE \E n \in {0, 1} : FeedReasoning(n)
  BY <1>5, Stays DEF FeedReasoning, Feed
<1>6. CASE \E i \in ToolIndices, named \in BOOLEAN, n \in 0..Whole : FeedToolCall(i, named, n)
  BY <1>6, Stays DEF FeedToolCall, Feed
<1>7. CASE \E r \in {"stop", "context"} : FeedFinish(r)
  BY <1>7, Stays DEF FeedFinish, Feed
<1>8. CASE EndsProperly
  BY <1>8, IsAtWork DEF EndsProperly, IdlePoints
<1>9. CASE CorrectReasoning
  BY <1>9, IsAtWork DEF CorrectReasoning, CorrectRequest, StartOver, IdlePoints
<1> QED
  BY <1>1, <1>2, <1>3, <1>4, <1>5, <1>6, <1>7, <1>8, <1>9 DEF UpstreamStep

LEMMA ChatWorkHeld == Held /\ Work => Held'
<1> SUFFICES ASSUME Held, Work PROVE Held'
  OBVIOUS
<1>1. CASE Finish \/ SalvageCalls
  <2>1. ~live
    BY <1>1 DEF Finish, SalvageCalls, Runs, Held, IdlePoints
  <2>2. live' = live
    BY <1>1 DEF Finish, SalvageCalls, attemptVars
  <2> QED BY <2>1, <2>2 DEF Held
<1>2. CASE EarlyRetry \/ MidstreamRecovery
  BY <1>2, IsAtWork DEF EarlyRetry, MidstreamRecovery, StartOver, IdlePoints
<1>3. CASE GivesUp \/ CannotAsk
  BY <1>3, IsAtWork DEF GivesUp, CannotAsk, FinalError, IdlePoints
<1> QED BY <1>1, <1>2, <1>3 DEF Work

LEMMA NativeHeld == Held /\ (NativeStep \/ NativeWork) => Held'
<1> SUFFICES ASSUME Held, NativeStep \/ NativeWork PROVE Held'
  OBVIOUS
<1> USE DEF Relay
<1>1. CASE OpenAttempt \/ Connected \/ StreamIsCut \/ StreamFails
  BY <1>1, IsAtWork DEF OpenAttempt, Connected, StreamIsCut, StreamFails, Goto, IdlePoints
<1>2. CASE ConnectRetries \/ ConnectFails
  BY <1>2, GivesBack DEF ConnectRetries, ConnectFails, LoseAttempt
<1>3. CASE RelayBegin \/ RelayNote \/ RelayReason
  BY <1>3, Stays DEF RelayBegin, RelayNote, RelayReason
<1>4. ASSUME NEW kind \in BlockKinds, RelayOpen(kind) PROVE Held'
  BY <1>4, Stays DEF RelayOpen
<1>5. ASSUME NEW b, NEW n \in 1..Whole, RelayDelta(b, n) PROVE Held'
  BY <1>5, Stays DEF RelayDelta
<1>6. ASSUME NEW b, RelayClose(b) PROVE Held'
  BY <1>6, Stays DEF RelayClose
<1>7. CASE RelayStop \/ TranslateEnd
  BY <1>7, IsAtWork DEF RelayStop, TranslateEnd, AnswerEnds, IdlePoints
<1>8. CASE TranslateText \/ TranslateReasoning \/ TranslateHiddenReasoning
  BY <1>8, Stays DEF TranslateText, TranslateReasoning, TranslateHiddenReasoning, Translate
<1>9. ASSUME NEW i \in ToolIndices, NEW n \in 0..Whole, TranslateCall(i, n) PROVE Held'
  BY <1>9, Stays DEF TranslateCall, Translate
<1>10. ASSUME NEW i \in ToolIndices, TranslateCallDone(i) PROVE Held'
  BY <1>10, Stays DEF TranslateCallDone, Translate
<1>11. CASE RelayCorrects \/ RelayRetries
  BY <1>11, IsAtWork DEF RelayCorrects, RelayRetries, CorrectRequest, StartOver, IdlePoints
<1>12. CASE RelayGivesUp
  BY <1>12, IsAtWork DEF RelayGivesUp, IdlePoints
<1> QED
  BY <1>1, <1>2, <1>3, <1>4, <1>5, <1>6, <1>7, <1>8, <1>9, <1>10, <1>11, <1>12
     DEF NativeStep, NativeWork

LEMMA StreamHeld == Held /\ (StreamStep \/ StreamWork \/ Shut \/ Take \/ Abandon) => Held'
<1> SUFFICES ASSUME Held, StreamStep \/ StreamWork \/ Shut \/ Take \/ Abandon PROVE Held'
  OBVIOUS
<1>1. CASE Shut
  BY <1>1, GivesBack DEF Shut, LoseAttempt
<1>2. CASE StreamStep
  BY <1>2, ChatStepHeld, NativeHeld DEF StreamStep
<1>3. CASE StreamWork
  BY <1>1, <1>3, ChatWorkHeld, NativeHeld DEF StreamWork
<1>4. CASE Take
  BY <1>4, Stays DEF Take
<1>5. CASE Abandon
  <2>1. live' = live
    BY <1>5 DEF Abandon, attemptVars
  <2>2. live => pc' = "shut"
    BY <1>5 DEF Abandon
  <2> QED BY <2>1, <2>2 DEF Held, IdlePoints
<1> QED BY <1>1, <1>2, <1>3, <1>4, <1>5

LEMMA LeaseStep == ExecutorInv /\ LeaseInv /\ [Next]_vars => LeaseInv'
<1> SUFFICES ASSUME ExecutorInv, Held, Rests, ~lease => stage = "over", [Next]_vars
             PROVE  Held' /\ Rests' /\ (~lease => stage = "over")'
  BY DEF LeaseInv
<1> USE DEF Rests
<1>1. CASE Open
  <2>1. stage = "open" /\ stage' = "read" /\ lease' = lease
    BY <1>1 DEF Open, OpenCandidate, apiVars
  <2>2. Held'
    BY <1>1, Stays, GivesBack DEF Open, NextStream, StreamRestarts, streamVars, chatVars
  <2> QED BY <2>1, <2>2
<1>2. CASE Refuse
  <2>1. stage = "open" /\ lease' = lease
    BY <1>2 DEF Refuse, CandidateRefused, OpenRaises
  <2>2. pc' = pc /\ Held'
    BY <1>2, Stays DEF Refuse, streamVars, chatVars
  <2> QED BY <2>1, <2>2
<1>3. CASE Provide \/ ProviderWorks \/ FinishCleanup
  <2>1. stage \in {"read", "close"} /\ stage' = stage /\ lease' = lease
    BY <1>3 DEF Provide, ProviderWorks, FinishCleanup, Reading, executorVars, apiVars
  <2>2. Held'
    BY <1>3, StreamHeld DEF Provide, ProviderWorks, FinishCleanup
  <2> QED BY <2>1, <2>2
<1>4. CASE TakeEmpty \/ TakeChunk
  <2>1. stage = "read" /\ stage' \in {"read", "handed"} /\ lease' = lease
    BY <1>4 DEF TakeEmpty, TakeChunk, ReadEmpty, ReadChunk, Reading, executorVars, apiVars
  <2>2. Held'
    BY <1>4, StreamHeld DEF TakeEmpty, TakeChunk
  <2> QED BY <2>1, <2>2
<1>5. CASE AskForMore \/ StreamReturns \/ StreamRaises \/ Late
  <2>1. /\ stage \in {"open", "read", "handed"} /\ lease' = lease
        /\ stage' \in {"read", "close"} \/ stage' = stage
    BY <1>5 DEF AskForMore, StreamReturns, StreamRaises, Late, Resume, ReadEnd, ReadFailure,
       Reading, DeadlinePasses, apiVars
  <2>2. pc' = pc /\ Held'
    BY <1>5, Stays DEF AskForMore, StreamReturns, StreamRaises, Late, streamVars, chatVars
  <2> QED BY <2>1, <2>2
<1>6. CASE StopReading
  <2>1. stage = "read" /\ stage' = "close" /\ lease' = lease
    BY <1>6 DEF StopReading, TimesOut, apiVars
  <2>2. Held'
    BY <1>6, StreamHeld DEF StopReading
  <2> QED BY <2>1, <2>2
<1>7. CASE Close
  <2>1. stage = "close" /\ lease' = lease
    BY <1>7 DEF Close, CloseCandidate
  <2>2. pc' = pc /\ pc \in {"done", "raised", "gone"} /\ Held'
    BY <1>7, Stays DEF Close, Finished, streamVars, chatVars
  <2> QED BY <2>1, <2>2
<1>8. CASE Disconnect
  <2>1. stage # "over" /\ lease' = lease /\ Held'
    BY <1>8, StreamHeld DEF Disconnect, Cancel
  <2>2. stage' \in {"open", "over"} => stage = "open"
    BY <1>8 DEF Disconnect, Cancel, ExecutorInv, OneStream
  <2>3. stage = "open" => pc' = "gone"
    BY <1>8 DEF Disconnect, Abandon, Held, IdlePoints
  <2> QED BY <2>1, <2>2, <2>3
<1>9. CASE ReleaseLease
  <2>1. stage = "over" /\ stage' = stage
    BY <1>9 DEF ReleaseLease, executorVars
  <2>2. pc' = pc /\ Held'
    BY <1>9, Stays DEF ReleaseLease, streamVars, chatVars
  <2> QED BY <2>1, <2>2
<1>10. CASE UNCHANGED vars
  <2>1. stage' = stage /\ lease' = lease
    BY <1>10 DEF vars, executorVars, apiVars
  <2>2. pc' = pc /\ Held'
    BY <1>10, Stays DEF vars, streamVars, chatVars
  <2> QED BY <2>1, <2>2
<1> QED
  BY <1>1, <1>2, <1>3, <1>4, <1>5, <1>6, <1>7, <1>8, <1>9, <1>10 DEF Next

LEMMA LeaseInvariant == Spec => []LeaseInv
<1>1. Init => LeaseInv
  BY DEF Init, StreamInit, ChatInit, ExecutorInit, LeaseInv, Held, Rests, IdlePoints
<1> QED BY <1>1, LeaseStep, RequestKeepsExecutorInv, PTL DEF Spec

\* The provider generation is not given back while an attempt or a provider stream of the
\* request is open (LeaseCoversUpstream).
THEOREM LeaseOutlivesUpstream == Spec => []LeaseCoversUpstream
<1>1. ExecutorInv /\ LeaseInv => LeaseCoversUpstream
  BY DEF ExecutorInv, OneStream, LeaseInv, Held, Rests, IdlePoints, LeaseCoversUpstream
<1> QED BY <1>1, RequestKeepsExecutorInv, LeaseInvariant, PTL

(***************************************************************************)
(* Induction.  The folds of ChatOutput are functions on 0..n defined by    *)
(* their own values: Least gives what such a function is, and what holds   *)
(* of its last value (UpTo).                                               *)
(***************************************************************************)

\* A set of numbers has a least one.
LEMMA Least ==
    ASSUME NEW T, T \subseteq Nat, T # {}
    PROVE  \E m \in T : \A k \in T : m <= k
<1>1. PICK n \in T : TRUE
  OBVIOUS
<1> DEFINE S == 0..n
           U == {0..k : k \in {j \in T : j <= n}}
<1>2. IsWellFoundedOn(StrictSubsetOrdering(S), FiniteSubsetsOf(S))
  BY FS_StrictSubsetOrderingWellFounded
<1>3. FiniteSubsetsOf(S) = SUBSET S
  <2>1. IsFiniteSet(S)
    BY <1>1, FS_Interval
  <2> QED BY <2>1, FS_FiniteSubsetsOfFinite
<1>4. U \subseteq SUBSET S /\ 0..n \in U
  BY <1>1
<1>5. \E x \in U : \A y \in U : ~(<<y, x>> \in StrictSubsetOrdering(S))
  <2> HIDE DEF U, S
  <2>1. U \subseteq FiniteSubsetsOf(S) /\ U # {}
    BY <1>3, <1>4
  <2> QED BY <1>2, <2>1, WFMin
<1>6. PICK m \in T : m <= n /\ \A y \in U : ~(<<y, 0..m>> \in StrictSubsetOrdering(S))
  BY <1>5
<1>7. ASSUME NEW k \in T, k < m PROVE FALSE
  <2>1. 0..k \in U /\ 0..m \in U
    BY <1>6, <1>7
  <2>2. 0..k \subseteq 0..m /\ 0..k # 0..m
    <3>1. m \in 0..m /\ m \notin 0..k
      BY <1>7
    <3> QED BY <1>7, <3>1
  <2> QED BY <1>6, <2>1, <2>2, <1>4 DEF StrictSubsetOrdering
<1> QED BY <1>6, <1>7

\* Induction up to n, for the numbers of a set.
LEMMA UpTo ==
    ASSUME NEW n \in Nat, NEW G, 0 \in G,
           \A k \in 0..n : k # n /\ k \in G => k + 1 \in G
    PROVE  n \in G
<1> DEFINE T == {k \in 0..n : k \notin G}
<1> SUFFICES ASSUME n \notin G PROVE FALSE
  OBVIOUS
<1>1. T \subseteq Nat /\ T # {}
  OBVIOUS
<1>2. PICK m \in T : \A k \in T : m <= k
  <2> HIDE DEF T
  <2> QED BY <1>1, Least
<1>3. m # 0 /\ m - 1 \in 0..n /\ m - 1 # n /\ m - 1 \notin T
  BY <1>2
<1>4. m - 1 \in G
  BY <1>3
<1> QED BY <1>2, <1>3, <1>4

(***************************************************************************)
(* The types of a provider stream, and what its client may be sent: Legal  *)
(* is StreamContract, event by event.                                      *)
(***************************************************************************)

Wires == {"messages", "responses"}

BlockRecs == [kind : BlockKinds, open : BOOLEAN, size : Nat]
ToolRecs == [idx : Nat, named : BOOLEAN, started : BOOLEAN, open : BOOLEAN, blk : Nat,
             args : Nat, task : Nat, taskSent : BOOLEAN, early : Nat]
EventNames == {"", "note", "begin", "open", "delta", "close", "stop", "error"}
EventRecs == [e : EventNames, blk : Nat, kind : BlockKinds \cup {""}, size : Nat]

Outputs ==
    [api : Wires, begun : BOOLEAN, reason : {"", "stop", "context"}, text : Nat, think : Nat,
     texts : Nat, thoughts : Nat, reasoned : BOOLEAN, tools : Seq(ToolRecs),
     blocks : Seq(BlockRecs), invalid : BOOLEAN, terminal : BOOLEAN, new : Seq(EventRecs)]

SomeBlocks == UNION {[S -> BlockRecs] : S \in SUBSET Nat}
Views == [begun : BOOLEAN, blocks : SomeBlocks, end : {"", "stop", "error", "twice"}]

\* The view after an event, also an empty one.
Got(v, event) == IF event.e = "" THEN v ELSE Received(v, event)

OpenIn(v, b) == b \in DOMAIN v.blocks /\ v.blocks[b].open
AllClosed(v) == \A b \in DOMAIN v.blocks : ~v.blocks[b].open

\* What the contract allows the client to be sent next.
Legal(v, event) ==
    /\ v.end = ""
    /\ event.e \in EventNames
    /\ event.e = "begin" => ~v.begun
    /\ event.e \in {"open", "delta", "close", "stop"} => v.begun
    /\ event.e \in {"note", "error"} => v.begun \/ "early pings" \in Quirks
    /\ event.e = "open" => event.blk \notin DOMAIN v.blocks /\ event.kind \in BlockKinds /\ event.blk # 0
    /\ event.e \in {"delta", "close"} => OpenIn(v, event.blk)
    /\ event.e = "delta" => event.size > 0
    /\ event.e = "stop" => AllClosed(v) /\ (DOMAIN v.blocks # {} \/ "empty answers" \in Quirks)

\* How the view w after the event x differs from v.
Gains(v, x, w) ==
    /\ w.begun <=> v.begun \/ x.e = "begin"
    /\ w.end = IF x.e \in {"stop", "error"} THEN x.e ELSE ""
    /\ DOMAIN w.blocks = IF x.e = "open" THEN DOMAIN v.blocks \cup {x.blk} ELSE DOMAIN v.blocks
    /\ \A b \in DOMAIN v.blocks :
         /\ w.blocks[b].kind = v.blocks[b].kind
         /\ w.blocks[b].open <=> v.blocks[b].open /\ ~(x.e = "close" /\ b = x.blk)
         /\ w.blocks[b].size =
              IF x.e = "delta" /\ b = x.blk THEN v.blocks[b].size + x.size
              ELSE IF x.e = "close" /\ b = x.blk THEN x.size
              ELSE v.blocks[b].size
    /\ x.e = "open" =>
         w.blocks[x.blk].kind = x.kind /\ w.blocks[x.blk].open /\ w.blocks[x.blk].size = 0

LEMMA GotIs ==
    ASSUME NEW v \in Views, NEW x \in EventRecs, Legal(v, x)
    PROVE  Got(v, x) \in Views /\ Gains(v, x, Got(v, x))
<1> DEFINE w == Got(v, x)
<1>0. PICK S \in SUBSET Nat : v.blocks \in [S -> BlockRecs]
  BY DEF Views, SomeBlocks
<1>a. ASSUME NEW B \in SomeBlocks
      PROVE  LET u == [v EXCEPT !.blocks = B]
             IN  u \in Views /\ u.blocks = B /\ u.begun = v.begun /\ u.end = v.end
  BY <1>a DEF Views
<1>1. CASE x.e \in {"", "note"}
  BY <1>1 DEF Got, Received, Legal, Views, Gains
<1>2. CASE x.e = "begin"
  BY <1>2 DEF Got, Received, Views, Legal, Gains
<1>3. CASE x.e = "open"
  <2> DEFINE B == Opened(v.blocks, x)
  <2>2. w = [v EXCEPT !.blocks = B]
    BY <1>3 DEF Got, Received
  <2>3. B \in [S \cup {x.blk} -> BlockRecs]
    BY <1>0, <1>3 DEF Legal, BlockRecs, EventRecs, Opened
  <2>4. B \in SomeBlocks
    <3>1. S \cup {x.blk} \in SUBSET Nat
      BY DEF EventRecs
    <3> QED BY <2>3, <3>1 DEF SomeBlocks
  <2>6. w \in Views /\ w.blocks = B /\ w.begun = v.begun /\ w.end = v.end
    <3> HIDE DEF B, w
    <3> QED BY <2>2, <2>4, <1>a
  <2>7. v.begun /\ v.end = ""
    BY <1>3 DEF Legal
  <2>8. DOMAIN v.blocks = S /\ DOMAIN B = S \cup {x.blk} /\ x.blk \notin S
    BY <1>0, <1>3 DEF Opened, Legal
  <2>9. \A b \in S : B[b] = v.blocks[b]
    BY <2>8 DEF Opened
  <2>10. B[x.blk] = [kind |-> x.kind, open |-> TRUE, size |-> 0]
    BY <2>8 DEF Opened
  <2>11. B[x.blk].kind = x.kind /\ B[x.blk].open /\ B[x.blk].size = 0
    BY <2>10
  <2> HIDE DEF B
  <2> QED BY <1>3, <2>6, <2>7, <2>8, <2>9, <2>11 DEF Gains
<1>4. CASE x.e = "delta"
  <2> DEFINE B == [v.blocks EXCEPT ![x.blk].size = @ + x.size]
  <2>1. v.blocks[x.blk] \in BlockRecs /\ x.blk \in S
    BY <1>0, <1>4 DEF Legal, OpenIn
  <2>3. w = [v EXCEPT !.blocks = B]
    BY <1>4 DEF Got, Received, Views
  <2>4. B \in [S -> BlockRecs]
    <3>1. [v.blocks[x.blk] EXCEPT !.size = @ + x.size] \in BlockRecs
      <4>1. x.size \in Nat
        BY DEF EventRecs
      <4> DEFINE r == v.blocks[x.blk]
      <4> DEFINE n == x.size
      <4>2. r \in BlockRecs /\ n \in Nat
        BY <2>1, <4>1
      <4> HIDE DEF r, n
      <4>3. [r EXCEPT !.size = @ + n] \in BlockRecs
        BY <4>2 DEF BlockRecs
      <4> QED BY <4>3 DEF r, n
    <3> QED BY <1>0, <2>1, <3>1
  <2>5. B \in SomeBlocks
    BY <2>4 DEF SomeBlocks
  <2>6. w \in Views /\ w.blocks = B /\ w.begun = v.begun /\ w.end = v.end
    <3> HIDE DEF B, w
    <3> QED BY <2>3, <2>5, <1>a
  <2>7. v.begun /\ v.end = ""
    BY <1>4 DEF Legal
  <2>8. DOMAIN v.blocks = S /\ DOMAIN B = S
    BY <1>0
  <2>9. \A b \in S : b # x.blk => B[b] = v.blocks[b]
    BY <1>0
  <2>10. B[x.blk] = [v.blocks[x.blk] EXCEPT !.size = @ + x.size]
    BY <1>0, <2>1
  <2> HIDE DEF B
  <2> QED BY <2>1, <1>4, <2>6, <2>7, <2>8, <2>9, <2>10 DEF BlockRecs, Gains
<1>5. CASE x.e = "close"
  <2> DEFINE B == [v.blocks EXCEPT ![x.blk].open = FALSE, ![x.blk].size = x.size]
  <2>1. v.blocks[x.blk] \in BlockRecs /\ x.blk \in S
    BY <1>0, <1>5 DEF Legal, OpenIn
  <2>3. w = [v EXCEPT !.blocks = B]
    BY <1>5 DEF Got, Received, Views
  <2>4. B \in [S -> BlockRecs]
    BY <1>0, <2>1 DEF BlockRecs, EventRecs
  <2>5. B \in SomeBlocks
    BY <2>4 DEF SomeBlocks
  <2>6. w \in Views /\ w.blocks = B /\ w.begun = v.begun /\ w.end = v.end
    <3> HIDE DEF B, w
    <3> QED BY <2>3, <2>5, <1>a
  <2>7. v.begun /\ v.end = ""
    BY <1>5 DEF Legal
  <2>8. DOMAIN v.blocks = S /\ DOMAIN B = S
    BY <1>0
  <2>9. \A b \in S : b # x.blk => B[b] = v.blocks[b]
    BY <1>0
  <2>10. B[x.blk].kind = v.blocks[x.blk].kind /\ ~B[x.blk].open /\ B[x.blk].size = x.size
    BY <1>0, <2>1 DEF BlockRecs
  <2> HIDE DEF B
  <2> QED BY <2>1, <1>5, <2>6, <2>7, <2>8, <2>9, <2>10 DEF Gains
<1>6. CASE x.e \in {"stop", "error"}
  <2>1. w = [v EXCEPT !.end = x.e]
    BY <1>6 DEF Got, Received, Ended, Legal
  <2> QED BY <1>6, <2>1 DEF Views, EventRecs, Gains
<1> QED BY <1>1, <1>2, <1>3, <1>4, <1>5, <1>6 DEF Legal, EventNames

\* The client's view goes from v to w by these events, each of them legal.
Replays(v, es, w) ==
    \E f \in [0..Len(es) -> Views] :
        /\ f[0] = v /\ f[Len(es)] = w
        /\ \A i \in 1..Len(es) : Legal(f[i - 1], es[i]) /\ f[i] = Got(f[i - 1], es[i])

LEMMA NothingToReplay ==
    ASSUME NEW v \in Views
    PROVE  Replays(v, <<>>, v) /\ \A w : Replays(v, <<>>, w) => w = v
<1>1. Len(<<>>) = 0
  OBVIOUS
<1>2. Replays(v, <<>>, v)
  <2> DEFINE f == [i \in 0..0 |-> v]
  <2>1. f \in [0..0 -> Views] /\ f[0] = v
    OBVIOUS
  <2>2. 1..0 = {}
    OBVIOUS
  <2> HIDE DEF f
  <2> QED BY <1>1, <2>1, <2>2 DEF Replays
<1>3. \A w : Replays(v, <<>>, w) => w = v
  BY <1>1 DEF Replays
<1> QED BY <1>2, <1>3

LEMMA ReplayOneMore ==
    ASSUME NEW v, NEW w, NEW es \in Seq(EventRecs), NEW x \in EventRecs,
           Replays(v, es, w), Legal(w, x)
    PROVE  Replays(v, Append(es, x), Got(w, x)) /\ w \in Views /\ Got(w, x) \in Views
<1>1. PICK f \in [0..Len(es) -> Views] :
        /\ f[0] = v /\ f[Len(es)] = w
        /\ \A i \in 1..Len(es) : Legal(f[i - 1], es[i]) /\ f[i] = Got(f[i - 1], es[i])
  BY DEF Replays
<1> DEFINE n == Len(es)
           fs == Append(es, x)
           g == [i \in 0..n + 1 |-> IF i = n + 1 THEN Got(w, x) ELSE f[i]]
<1>2. n \in Nat /\ Len(fs) = n + 1 /\ fs[n + 1] = x /\ \A i \in 1..n : fs[i] = es[i]
  OBVIOUS
<1>3. w \in Views
  BY <1>1, <1>2
<1>4. Got(w, x) \in Views
  BY <1>3, GotIs
<1>5. g \in [0..n + 1 -> Views] /\ g[0] = v /\ g[n + 1] = Got(w, x) /\ g[n] = w
  BY <1>1, <1>2, <1>4
<1>6. \A i \in 1..n : g[i] = f[i] /\ g[i - 1] = f[i - 1]
  BY <1>2
<1>7. \A i \in 1..n + 1 : Legal(g[i - 1], fs[i]) /\ g[i] = Got(g[i - 1], fs[i])
  <2> SUFFICES ASSUME NEW i \in 1..n + 1
               PROVE  Legal(g[i - 1], fs[i]) /\ g[i] = Got(g[i - 1], fs[i])
    OBVIOUS
  <2> HIDE DEF g, fs
  <2>1. CASE i = n + 1
    <3>1. i - 1 = n
      BY <2>1, <1>2
    <3> QED BY <2>1, <3>1, <1>2, <1>5
  <2>2. CASE i # n + 1
    <3>1. i \in 1..n
      BY <2>2, <1>2
    <3> QED BY <3>1, <1>1, <1>2, <1>6
  <2> QED BY <2>1, <2>2
<1> HIDE DEF g, fs
<1> QED BY <1>2, <1>3, <1>4, <1>5, <1>7 DEF Replays, fs

LEMMA ReplayTheFirst ==
    ASSUME NEW v, NEW w, NEW es \in Seq(EventRecs), es # <<>>, Replays(v, es, w)
    PROVE  /\ v \in Views /\ Legal(v, Head(es)) /\ Head(es) \in EventRecs
           /\ Got(v, Head(es)) \in Views /\ Replays(Got(v, Head(es)), Tail(es), w)
           /\ Tail(es) \in Seq(EventRecs)
<1>1. PICK f \in [0..Len(es) -> Views] :
        /\ f[0] = v /\ f[Len(es)] = w
        /\ \A i \in 1..Len(es) : Legal(f[i - 1], es[i]) /\ f[i] = Got(f[i - 1], es[i])
  BY DEF Replays
<1> DEFINE n == Len(es)
           fs == Tail(es)
           g == [i \in 0..n - 1 |-> f[i + 1]]
<1>2. /\ n \in Nat \ {0} /\ Len(fs) = n - 1 /\ Head(es) = es[1] /\ Head(es) \in EventRecs
      /\ fs \in Seq(EventRecs) /\ \A i \in 1..n - 1 : fs[i] = es[i + 1]
  OBVIOUS
<1>3. Legal(f[0], es[1]) /\ f[1] = Got(f[0], es[1])
  <2>1. 1 \in 1..n /\ 1 - 1 = 0
    BY <1>2
  <2> QED BY <2>1, <1>1
<1>4. f[0] \in Views /\ f[1] \in Views
  BY <1>1, <1>2
<1>5. g \in [0..n - 1 -> Views] /\ g[0] = f[1] /\ g[n - 1] = w
  <2>1. g \in [0..n - 1 -> Views]
    BY <1>1, <1>2
  <2>2. 0 \in 0..n - 1 /\ n - 1 \in 0..n - 1 /\ 0 + 1 = 1 /\ (n - 1) + 1 = n
    BY <1>2
  <2> QED BY <2>1, <2>2, <1>1
<1>6. \A i \in 1..n - 1 : Legal(g[i - 1], fs[i]) /\ g[i] = Got(g[i - 1], fs[i])
  <2> SUFFICES ASSUME NEW i \in 1..n - 1
               PROVE  Legal(g[i - 1], fs[i]) /\ g[i] = Got(g[i - 1], fs[i])
    OBVIOUS
  <2>1. i + 1 \in 1..n /\ (i + 1) - 1 = i /\ i \in 0..n - 1 /\ i - 1 \in 0..n - 1 /\ (i - 1) + 1 = i
    BY <1>2
  <2>2. g[i - 1] = f[i] /\ g[i] = f[i + 1] /\ fs[i] = es[i + 1]
    BY <2>1, <1>2
  <2>3. Legal(f[(i + 1) - 1], es[i + 1]) /\ f[i + 1] = Got(f[(i + 1) - 1], es[i + 1])
    BY <2>1, <1>1
  <2> QED BY <2>1, <2>2, <2>3
<1> HIDE DEF g, fs
<1>7. Replays(f[1], fs, w)
  BY <1>2, <1>5, <1>6 DEF Replays
<1> QED BY <1>1, <1>2, <1>3, <1>4, <1>7 DEF fs

\* Nothing follows the terminal event.
LEMMA NothingAfterTheEnd ==
    ASSUME NEW v \in Views, NEW w, NEW es \in Seq(EventRecs), v.end # "", Replays(v, es, w)
    PROVE  es = <<>> /\ w = v
<1>1. es = <<>>
  BY ReplayTheFirst DEF Legal
<1> QED BY <1>1, NothingToReplay

(***************************************************************************)
(* What an output recorded and what its client gets to see.                *)
(***************************************************************************)

\* The size of a Responses call is told to its client when the call is complete.
Untold(o, b) == o.api = "responses" /\ o.blocks[b].kind = "tool" /\ o.blocks[b].open

\* The client has the blocks of the output, with their sizes if exact.
Shows(w, o, exact) ==
    /\ w.begun <=> o.begun
    /\ DOMAIN w.blocks = DOMAIN o.blocks
    /\ \A b \in DOMAIN o.blocks :
        /\ w.blocks[b].kind = o.blocks[b].kind
        /\ w.blocks[b].open <=> o.blocks[b].open
        /\ exact => w.blocks[b].size = o.blocks[b].size \/ Untold(o, b)

Agrees(w, o, exact) == w.end = "" /\ Shows(w, o, exact)

Tracks(v, pre, o, exact) == \E w \in Views : Replays(v, pre \o o.new, w) /\ Agrees(w, o, exact)

LEMMA AppendsToConcat ==
    ASSUME NEW S, NEW s \in Seq(S), NEW t \in Seq(S), NEW x \in S
    PROVE  s \o Append(t, x) = Append(s \o t, x) /\ s \o t \in Seq(S)
<1> DEFINE a == s \o Append(t, x)
           b == Append(s \o t, x)
<1>1. s \o t \in Seq(S) /\ Append(t, x) \in Seq(S) /\ Len(Append(t, x)) = Len(t) + 1
  BY ConcatProperties
<1>2. a \in Seq(S) /\ b \in Seq(S) /\ Len(a) = Len(s) + Len(t) + 1 /\ Len(b) = Len(a)
  BY <1>1, ConcatProperties
<1>3. \A i \in 1..Len(a) : a[i] = b[i]
  <2> SUFFICES ASSUME NEW i \in 1..Len(a) PROVE a[i] = b[i]
    OBVIOUS
  <2>1. a[i] = IF i <= Len(s) THEN s[i] ELSE Append(t, x)[i - Len(s)]
    BY <1>1, <1>2, ConcatProperties
  <2>2. Len(s) \in Nat /\ Len(t) \in Nat /\ Len(s \o t) = Len(s) + Len(t)
    BY ConcatProperties
  <2>3. CASE i = Len(s) + Len(t) + 1
    BY <1>1, <2>1, <2>2, <2>3
  <2>4. CASE i # Len(s) + Len(t) + 1
    <3>1. i \in 1..Len(s) + Len(t)
      BY <1>2, <2>2, <2>4
    <3>2. b[i] = (s \o t)[i]
      BY <1>1, <2>2, <3>1
    <3>3. (s \o t)[i] = IF i <= Len(s) THEN s[i] ELSE t[i - Len(s)]
      BY <3>1, ConcatProperties
    <3>4. i > Len(s) => i - Len(s) \in 1..Len(t)
      BY <2>2, <3>1
    <3> QED BY <2>1, <2>2, <3>1, <3>2, <3>3, <3>4
  <2> QED BY <2>3, <2>4
<1> HIDE DEF a, b
<1>4. a = b
  BY <1>2, <1>3, SeqEqual
<1> QED BY <1>1, <1>4 DEF a, b

LEMMA TracksStep ==
    ASSUME NEW v, NEW pre \in Seq(EventRecs), NEW o \in Outputs, NEW exact, NEW p \in Outputs,
           NEW x \in EventRecs, p.new = Append(o.new, x), Tracks(v, pre, o, exact),
           ASSUME NEW w \in Views, Agrees(w, o, exact)
           PROVE  Legal(w, x) /\ (Got(w, x) \in Views => Agrees(Got(w, x), p, exact))
    PROVE  Tracks(v, pre, p, exact)
<1>1. PICK w \in Views : Replays(v, pre \o o.new, w) /\ Agrees(w, o, exact)
  BY DEF Tracks
<1>2. pre \o p.new = Append(pre \o o.new, x) /\ pre \o o.new \in Seq(EventRecs)
  <2>1. o.new \in Seq(EventRecs)
    BY DEF Outputs
  <2> QED BY <2>1, AppendsToConcat
<1>3. Legal(w, x)
  BY <1>1
<1>4. Got(w, x) \in Views /\ Replays(v, pre \o p.new, Got(w, x))
  BY <1>1, <1>2, <1>3, ReplayOneMore
<1>5. Agrees(Got(w, x), p, exact)
  BY <1>1, <1>4
<1> QED BY <1>4, <1>5 DEF Tracks

LEMMA TracksSilently ==
    ASSUME NEW v, NEW pre, NEW o, NEW p, NEW exact, Tracks(v, pre, o, exact),
           p.new = o.new, \A w \in Views : Agrees(w, o, exact) => Agrees(w, p, exact)
    PROVE  Tracks(v, pre, p, exact)
BY DEF Tracks

(***************************************************************************)
(* What the methods of the output change.                                  *)
(***************************************************************************)

\* What most methods of the output leave alone.
SameHeader(o, p) ==
    p.api = o.api /\ p.begun = o.begun /\ p.reason = o.reason /\ p.terminal = o.terminal

SameCalls(o, p) == SameHeader(o, p) /\ p.tools = o.tools /\ p.invalid = o.invalid

\* The blocks of o are those of p but for block b.
OthersStay(o, p, b) == \A c \in DOMAIN o.blocks : c # b => p.blocks[c] = o.blocks[c]

LEMMA OutputIs ==
    ASSUME NEW o \in Outputs
    PROVE  /\ Len(o.blocks) \in Nat /\ DOMAIN o.blocks = 1..Len(o.blocks)
           /\ \A b \in DOMAIN o.blocks : o.blocks[b] \in BlockRecs
           /\ Len(o.tools) \in Nat /\ DOMAIN o.tools = 1..Len(o.tools)
           /\ \A p \in DOMAIN o.tools : o.tools[p] \in ToolRecs
           /\ o.new \in Seq(EventRecs)
<1>1. o.blocks \in Seq(BlockRecs) /\ o.tools \in Seq(ToolRecs) /\ o.new \in Seq(EventRecs)
  BY DEF Outputs
<1> QED BY <1>1

LEMMA BlockIs ==
    ASSUME NEW r \in BlockRecs
    PROVE  r.kind \in BlockKinds \cup {""} /\ r.kind \in BlockKinds /\ r.open \in BOOLEAN /\ r.size \in Nat
BY DEF BlockRecs

LEMMA ANumber ==
    ASSUME NEW s, NEW b \in 1..s, s \in Nat PROVE b \in Nat
OBVIOUS

LEMMA Names == {"open", "delta", "close", "begin", "stop", "error", "note", ""} \subseteq EventNames
BY DEF EventNames

LEMMA SayIs ==
    ASSUME NEW o \in Outputs, NEW x \in EventRecs
    PROVE  LET p == Say(o, x) IN
           /\ p \in Outputs /\ p.new = Append(o.new, x)
           /\ SameCalls(o, p) /\ p.blocks = o.blocks /\ p.text = o.text /\ p.think = o.think
<1>1. Append(o.new, x) \in Seq(EventRecs)
  BY OutputIs
<1> DEFINE X == Append(o.new, x)
<1>2. Say(o, x) = [o EXCEPT !.new = X]
  BY DEF Say
<1> HIDE DEF X
<1> QED BY <1>1, <1>2 DEF X, Outputs, SameCalls, SameHeader

LEMMA EventIs ==
    ASSUME NEW e \in EventNames, NEW b \in Nat, NEW kind \in BlockKinds \cup {""}, NEW n \in Nat
    PROVE  LET x == Event(e, b, kind, n) IN
           x \in EventRecs /\ x.e = e /\ x.blk = b /\ x.kind = kind /\ x.size = n
BY DEF Event, EventRecs

LEMMA BareIs ==
    ASSUME NEW e \in EventNames
    PROVE  Event(e, 0, "", 0) \in EventRecs /\ Event(e, 0, "", 0).e = e
BY DEF EventRecs, Event

LEMMA StartBlockIs ==
    ASSUME NEW o \in Outputs, NEW kind \in BlockKinds
    PROVE  LET p == StartBlock(o, kind)
               n == Len(o.blocks) + 1
               x == Event("open", n, kind, 0)
           IN /\ p \in Outputs /\ x \in EventRecs /\ p.new = Append(o.new, x)
              /\ SameCalls(o, p) /\ p.text = o.text /\ p.think = o.think
              /\ n \in DOMAIN p.blocks /\ DOMAIN p.blocks = DOMAIN o.blocks \cup {n}
              /\ n \notin DOMAIN o.blocks /\ Len(p.blocks) = n
              /\ p.blocks[n].kind = kind /\ p.blocks[n].open /\ p.blocks[n].size = 0
              /\ OthersStay(o, p, n)
<1> DEFINE n == Len(o.blocks) + 1
           r == [kind |-> kind, open |-> TRUE, size |-> 0]
           q == [o EXCEPT !.blocks = Append(@, r)]
           x == Event("open", n, kind, 0)
<1>1. x \in EventRecs
  <2>1. "open" \in EventNames
    BY Names
  <2>2. n \in Nat
    BY OutputIs
  <2>3. kind \in BlockKinds \cup {""} /\ 0 \in Nat
    OBVIOUS
  <2> QED BY <2>1, <2>2, <2>3, EventIs
<1>2. r \in BlockRecs /\ r.kind = kind /\ r.open /\ r.size = 0
  BY DEF BlockRecs
<1>3. o.blocks \in Seq(BlockRecs)
  BY DEF Outputs
<1> HIDE DEF r
<1>4. /\ Append(o.blocks, r) \in Seq(BlockRecs) /\ Len(Append(o.blocks, r)) = n
      /\ Append(o.blocks, r)[n] = r /\ \A b \in 1..Len(o.blocks) : Append(o.blocks, r)[b] = o.blocks[b]
  BY <1>2, <1>3
<1>5. q \in Outputs /\ q.blocks = Append(o.blocks, r) /\ q.new = o.new
      /\ SameCalls(o, q) /\ q.text = o.text /\ q.think = o.think
  BY <1>4 DEF Outputs, SameCalls, SameHeader
<1>6. StartBlock(o, kind) = Say(q, x)
  BY DEF StartBlock, r
<1> HIDE DEF q, x
<1>7. /\ Say(q, x) \in Outputs /\ Say(q, x).new = Append(q.new, x)
      /\ SameCalls(q, Say(q, x)) /\ Say(q, x).blocks = q.blocks /\ Say(q, x).text = q.text
      /\ Say(q, x).think = q.think
  BY <1>1, <1>5, SayIs
<1>8. DOMAIN Append(o.blocks, r) = 1..n /\ 1..n = 1..Len(o.blocks) \cup {n} /\ n \notin 1..Len(o.blocks)
  BY <1>4, OutputIs
<1> DEFINE p == Say(q, x)
<1>9. p.blocks = Append(o.blocks, r) /\ p.new = Append(o.new, x) /\ p.text = o.text /\ p.think = o.think
  BY <1>5, <1>7
<1>10. SameCalls(o, p)
  BY <1>5, <1>7 DEF SameCalls, SameHeader
<1>11. OthersStay(o, p, n)
  BY <1>4, <1>9, OutputIs DEF OthersStay
<1>12. DOMAIN o.blocks = 1..Len(o.blocks) /\ n \in 1..n
  BY OutputIs
<1> HIDE DEF p
<1> QED BY <1>1, <1>2, <1>4, <1>6, <1>7, <1>8, <1>9, <1>10, <1>11, <1>12 DEF p, x

LEMMA SetSizeIs ==
    ASSUME NEW o \in Outputs, NEW b \in DOMAIN o.blocks, NEW n \in Nat
    PROVE  LET p == [o EXCEPT !.blocks[b].size = @ + n] IN
           /\ p \in Outputs /\ p.new = o.new
           /\ SameCalls(o, p) /\ p.text = o.text /\ p.think = o.think
           /\ DOMAIN p.blocks = DOMAIN o.blocks
           /\ p.blocks[b].kind = o.blocks[b].kind /\ p.blocks[b].open = o.blocks[b].open
           /\ p.blocks[b].size = o.blocks[b].size + n
           /\ OthersStay(o, p, b)
<1> DEFINE q == [o EXCEPT !.blocks[b].size = @ + n]
           B == [o.blocks EXCEPT ![b].size = @ + n]
<1>1. o.blocks[b] \in BlockRecs /\ o.blocks \in Seq(BlockRecs) /\ b \in 1..Len(o.blocks)
  BY OutputIs DEF Outputs
<1>3. [o.blocks[b] EXCEPT !.size = @ + n] \in BlockRecs
  BY <1>1, SMTT(30) DEF BlockRecs
<1>4. B \in Seq(BlockRecs) /\ DOMAIN B = DOMAIN o.blocks
  BY <1>1, <1>3
<1>5. B[b].kind = o.blocks[b].kind /\ B[b].open = o.blocks[b].open /\ B[b].size = o.blocks[b].size + n
  BY <1>1 DEF BlockRecs
<1>6. \A c \in DOMAIN o.blocks : c # b => B[c] = o.blocks[c]
  BY <1>1
<1> HIDE DEF B
<1>7. q \in Outputs /\ q.blocks = B /\ q.new = o.new
      /\ SameCalls(o, q) /\ q.text = o.text /\ q.think = o.think
  BY <1>4 DEF Outputs, SameCalls, SameHeader, B
<1> HIDE DEF q
<1> QED BY <1>4, <1>5, <1>6, <1>7 DEF OthersStay, q

LEMMA DeltaIs ==
    ASSUME NEW o \in Outputs, NEW b \in DOMAIN o.blocks, NEW n \in Nat
    PROVE  LET p == Delta(o, b, n)
               x == Event("delta", b, o.blocks[b].kind, n)
           IN /\ p \in Outputs /\ x \in EventRecs /\ p.new = Append(o.new, x)
              /\ SameCalls(o, p) /\ p.text = o.text /\ p.think = o.think
              /\ DOMAIN p.blocks = DOMAIN o.blocks
              /\ p.blocks[b].kind = o.blocks[b].kind /\ p.blocks[b].open = o.blocks[b].open
              /\ p.blocks[b].size = o.blocks[b].size + n
              /\ OthersStay(o, p, b)
<1> DEFINE q == [o EXCEPT !.blocks[b].size = @ + n]
           x == Event("delta", b, o.blocks[b].kind, n)
<1>1. o.blocks[b] \in BlockRecs /\ o.blocks \in Seq(BlockRecs) /\ b \in 1..Len(o.blocks)
  BY OutputIs DEF Outputs
<1>2. x \in EventRecs
  <2>1. /\ "delta" \in EventNames /\ b \in Nat /\ o.blocks[b].kind \in BlockKinds \cup {""}
    BY <1>1, OutputIs, BlockIs, ANumber, Names
  <2> QED BY <2>1, EventIs
<1>7. /\ q \in Outputs /\ q.new = o.new
      /\ SameCalls(o, q) /\ q.text = o.text /\ q.think = o.think
      /\ DOMAIN q.blocks = DOMAIN o.blocks
      /\ q.blocks[b].kind = o.blocks[b].kind /\ q.blocks[b].open = o.blocks[b].open
      /\ q.blocks[b].size = o.blocks[b].size + n
      /\ OthersStay(o, q, b)
  BY SetSizeIs
<1>8. Delta(o, b, n) = Say(q, x)
  BY DEF Delta
<1> HIDE DEF q, x
<1>9. /\ Say(q, x) \in Outputs /\ Say(q, x).new = Append(q.new, x)
      /\ SameCalls(q, Say(q, x)) /\ Say(q, x).blocks = q.blocks /\ Say(q, x).text = q.text
      /\ Say(q, x).think = q.think
  BY <1>2, <1>7, SayIs
<1> QED BY <1>2, <1>7, <1>8, <1>9 DEF SameCalls, SameHeader, OthersStay, x

\* The arguments of the block b are malformed and its client does not get it.
Malformed(o, b) ==
    o.api = "responses" /\ o.blocks[b].kind = "tool" /\ o.blocks[b].size \notin {0, Whole}

LEMMA StopBlockIs ==
    ASSUME NEW o \in Outputs, NEW b \in DOMAIN o.blocks
    PROVE  LET p == StopBlock(o, b)
               x == Event("close", b, o.blocks[b].kind, o.blocks[b].size)
           IN /\ p \in Outputs /\ x \in EventRecs
              /\ SameHeader(o, p) /\ p.tools = o.tools /\ p.text = o.text /\ p.think = o.think
              /\ Malformed(o, b) => p.invalid /\ p.new = o.new /\ p.blocks = o.blocks
              /\ ~Malformed(o, b) =>
                    /\ p.new = Append(o.new, x) /\ p.invalid = o.invalid
                    /\ DOMAIN p.blocks = DOMAIN o.blocks
                    /\ p.blocks[b].kind = o.blocks[b].kind /\ ~p.blocks[b].open
                    /\ p.blocks[b].size = o.blocks[b].size
                    /\ OthersStay(o, p, b)
<1> DEFINE q == [o EXCEPT !.blocks[b].open = FALSE]
           x == Event("close", b, o.blocks[b].kind, o.blocks[b].size)
           B == [o.blocks EXCEPT ![b].open = FALSE]
<1>1. o.blocks[b] \in BlockRecs /\ o.blocks \in Seq(BlockRecs) /\ b \in 1..Len(o.blocks)
  BY OutputIs DEF Outputs
<1>2. x \in EventRecs
  <2>1. /\ "close" \in EventNames /\ b \in Nat /\ o.blocks[b].size \in Nat
        /\ o.blocks[b].kind \in BlockKinds \cup {""}
    BY <1>1, OutputIs, BlockIs, ANumber, Names
  <2> QED BY <2>1, EventIs
<1>3. [o.blocks[b] EXCEPT !.open = FALSE] \in BlockRecs
  BY <1>1 DEF BlockRecs
<1>4. B \in Seq(BlockRecs) /\ DOMAIN B = DOMAIN o.blocks
  BY <1>1, <1>3
<1>5. B[b].kind = o.blocks[b].kind /\ ~B[b].open /\ B[b].size = o.blocks[b].size
  BY <1>1 DEF BlockRecs
<1>6. \A c \in DOMAIN o.blocks : c # b => B[c] = o.blocks[c]
  BY <1>1
<1> HIDE DEF B
<1>7. q \in Outputs /\ q.blocks = B /\ q.new = o.new
      /\ SameCalls(o, q) /\ q.text = o.text /\ q.think = o.think
  BY <1>4 DEF Outputs, SameCalls, SameHeader, B
<1>8. CASE Malformed(o, b)
  <2>1. StopBlock(o, b) = [o EXCEPT !.invalid = TRUE]
    BY <1>8 DEF StopBlock, Malformed
  <2> QED BY <1>2, <1>8, <2>1 DEF Outputs, SameHeader
<1>9. CASE ~Malformed(o, b)
  <2>1. StopBlock(o, b) = Say(q, x)
    BY <1>9 DEF StopBlock, Malformed
  <2> HIDE DEF q, x
  <2>2. /\ Say(q, x) \in Outputs /\ Say(q, x).new = Append(q.new, x)
        /\ SameCalls(q, Say(q, x)) /\ Say(q, x).blocks = q.blocks /\ Say(q, x).text = q.text
        /\ Say(q, x).think = q.think
    BY <1>2, <1>7, SayIs
  <2> QED BY <1>2, <1>4, <1>5, <1>6, <1>7, <1>9, <2>1, <2>2
          DEF SameCalls, SameHeader, OthersStay, x
<1> QED BY <1>8, <1>9

LEMMA SetTextIs ==
    ASSUME NEW o \in Outputs, NEW n \in Nat
    PROVE  LET p == [o EXCEPT !.text = n] IN
           /\ p \in Outputs /\ SameCalls(o, p) /\ p.blocks = o.blocks /\ p.new = o.new
           /\ p.text = n /\ p.think = o.think
BY DEF Outputs, SameCalls, SameHeader

LEMMA SetThinkIs ==
    ASSUME NEW o \in Outputs, NEW n \in Nat
    PROVE  LET p == [o EXCEPT !.think = n] IN
           /\ p \in Outputs /\ SameCalls(o, p) /\ p.blocks = o.blocks /\ p.new = o.new
           /\ p.think = n /\ p.text = o.text
BY DEF Outputs, SameCalls, SameHeader

(***************************************************************************)
(* Outputs that can be followed: a client who was told everything of o is  *)
(* told everything of p by the events that p has added.                    *)
(***************************************************************************)

\* Whoever tracks o can go on with p.
Follows(o, p) ==
    \A v, pre, x : pre \in Seq(EventRecs) /\ Tracks(v, pre, o, x) => Tracks(v, pre, p, x)

LEMMA FollowsOn ==
    ASSUME NEW o, NEW p, NEW q, Follows(o, p), Follows(p, q)
    PROVE  Follows(o, q)
BY DEF Follows

LEMMA FollowsItself == ASSUME NEW o PROVE Follows(o, o)
BY DEF Follows

LEMMA FollowsOneMore ==
    ASSUME NEW o \in Outputs, NEW p \in Outputs, NEW x \in EventRecs, p.new = Append(o.new, x),
           ASSUME NEW w \in Views, NEW exact, Agrees(w, o, exact)
           PROVE  Legal(w, x) /\ (Got(w, x) \in Views => Agrees(Got(w, x), p, exact))
    PROVE  Follows(o, p)
<1> SUFFICES ASSUME NEW v, NEW pre, NEW exact, pre \in Seq(EventRecs), Tracks(v, pre, o, exact)
             PROVE  Tracks(v, pre, p, exact)
  BY DEF Follows
<1>1. PICK w \in Views : Replays(v, pre \o o.new, w) /\ Agrees(w, o, exact)
  BY DEF Tracks
<1>2. pre \o p.new = Append(pre \o o.new, x) /\ pre \o o.new \in Seq(EventRecs)
  <2>1. o.new \in Seq(EventRecs)
    BY DEF Outputs
  <2>2. pre \o Append(o.new, x) = Append(pre \o o.new, x) /\ pre \o o.new \in Seq(EventRecs)
    BY ONLY pre \in Seq(EventRecs), x \in EventRecs, <2>1, AppendsToConcat
  <2> QED BY ONLY p.new = Append(o.new, x), <2>2
<1>3. Legal(w, x)
  BY <1>1
<1>4. Got(w, x) \in Views /\ Replays(v, pre \o p.new, Got(w, x))
  BY <1>1, <1>2, <1>3, ReplayOneMore
<1>5. Agrees(Got(w, x), p, exact)
  BY <1>1, <1>4
<1> QED BY <1>4, <1>5 DEF Tracks

\* Nothing of the stream has changed.
SameStream(o, p) == p.api = o.api /\ p.begun = o.begun /\ p.blocks = o.blocks /\ p.new = o.new

LEMMA SameStreamFollows ==
    ASSUME NEW o, NEW p, SameStream(o, p)
    PROVE  Follows(o, p)
<1>1. \A w, exact : Agrees(w, o, exact) => Agrees(w, p, exact)
  BY ZenonT(60) DEF SameStream, Agrees, Shows, Untold
<1> QED BY <1>1 DEF Follows, Tracks, SameStream

\* Two views whose difference o and p share.
LEMMA StartFollows ==
    ASSUME NEW o \in Outputs, NEW kind \in BlockKinds, o.begun
    PROVE  Follows(o, StartBlock(o, kind))
<1> DEFINE p == StartBlock(o, kind)
           n == Len(o.blocks) + 1
           x == Event("open", n, kind, 0)
<1>1. /\ p \in Outputs /\ x \in EventRecs /\ p.new = Append(o.new, x)
      /\ SameCalls(o, p) /\ p.text = o.text /\ p.think = o.think
      /\ n \in DOMAIN p.blocks /\ DOMAIN p.blocks = DOMAIN o.blocks \cup {n}
      /\ n \notin DOMAIN o.blocks /\ Len(p.blocks) = n
      /\ p.blocks[n].kind = kind /\ p.blocks[n].open /\ p.blocks[n].size = 0
      /\ OthersStay(o, p, n)
  BY StartBlockIs
<1>2. x.e = "open" /\ x.blk = n /\ x.kind = kind /\ x.size = 0 /\ n # 0
  <2>1. n # 0
    BY OutputIs
  <2> QED BY <2>1 DEF Event
<1> HIDE DEF p, n, x
<1>3. ASSUME NEW w \in Views, NEW exact, Agrees(w, o, exact)
      PROVE  Legal(w, x) /\ (Got(w, x) \in Views => Agrees(Got(w, x), p, exact))
  <2>1. w.begun /\ w.end = "" /\ DOMAIN w.blocks = DOMAIN o.blocks
    BY <1>3 DEF Agrees, Shows
  <2>2. Legal(w, x)
    BY <1>1, <1>2, <2>1 DEF Legal, EventNames
  <2> DEFINE u == Got(w, x)
  <2>3. /\ u.begun /\ u.end = ""
        /\ DOMAIN u.blocks = DOMAIN o.blocks \cup {n}
        /\ \A b \in DOMAIN o.blocks : u.blocks[b].kind = w.blocks[b].kind
                                   /\ (u.blocks[b].open <=> w.blocks[b].open)
                                   /\ u.blocks[b].size = w.blocks[b].size
        /\ u.blocks[n].kind = kind /\ u.blocks[n].open /\ u.blocks[n].size = 0
    <3>1. Gains(w, x, u)
      BY <1>1, <2>2, GotIs
    <3> HIDE DEF u
    <3> QED BY <2>1, <1>2, <3>1 DEF Gains
  <2> HIDE DEF u
  <2>4. p.begun = o.begun /\ p.api = o.api
    BY <1>1 DEF SameCalls, SameHeader
  <2>5. Agrees(u, p, exact)
    <3>1. \A b \in DOMAIN o.blocks :
            /\ u.blocks[b].kind = p.blocks[b].kind /\ (u.blocks[b].open <=> p.blocks[b].open)
            /\ exact => u.blocks[b].size = p.blocks[b].size \/ Untold(p, b)
      BY <1>1, <1>3, <2>3, <2>4, ZenonT(60) DEF Agrees, Shows, OthersStay, Untold
    <3> QED BY <1>1, <1>3, <2>3, <2>4, <3>1 DEF Agrees, Shows
  <2> QED BY <2>2, <2>5 DEF u
<1> QED BY <1>1, <1>3, FollowsOneMore DEF p, x

\* An event that changes one open block, or none.
LEMMA ChangeFollows ==
    ASSUME NEW o \in Outputs, NEW p \in Outputs, NEW b \in DOMAIN o.blocks, NEW x \in EventRecs,
           o.begun, p.begun, p.api = o.api, o.blocks[b].open,
           p.new = Append(o.new, x), x.blk = b,
           DOMAIN p.blocks = DOMAIN o.blocks, OthersStay(o, p, b),
           p.blocks[b].kind = o.blocks[b].kind,
           \/ /\ x.e = "delta" /\ x.size > 0
              /\ p.blocks[b].open /\ p.blocks[b].size = o.blocks[b].size + x.size
           \/ /\ x.e = "close" /\ ~p.blocks[b].open /\ p.blocks[b].size = x.size
           \/ /\ x.e = "" /\ Untold(o, b) /\ p.blocks[b].open
    PROVE  Follows(o, p)
<1>1. ASSUME NEW w \in Views, NEW exact, Agrees(w, o, exact)
      PROVE  Legal(w, x) /\ (Got(w, x) \in Views => Agrees(Got(w, x), p, exact))
  <2>1. w.begun /\ w.end = "" /\ DOMAIN w.blocks = DOMAIN o.blocks /\ OpenIn(w, b)
    BY <1>1 DEF Agrees, Shows, OpenIn
  <2>2. Legal(w, x)
    BY <2>1 DEF Legal, EventNames
  <2> DEFINE u == Got(w, x)
  <2>3. Gains(w, x, u)
    BY <2>2, GotIs
  <2> HIDE DEF u
  <2>4. /\ u.begun /\ u.end = "" /\ DOMAIN u.blocks = DOMAIN p.blocks
        /\ \A c \in DOMAIN p.blocks :
             /\ u.blocks[c].kind = w.blocks[c].kind
             /\ c # b => /\ u.blocks[c].open <=> w.blocks[c].open
                         /\ u.blocks[c].size = w.blocks[c].size
    BY <2>1, <2>3 DEF Gains
  <2>5. /\ x.e = "delta" => u.blocks[b].open /\ u.blocks[b].size = w.blocks[b].size + x.size
        /\ x.e = "close" => ~u.blocks[b].open /\ u.blocks[b].size = x.size
        /\ x.e = "" => u.blocks[b].open
    BY <2>1, <2>3 DEF Gains, OpenIn
  <2>6. \A c \in DOMAIN p.blocks : c # b =>
          /\ u.blocks[c].kind = p.blocks[c].kind /\ (u.blocks[c].open <=> p.blocks[c].open)
          /\ exact => u.blocks[c].size = p.blocks[c].size \/ Untold(p, c)
    <3> SUFFICES ASSUME NEW c \in DOMAIN p.blocks, c # b
                 PROVE  /\ u.blocks[c].kind = p.blocks[c].kind /\ (u.blocks[c].open <=> p.blocks[c].open)
                        /\ exact => u.blocks[c].size = p.blocks[c].size \/ Untold(p, c)
      OBVIOUS
    <3>1. p.blocks[c] = o.blocks[c] /\ c \in DOMAIN o.blocks
      BY DEF OthersStay
    <3>2. Untold(o, c) => Untold(p, c)
      BY <3>1 DEF Untold
    <3>3. /\ w.blocks[c].kind = o.blocks[c].kind /\ (w.blocks[c].open <=> o.blocks[c].open)
          /\ exact => w.blocks[c].size = o.blocks[c].size \/ Untold(o, c)
      BY <1>1, <3>1 DEF Agrees, Shows
    <3> QED BY <2>4, <3>1, <3>2, <3>3
  <2>7. u.blocks[b].kind = p.blocks[b].kind
    BY <1>1, <2>4 DEF Agrees, Shows
  <2>8. u.blocks[b].open <=> p.blocks[b].open
    BY <2>5
  <2>9. exact => u.blocks[b].size = p.blocks[b].size \/ Untold(p, b)
    <3>1. exact => w.blocks[b].size = o.blocks[b].size \/ Untold(o, b)
      BY <1>1 DEF Agrees, Shows
    <3>2. Untold(o, b) /\ p.blocks[b].open => Untold(p, b)
      BY DEF Untold
    <3> QED BY <2>5, <3>1, <3>2
  <2> QED BY <2>2, <2>4, <2>6, <2>7, <2>8, <2>9 DEF Agrees, Shows, u
<1> QED BY <1>1, FollowsOneMore

LEMMA DeltaFollows ==
    ASSUME NEW o \in Outputs, NEW b \in DOMAIN o.blocks, NEW n \in Nat \ {0},
           o.begun, o.blocks[b].open
    PROVE  Follows(o, Delta(o, b, n))
<1> DEFINE p == Delta(o, b, n)
           x == Event("delta", b, o.blocks[b].kind, n)
<1>1. /\ p \in Outputs /\ x \in EventRecs /\ p.new = Append(o.new, x)
      /\ SameCalls(o, p) /\ p.text = o.text /\ p.think = o.think
      /\ DOMAIN p.blocks = DOMAIN o.blocks
      /\ p.blocks[b].kind = o.blocks[b].kind /\ p.blocks[b].open = o.blocks[b].open
      /\ p.blocks[b].size = o.blocks[b].size + n
      /\ OthersStay(o, p, b)
  BY DeltaIs
<1>2. x.e = "delta" /\ x.blk = b /\ x.size = n
  BY DEF Event
<1> HIDE DEF p, x
<1>3. p.begun /\ p.api = o.api
  BY <1>1 DEF SameCalls, SameHeader
<1>4. x.e = "delta" /\ x.size > 0 /\ p.blocks[b].open /\ p.blocks[b].size = o.blocks[b].size + x.size
  BY <1>1, <1>2
<1>5. p \in Outputs /\ x \in EventRecs /\ p.new = Append(o.new, x) /\ x.blk = b
      /\ DOMAIN p.blocks = DOMAIN o.blocks /\ p.blocks[b].kind = o.blocks[b].kind
      /\ OthersStay(o, p, b)
  BY <1>1, <1>2
<1> QED BY <1>3, <1>4, <1>5, ChangeFollows DEF p

LEMMA StopFollows ==
    ASSUME NEW o \in Outputs, NEW b \in DOMAIN o.blocks, o.begun, o.blocks[b].open
    PROVE  Follows(o, StopBlock(o, b))
<1> DEFINE p == StopBlock(o, b)
           x == Event("close", b, o.blocks[b].kind, o.blocks[b].size)
<1>1. /\ p \in Outputs /\ x \in EventRecs
      /\ SameHeader(o, p) /\ p.tools = o.tools /\ p.text = o.text /\ p.think = o.think
      /\ Malformed(o, b) => p.invalid /\ p.new = o.new /\ p.blocks = o.blocks
      /\ ~Malformed(o, b) =>
            /\ p.new = Append(o.new, x) /\ p.invalid = o.invalid
            /\ DOMAIN p.blocks = DOMAIN o.blocks
            /\ p.blocks[b].kind = o.blocks[b].kind /\ ~p.blocks[b].open
            /\ p.blocks[b].size = o.blocks[b].size
            /\ OthersStay(o, p, b)
  BY StopBlockIs
<1>2. x.e = "close" /\ x.blk = b /\ x.size = o.blocks[b].size
  BY DEF Event
<1> HIDE DEF p, x
<1>3. p.begun /\ p.api = o.api /\ p.begun = o.begun
  BY <1>1 DEF SameHeader
<1>4. CASE Malformed(o, b)
  BY <1>1, <1>3, <1>4, SameStreamFollows DEF SameStream, p
<1>5. CASE ~Malformed(o, b)
  BY <1>1, <1>2, <1>3, <1>5, ChangeFollows DEF p
<1> QED BY <1>4, <1>5

\* The arguments of a Responses call grow without a word to its client.
LEMMA HiddenFollows ==
    ASSUME NEW o \in Outputs, NEW p \in Outputs, NEW b \in DOMAIN o.blocks, Untold(o, b),
           p.begun = o.begun, p.api = o.api, p.new = o.new, DOMAIN p.blocks = DOMAIN o.blocks,
           p.blocks[b].kind = o.blocks[b].kind, p.blocks[b].open, OthersStay(o, p, b)
    PROVE  Follows(o, p)
<1>1. ASSUME NEW w, NEW exact, Agrees(w, o, exact) PROVE Agrees(w, p, exact)
  <2>1. Untold(p, b)
    BY DEF Untold
  <2>2. \A c \in DOMAIN p.blocks : c # b =>
          /\ w.blocks[c].kind = p.blocks[c].kind /\ (w.blocks[c].open <=> p.blocks[c].open)
          /\ exact => w.blocks[c].size = p.blocks[c].size \/ Untold(p, c)
    BY <1>1, ZenonT(60) DEF Agrees, Shows, OthersStay, Untold
  <2>3. w.blocks[b].kind = p.blocks[b].kind /\ (w.blocks[b].open <=> p.blocks[b].open)
    BY <1>1 DEF Agrees, Shows, Untold
  <2>4. w.begun <=> p.begun
    BY <1>1 DEF Agrees, Shows
  <2>5. w.end = "" /\ DOMAIN w.blocks = DOMAIN p.blocks
    BY <1>1 DEF Agrees, Shows
  <2> QED BY <2>1, <2>2, <2>3, <2>4, <2>5 DEF Agrees, Shows
<1> QED BY <1>1 DEF Follows, Tracks

\* An event without meaning for the blocks.
LEMMA SayFollows ==
    ASSUME NEW o \in Outputs, NEW e \in {"", "note"},
           e = "note" => o.begun \/ "early pings" \in Quirks
    PROVE  /\ Event(e, 0, "", 0) \in EventRecs
           /\ Follows(o, Say(o, Event(e, 0, "", 0)))
<1> DEFINE x == Event(e, 0, "", 0)
           p == Say(o, x)
<1>1. x \in EventRecs /\ x.e = e
  <2>1. e \in EventNames
    BY Names
  <2> QED BY <2>1, BareIs
<1> HIDE DEF x
<1>2. p \in Outputs /\ p.new = Append(o.new, x) /\ SameCalls(o, p) /\ p.blocks = o.blocks
  BY <1>1, SayIs
<1> HIDE DEF p
<1>3. ASSUME NEW w \in Views, NEW exact, Agrees(w, o, exact)
      PROVE  Legal(w, x) /\ (Got(w, x) \in Views => Agrees(Got(w, x), p, exact))
  <2>1. Legal(w, x)
    BY <1>1, <1>3 DEF Legal, Agrees, Shows, EventNames
  <2>2. Got(w, x) = w
    BY <1>1 DEF Got, Received
  <2>3. Agrees(w, p, exact)
    BY <1>2, <1>3 DEF Agrees, Shows, SameCalls, SameHeader, Untold
  <2> QED BY <2>1, <2>2, <2>3
<1> QED BY <1>1, <1>2, <1>3, FollowsOneMore DEF p, x

LEMMA BeginFollows ==
    ASSUME NEW o \in Outputs, o.blocks = <<>>, ~o.begun
    PROVE  LET p == StartEvents(o) IN
           /\ p \in Outputs /\ p.begun /\ Follows(o, p)
           /\ p = [o EXCEPT !.begun = TRUE, !.new = p.new]
<1> DEFINE x == Event("begin", 0, "", 0)
           q == [o EXCEPT !.begun = TRUE]
           p == Say(q, x)
<1>1. x \in EventRecs /\ x.e = "begin"
  <2>1. "begin" \in EventNames
    BY Names
  <2> QED BY <2>1, BareIs
<1> HIDE DEF x
<1>2. q \in Outputs /\ q.begun /\ q.new = o.new /\ q.blocks = o.blocks /\ q.api = o.api
  BY DEF Outputs
<1>3. StartEvents(o) = p
  BY DEF StartEvents, x
<1>4. p = [o EXCEPT !.begun = TRUE, !.new = p.new]
  BY DEF Say, Outputs
<1> HIDE DEF q
<1>5. p \in Outputs /\ p.new = Append(o.new, x) /\ SameCalls(q, p) /\ p.blocks = o.blocks
  BY <1>1, <1>2, SayIs
<1> HIDE DEF p
<1>6. p.begun /\ p.api = o.api
  BY <1>2, <1>5 DEF SameCalls, SameHeader
<1>7. ASSUME NEW w \in Views, NEW exact, Agrees(w, o, exact)
      PROVE  Legal(w, x) /\ (Got(w, x) \in Views => Agrees(Got(w, x), p, exact))
  <2>1. ~w.begun /\ w.end = "" /\ DOMAIN w.blocks = DOMAIN o.blocks
    BY <1>7 DEF Agrees, Shows
  <2>2. Legal(w, x)
    BY <1>1, <2>1 DEF Legal, EventNames
  <2> DEFINE u == Got(w, x)
  <2>3. Gains(w, x, u)
    BY <1>1, <2>2, GotIs
  <2> HIDE DEF u
  <2>4. u.begun /\ u.end = "" /\ DOMAIN u.blocks = DOMAIN p.blocks /\ DOMAIN p.blocks = {}
    <3>1. DOMAIN o.blocks = {}
      <4>1. DOMAIN <<>> = {}
        OBVIOUS
      <4> QED BY <4>1
    <3> QED BY <1>1, <1>5, <2>1, <2>3, <3>1 DEF Gains
  <2> QED BY <1>6, <2>2, <2>4 DEF Agrees, Shows, u
<1> QED BY <1>3, <1>4, <1>5, <1>6, <1>1, <1>7, FollowsOneMore

(***************************************************************************)
(* Coherent outputs: open blocks are known, and calls have blocks of their *)
(* own.                                                                    *)
(***************************************************************************)

Current(o, b, kind) ==
    b # 0 => b \in DOMAIN o.blocks /\ o.blocks[b].open /\ o.blocks[b].kind = kind

IsTool(o, b) == o.blocks[b].kind = "tool"

\* The open text and the open reasoning are known.
ContentOK(o) ==
    /\ Current(o, o.text, "text")
    /\ Current(o, o.think, "thinking")
    /\ \A b \in DOMAIN o.blocks : o.blocks[b].open => IsTool(o, b) \/ b \in {o.text, o.think}

CallOK(o, t) ==
    /\ t.started => /\ t.blk \in DOMAIN o.blocks /\ IsTool(o, t.blk)
                    /\ o.blocks[t.blk].size = t.args
                    /\ o.blocks[t.blk].open => t.open \/ o.invalid
    /\ t.open => t.started /\ o.blocks[t.blk].open
    /\ ~t.started => t.args = 0 /\ t.task = 0 /\ ~t.taskSent

\* Every call that was started has a block of its own, and every tool block a call.
CallsOK(o) ==
    /\ \A p \in DOMAIN o.tools : CallOK(o, o.tools[p])
    /\ \A p, q \in DOMAIN o.tools :
         p # q => /\ o.tools[p].idx # o.tools[q].idx
                  /\ o.tools[p].started /\ o.tools[q].started => o.tools[p].blk # o.tools[q].blk
    /\ \A b \in DOMAIN o.blocks : IsTool(o, b) =>
         \E p \in DOMAIN o.tools : o.tools[p].started /\ o.tools[p].blk = b

Coherent(o) ==
    /\ ContentOK(o)
    /\ CallsOK(o)
    /\ o.invalid => o.api = "responses"

\* An epoch that has begun and can go on.
Fine(o) == o \in Outputs /\ o.begun /\ Coherent(o)

\* p is a later state of the epoch o.
Leads(o, p) ==
    /\ Fine(p) /\ Follows(o, p) /\ SameHeader(o, p)
    /\ DOMAIN o.blocks \subseteq DOMAIN p.blocks

LEMMA LeadsItself == ASSUME NEW o, Fine(o) PROVE Leads(o, o)
BY FollowsItself DEF Leads, SameHeader

LEMMA LeadsOn ==
    ASSUME NEW o, NEW p, NEW q, Leads(o, p), Leads(p, q) PROVE Leads(o, q)
BY FollowsOn DEF Leads, SameHeader

LEMMA CallsStay ==
    ASSUME NEW o, NEW p, CallsOK(o), p.tools = o.tools, p.invalid = o.invalid,
           \A b \in DOMAIN o.blocks :
              IsTool(o, b) => b \in DOMAIN p.blocks /\ p.blocks[b] = o.blocks[b],
           \A b \in DOMAIN p.blocks :
              IsTool(p, b) => b \in DOMAIN o.blocks /\ p.blocks[b] = o.blocks[b]
    PROVE  CallsOK(p)
<1>1. ASSUME NEW q \in DOMAIN p.tools PROVE CallOK(p, p.tools[q])
  <2>1. CallOK(o, o.tools[q])
    BY <1>1 DEF CallsOK
  <2> QED BY <2>1 DEF CallOK, IsTool
<1>2. \A b \in DOMAIN p.blocks : IsTool(p, b) => IsTool(o, b)
  BY DEF IsTool
<1> QED BY <1>1, <1>2 DEF CallsOK

\* A block that is no tool.
LEMMA NoTool ==
    ASSUME NEW b, NEW o, NEW p, DOMAIN p.blocks = DOMAIN o.blocks, p.tools = o.tools,
           p.invalid = o.invalid, CallsOK(o), b \in DOMAIN o.blocks, ~IsTool(o, b),
           p.blocks[b].kind = o.blocks[b].kind, OthersStay(o, p, b)
    PROVE  CallsOK(p)
<1>1. \A c \in DOMAIN o.blocks : IsTool(o, c) \/ IsTool(p, c) => p.blocks[c] = o.blocks[c]
  BY DEF OthersStay, IsTool
<1> QED BY <1>1, CallsStay

LEMMA StopContent ==
    ASSUME NEW o, Fine(o), NEW b \in DOMAIN o.blocks, o.blocks[b].open, ~IsTool(o, b)
    PROVE  LET p == StopBlock(o, b) IN
           /\ p \in Outputs /\ Follows(o, p) /\ SameCalls(o, p) /\ CallsOK(p)
           /\ p.text = o.text /\ p.think = o.think
           /\ DOMAIN p.blocks = DOMAIN o.blocks /\ OthersStay(o, p, b)
           /\ ~p.blocks[b].open
<1> DEFINE p == StopBlock(o, b)
<1>1. o \in Outputs /\ o.begun /\ CallsOK(o)
  BY DEF Fine, Coherent
<1>2. Follows(o, p)
  BY <1>1, StopFollows
<1>3. ~Malformed(o, b)
  BY DEF Malformed, IsTool
<1>4. /\ p \in Outputs /\ SameHeader(o, p) /\ p.tools = o.tools
      /\ p.text = o.text /\ p.think = o.think /\ p.invalid = o.invalid
      /\ DOMAIN p.blocks = DOMAIN o.blocks
      /\ p.blocks[b].kind = o.blocks[b].kind /\ ~p.blocks[b].open
      /\ OthersStay(o, p, b)
  BY <1>1, <1>3, StopBlockIs
<1> HIDE DEF p
<1>5. CallsOK(p)
  BY <1>1, <1>4, NoTool
<1> QED BY <1>2, <1>4, <1>5 DEF p, SameCalls

LEMMA StopTextIs ==
    ASSUME NEW o, Fine(o)
    PROVE  LET p == StopText(o) IN
           /\ Leads(o, p) /\ SameCalls(o, p) /\ p.text = 0 /\ p.think = o.think
           /\ DOMAIN p.blocks = DOMAIN o.blocks
<1> DEFINE p == StopText(o)
           q == StopBlock(o, o.text)
<1>1. CASE o.text = 0
  <2>1. p = o
    BY <1>1 DEF StopText
  <2> QED BY <1>1, <2>1, LeadsItself DEF SameCalls, SameHeader
<1>2. CASE o.text # 0
  <2>1. p = [q EXCEPT !.text = 0]
    BY <1>2 DEF StopText
  <2>2. o.text \in DOMAIN o.blocks /\ o.blocks[o.text].open /\ ~IsTool(o, o.text)
    BY <1>2 DEF Fine, Coherent, ContentOK, Current, IsTool
  <2>3. /\ q \in Outputs /\ Follows(o, q) /\ SameCalls(o, q) /\ CallsOK(q)
        /\ q.think = o.think
        /\ DOMAIN q.blocks = DOMAIN o.blocks /\ OthersStay(o, q, o.text)
        /\ ~q.blocks[o.text].open
    BY <2>2, StopContent
  <2> HIDE DEF q
  <2>4. /\ p \in Outputs /\ p.text = 0 /\ p.think = q.think /\ p.blocks = q.blocks
        /\ p.tools = q.tools /\ p.invalid = q.invalid /\ SameCalls(q, p) /\ p.new = q.new
    BY <2>1, <2>3, SetTextIs DEF SameCalls
  <2> HIDE DEF p
  <2>5. Follows(o, p)
    BY <2>3, <2>4, FollowsOn, SameStreamFollows DEF SameStream, SameCalls, SameHeader
  <2>6. CallsOK(p)
    BY <2>3, <2>4, CallsStay
  <2>7. ContentOK(p)
    <3>1. Current(p, p.text, "text")
      BY <2>4 DEF Current
    <3>2. Current(p, p.think, "thinking")
      BY <2>2, <2>3, <2>4 DEF Current, Fine, Coherent, ContentOK, OthersStay
    <3>3. \A b \in DOMAIN p.blocks : p.blocks[b].open => IsTool(p, b) \/ b \in {p.text, p.think}
      BY <2>3, <2>4 DEF Fine, Coherent, ContentOK, OthersStay, IsTool
    <3> QED BY <3>1, <3>2, <3>3 DEF ContentOK
  <2>8. SameCalls(o, p) /\ (p.invalid => p.api = "responses") /\ p.begun
    BY <2>3, <2>4 DEF SameCalls, SameHeader, Fine, Coherent
  <2>9. Fine(p)
    BY <2>4, <2>6, <2>7, <2>8 DEF Fine, Coherent
  <2> QED BY <2>3, <2>4, <2>5, <2>8, <2>9 DEF Leads, SameCalls, p
<1> QED BY <1>1, <1>2

LEMMA StopThinkIs ==
    ASSUME NEW o, Fine(o)
    PROVE  LET p == StopThink(o) IN
           /\ Leads(o, p) /\ SameCalls(o, p) /\ p.think = 0 /\ p.text = o.text
           /\ DOMAIN p.blocks = DOMAIN o.blocks
<1> DEFINE p == StopThink(o)
           q == StopBlock(o, o.think)
<1>1. CASE o.think = 0
  <2>1. p = o
    BY <1>1 DEF StopThink
  <2> QED BY <1>1, <2>1, LeadsItself DEF SameCalls, SameHeader
<1>2. CASE o.think # 0
  <2>1. p = [q EXCEPT !.think = 0]
    BY <1>2 DEF StopThink
  <2>2. o.think \in DOMAIN o.blocks /\ o.blocks[o.think].open /\ ~IsTool(o, o.think)
    BY <1>2 DEF Fine, Coherent, ContentOK, Current, IsTool
  <2>3. /\ q \in Outputs /\ Follows(o, q) /\ SameCalls(o, q) /\ CallsOK(q)
        /\ q.text = o.text
        /\ DOMAIN q.blocks = DOMAIN o.blocks /\ OthersStay(o, q, o.think)
        /\ ~q.blocks[o.think].open
    BY <2>2, StopContent
  <2> HIDE DEF q
  <2>4. /\ p \in Outputs /\ p.think = 0 /\ p.text = q.text /\ p.blocks = q.blocks
        /\ p.tools = q.tools /\ p.invalid = q.invalid /\ SameCalls(q, p) /\ p.new = q.new
    BY <2>1, <2>3, SetThinkIs DEF SameCalls
  <2> HIDE DEF p
  <2>5. Follows(o, p)
    BY <2>3, <2>4, FollowsOn, SameStreamFollows DEF SameStream, SameCalls, SameHeader
  <2>6. CallsOK(p)
    BY <2>3, <2>4, CallsStay
  <2>7. ContentOK(p)
    <3>1. Current(p, p.think, "thinking")
      BY <2>4 DEF Current
    <3>2. Current(p, p.text, "text")
      BY <2>2, <2>3, <2>4 DEF Current, Fine, Coherent, ContentOK, OthersStay
    <3>3. \A b \in DOMAIN p.blocks : p.blocks[b].open => IsTool(p, b) \/ b \in {p.think, p.text}
      BY <2>3, <2>4 DEF Fine, Coherent, ContentOK, OthersStay, IsTool
    <3> QED BY <3>1, <3>2, <3>3 DEF ContentOK
  <2>8. SameCalls(o, p) /\ (p.invalid => p.api = "responses") /\ p.begun
    BY <2>3, <2>4 DEF SameCalls, SameHeader, Fine, Coherent
  <2>9. Fine(p)
    BY <2>4, <2>6, <2>7, <2>8 DEF Fine, Coherent
  <2> QED BY <2>3, <2>4, <2>5, <2>8, <2>9 DEF Leads, SameCalls, p
<1> QED BY <1>1, <1>2

LEMMA StartContent ==
    ASSUME NEW o, Fine(o), NEW kind \in {"text", "thinking"}
    PROVE  LET p == StartBlock(o, kind)
               n == Len(o.blocks) + 1
           IN /\ p \in Outputs /\ Follows(o, p) /\ SameCalls(o, p) /\ CallsOK(p)
              /\ p.text = o.text /\ p.think = o.think
              /\ DOMAIN p.blocks = DOMAIN o.blocks \cup {n} /\ OthersStay(o, p, n)
              /\ n \notin DOMAIN o.blocks
              /\ p.blocks[n].open /\ p.blocks[n].kind = kind /\ n \in Nat \ {0}
              /\ Len(p.blocks) = n /\ p.blocks[n].size = 0
<1> DEFINE p == StartBlock(o, kind)
           n == Len(o.blocks) + 1
<1>1. o \in Outputs /\ o.begun /\ CallsOK(o) /\ kind \in BlockKinds
  BY DEF Fine, Coherent, BlockKinds
<1>2. Follows(o, p)
  BY <1>1, StartFollows
<1>3. /\ p \in Outputs
      /\ SameCalls(o, p) /\ p.text = o.text /\ p.think = o.think
      /\ n \in DOMAIN p.blocks /\ DOMAIN p.blocks = DOMAIN o.blocks \cup {n}
      /\ n \notin DOMAIN o.blocks /\ Len(p.blocks) = n
      /\ p.blocks[n].kind = kind /\ p.blocks[n].open /\ p.blocks[n].size = 0
      /\ OthersStay(o, p, n)
  BY <1>1, StartBlockIs
<1>4. n \in Nat \ {0}
  BY <1>1, OutputIs
<1> HIDE DEF p, n
<1>5. CallsOK(p)
  <2>1. \A b \in DOMAIN o.blocks : b \in DOMAIN p.blocks /\ p.blocks[b] = o.blocks[b]
    BY <1>3 DEF OthersStay
  <2>2. \A b \in DOMAIN p.blocks : IsTool(p, b) => b \in DOMAIN o.blocks /\ p.blocks[b] = o.blocks[b]
    BY <1>3 DEF OthersStay, IsTool
  <2>3. p.tools = o.tools /\ p.invalid = o.invalid
    BY <1>3 DEF SameCalls
  <2> QED BY <1>1, <2>1, <2>2, <2>3, CallsStay
<1> QED BY <1>2, <1>3, <1>4, <1>5 DEF p, n

\* A new block becomes the open text.
LEMMA EnsureTextIs ==
    ASSUME NEW o, Fine(o)
    PROVE  LET p == EnsureText(o) IN
           /\ Leads(o, p) /\ SameCalls(o, p) /\ p.text # 0 /\ p.think = 0
<1> DEFINE s == StopThink(o)
           n == Len(s.blocks) + 1
           q == StartBlock(s, "text")
           p == EnsureText(o)
<1>1. Leads(o, s) /\ SameCalls(o, s) /\ s.think = 0 /\ Fine(s)
  BY StopThinkIs DEF Leads
<1>2. CASE s.text # 0
  <2>1. p = s
    BY <1>2 DEF EnsureText
  <2> QED BY <1>1, <1>2, <2>1
<1>3. CASE s.text = 0
  <2>1. p = [q EXCEPT !.text = n]
    BY <1>3 DEF EnsureText
  <2> HIDE DEF s
  <2>2. /\ q \in Outputs /\ Follows(s, q) /\ SameCalls(s, q) /\ CallsOK(q)
        /\ q.text = s.text /\ q.think = s.think
        /\ DOMAIN q.blocks = DOMAIN s.blocks \cup {n} /\ OthersStay(s, q, n)
        /\ n \notin DOMAIN s.blocks
        /\ q.blocks[n].open /\ q.blocks[n].kind = "text" /\ n \in Nat \ {0}
    BY <1>1, StartContent
  <2> HIDE DEF q, n
  <2>3. /\ p \in Outputs /\ p.text = n /\ p.think = q.think /\ p.blocks = q.blocks
        /\ p.tools = q.tools /\ p.invalid = q.invalid /\ SameCalls(q, p) /\ p.new = q.new
    BY <2>1, <2>2, SetTextIs DEF SameCalls
  <2> HIDE DEF p
  <2>4. Follows(s, p)
    BY <2>2, <2>3, FollowsOn, SameStreamFollows DEF SameStream, SameCalls, SameHeader
  <2>5. CallsOK(p)
    BY <2>2, <2>3, CallsStay
  <2>6. ContentOK(p)
    <3>1. Current(p, p.text, "text")
      BY <2>2, <2>3 DEF Current
    <3>2. Current(p, p.think, "thinking")
      BY <1>1, <2>2, <2>3 DEF Current
    <3>3. \A b \in DOMAIN p.blocks : p.blocks[b].open => IsTool(p, b) \/ b \in {p.text, p.think}
      BY <1>1, <1>3, <2>2, <2>3 DEF Fine, Coherent, ContentOK, OthersStay, IsTool
    <3> QED BY <3>1, <3>2, <3>3 DEF ContentOK
  <2>7. SameCalls(s, p) /\ (p.invalid => p.api = "responses") /\ p.begun
    BY <1>1, <2>2, <2>3 DEF SameCalls, SameHeader, Fine, Coherent
  <2>8. Fine(p)
    BY <2>3, <2>5, <2>6, <2>7 DEF Fine, Coherent
  <2>9. Leads(s, p)
    BY <2>2, <2>3, <2>4, <2>7, <2>8 DEF Leads, SameCalls
  <2>10. SameCalls(o, p)
    BY <1>1, <2>7 DEF SameCalls, SameHeader
  <2>11. p.text # 0 /\ p.think = 0
    BY <1>1, <2>2, <2>3
  <2> QED BY <1>1, <2>9, <2>10, <2>11, LeadsOn DEF p
<1> QED BY <1>2, <1>3

\* A new block becomes the open reasoning.
LEMMA EnsureReasoningIs ==
    ASSUME NEW o, Fine(o)
    PROVE  LET p == EnsureReasoning(o) IN
           /\ Leads(o, p) /\ SameCalls(o, p) /\ p.think # 0 /\ p.text = 0
<1> DEFINE s == StopText(o)
           n == Len(s.blocks) + 1
           q == StartBlock(s, "thinking")
           p == EnsureReasoning(o)
<1>1. Leads(o, s) /\ SameCalls(o, s) /\ s.text = 0 /\ Fine(s)
  BY StopTextIs DEF Leads
<1>2. CASE s.think # 0
  <2>1. p = s
    BY <1>2 DEF EnsureReasoning
  <2> QED BY <1>1, <1>2, <2>1
<1>3. CASE s.think = 0
  <2>1. p = [q EXCEPT !.think = n]
    BY <1>3 DEF EnsureReasoning
  <2> HIDE DEF s
  <2>2. /\ q \in Outputs /\ Follows(s, q) /\ SameCalls(s, q) /\ CallsOK(q)
        /\ q.think = s.think /\ q.text = s.text
        /\ DOMAIN q.blocks = DOMAIN s.blocks \cup {n} /\ OthersStay(s, q, n)
        /\ n \notin DOMAIN s.blocks
        /\ q.blocks[n].open /\ q.blocks[n].kind = "thinking" /\ n \in Nat \ {0}
    BY <1>1, StartContent
  <2> HIDE DEF q, n
  <2>3. /\ p \in Outputs /\ p.think = n /\ p.text = q.text /\ p.blocks = q.blocks
        /\ p.tools = q.tools /\ p.invalid = q.invalid /\ SameCalls(q, p) /\ p.new = q.new
    BY <2>1, <2>2, SetThinkIs DEF SameCalls
  <2> HIDE DEF p
  <2>4. Follows(s, p)
    BY <2>2, <2>3, FollowsOn, SameStreamFollows DEF SameStream, SameCalls, SameHeader
  <2>5. CallsOK(p)
    BY <2>2, <2>3, CallsStay
  <2>6. ContentOK(p)
    <3>1. Current(p, p.think, "thinking")
      BY <2>2, <2>3 DEF Current
    <3>2. Current(p, p.text, "text")
      BY <1>1, <2>2, <2>3 DEF Current
    <3>3. \A b \in DOMAIN p.blocks : p.blocks[b].open => IsTool(p, b) \/ b \in {p.think, p.text}
      BY <1>1, <1>3, <2>2, <2>3 DEF Fine, Coherent, ContentOK, OthersStay, IsTool
    <3> QED BY <3>1, <3>2, <3>3 DEF ContentOK
  <2>7. SameCalls(s, p) /\ (p.invalid => p.api = "responses") /\ p.begun
    BY <1>1, <2>2, <2>3 DEF SameCalls, SameHeader, Fine, Coherent
  <2>8. Fine(p)
    BY <2>3, <2>5, <2>6, <2>7 DEF Fine, Coherent
  <2>9. Leads(s, p)
    BY <2>2, <2>3, <2>4, <2>7, <2>8 DEF Leads, SameCalls
  <2>10. SameCalls(o, p)
    BY <1>1, <2>7 DEF SameCalls, SameHeader
  <2>11. p.think # 0 /\ p.text = 0
    BY <1>1, <2>2, <2>3
  <2> QED BY <1>1, <2>9, <2>10, <2>11, LeadsOn DEF p
<1> QED BY <1>2, <1>3

LEMMA CloseContentIs ==
    ASSUME NEW o, Fine(o)
    PROVE  LET p == CloseContentBlocks(o) IN
           /\ Leads(o, p) /\ SameCalls(o, p) /\ p.text = 0 /\ p.think = 0
           /\ DOMAIN p.blocks = DOMAIN o.blocks
<1> DEFINE q == StopThink(o)
           p == StopText(q)
<1>1. Leads(o, q) /\ SameCalls(o, q) /\ q.think = 0 /\ DOMAIN q.blocks = DOMAIN o.blocks
  BY StopThinkIs
<1>2. CloseContentBlocks(o) = p
  BY DEF CloseContentBlocks
<1> HIDE DEF q
<1>3. Leads(q, p) /\ SameCalls(q, p) /\ p.text = 0 /\ p.think = q.think
      /\ DOMAIN p.blocks = DOMAIN q.blocks
  BY <1>1, StopTextIs DEF Leads
<1> HIDE DEF p
<1>4. SameCalls(o, p)
  BY <1>1, <1>3 DEF SameCalls, SameHeader
<1> QED BY <1>1, <1>2, <1>3, <1>4, LeadsOn

(***************************************************************************)
(* Text and reasoning.                                                     *)
(***************************************************************************)

LEMMA Alike ==
    ASSUME NEW o, Fine(o), NEW p \in Outputs, SameStream(o, p), SameCalls(o, p),
           p.text = o.text, p.think = o.think
    PROVE  Leads(o, p)
<1>1. Follows(o, p)
  BY SameStreamFollows
<1>2. CallsOK(p)
  BY CallsStay DEF Fine, Coherent, SameStream, SameCalls
<1>3. ContentOK(p)
  BY DEF Fine, Coherent, ContentOK, Current, IsTool, SameStream
<1>4. p.begun /\ (p.invalid => p.api = "responses") /\ DOMAIN p.blocks = DOMAIN o.blocks
  BY DEF Fine, Coherent, SameStream, SameCalls
<1> QED BY <1>1, <1>2, <1>3, <1>4 DEF Leads, Fine, Coherent, SameCalls

LEMMA GrowContent ==
    ASSUME NEW o, Fine(o), NEW b \in {o.text, o.think}, b # 0
    PROVE  LET p == Delta(o, b, 1) IN
           /\ Leads(o, p) /\ SameCalls(o, p) /\ p.text = o.text /\ p.think = o.think
           /\ p \in Outputs /\ b \in DOMAIN p.blocks
<1> DEFINE p == Delta(o, b, 1)
<1>1. o \in Outputs /\ o.begun /\ CallsOK(o) /\ ContentOK(o)
  BY DEF Fine, Coherent
<1>2. b \in DOMAIN o.blocks /\ o.blocks[b].open /\ ~IsTool(o, b)
  BY <1>1 DEF ContentOK, Current, IsTool
<1>3. Follows(o, p)
  BY <1>1, <1>2, DeltaFollows
<1>4. /\ p \in Outputs /\ SameCalls(o, p) /\ p.text = o.text /\ p.think = o.think
      /\ DOMAIN p.blocks = DOMAIN o.blocks
      /\ p.blocks[b].kind = o.blocks[b].kind /\ p.blocks[b].open = o.blocks[b].open
      /\ OthersStay(o, p, b)
  <2>1. 1 \in Nat
    OBVIOUS
  <2> HIDE DEF p
  <2> QED BY <1>1, <1>2, <2>1, DeltaIs, ZenonT(60) DEF p
<1> HIDE DEF p
<1>5. CallsOK(p)
  BY <1>1, <1>2, <1>4, NoTool DEF SameCalls
<1>6. \A c \in DOMAIN o.blocks :
        p.blocks[c].kind = o.blocks[c].kind /\ (p.blocks[c].open <=> o.blocks[c].open)
  BY <1>4 DEF OthersStay
<1>7. ContentOK(p)
  BY <1>1, <1>4, <1>6 DEF ContentOK, Current, IsTool
<1>8. p.begun /\ (p.invalid => p.api = "responses")
  BY <1>4 DEF SameCalls, SameHeader, Fine, Coherent
<1>9. Fine(p)
  BY <1>4, <1>5, <1>7, <1>8 DEF Fine, Coherent
<1> QED BY <1>2, <1>3, <1>4, <1>9 DEF Leads, SameCalls, p

LEMMA CountIs ==
    ASSUME NEW o \in Outputs
    PROVE  /\ LET p == [o EXCEPT !.texts = @ + 1] IN
              p \in Outputs /\ SameCalls(o, p) /\ SameStream(o, p) /\ p.text = o.text /\ p.think = o.think
           /\ LET p == [o EXCEPT !.thoughts = @ + 1] IN
              p \in Outputs /\ SameCalls(o, p) /\ SameStream(o, p) /\ p.text = o.text /\ p.think = o.think
           /\ LET p == [o EXCEPT !.reasoned = TRUE] IN
              p \in Outputs /\ SameCalls(o, p) /\ SameStream(o, p) /\ p.text = o.text /\ p.think = o.think
<1>1. LET p == [o EXCEPT !.texts = @ + 1] IN
      p \in Outputs /\ SameCalls(o, p) /\ SameStream(o, p) /\ p.text = o.text /\ p.think = o.think
  <2> DEFINE n == o.texts + 1
             p == [o EXCEPT !.texts = n]
  <2>1. n \in Nat
    <3>1. o.texts \in Nat
      BY DEF Outputs
    <3> QED BY <3>1
  <2> HIDE DEF n
  <2>2. p \in Outputs /\ SameCalls(o, p) /\ SameStream(o, p) /\ p.text = o.text /\ p.think = o.think
    BY <2>1 DEF Outputs, SameCalls, SameHeader, SameStream
  <2>3. [o EXCEPT !.texts = @ + 1] = p
    BY DEF n
  <2> HIDE DEF p
  <2> QED BY <2>2, <2>3
<1>2. LET p == [o EXCEPT !.thoughts = @ + 1] IN
      p \in Outputs /\ SameCalls(o, p) /\ SameStream(o, p) /\ p.text = o.text /\ p.think = o.think
  <2> DEFINE n == o.thoughts + 1
             p == [o EXCEPT !.thoughts = n]
  <2>1. n \in Nat
    <3>1. o.thoughts \in Nat
      BY DEF Outputs
    <3> QED BY <3>1
  <2> HIDE DEF n
  <2>2. p \in Outputs /\ SameCalls(o, p) /\ SameStream(o, p) /\ p.text = o.text /\ p.think = o.think
    BY <2>1 DEF Outputs, SameCalls, SameHeader, SameStream
  <2>3. [o EXCEPT !.thoughts = @ + 1] = p
    BY DEF n
  <2> HIDE DEF p
  <2> QED BY <2>2, <2>3
<1>3. LET p == [o EXCEPT !.reasoned = TRUE] IN
      p \in Outputs /\ SameCalls(o, p) /\ SameStream(o, p) /\ p.text = o.text /\ p.think = o.think
  BY DEF Outputs, SameCalls, SameHeader, SameStream
<1> QED BY <1>1, <1>2, <1>3

LEMMA SameCallsOn ==
    ASSUME NEW o, NEW p, NEW q, SameCalls(o, p), SameCalls(p, q) PROVE SameCalls(o, q)
BY DEF SameCalls, SameHeader

LEMMA EmitTextIs ==
    ASSUME NEW o, Fine(o)
    PROVE  LET p == EmitText(o) IN
           /\ Leads(o, p) /\ SameCalls(o, p) /\ p.text # 0 /\ p.think = 0
           /\ p.text \in DOMAIN p.blocks
<1> DEFINE e == EnsureText(o)
           d == Delta(e, e.text, 1)
           p == EmitText(o)
<1>1. Leads(o, e) /\ SameCalls(o, e) /\ e.text # 0 /\ e.think = 0 /\ Fine(e)
  BY EnsureTextIs DEF Leads
<1>2. p = [d EXCEPT !.texts = @ + 1]
  BY DEF EmitText
<1> HIDE DEF e
<1>3. /\ Leads(e, d) /\ SameCalls(e, d) /\ d.text = e.text /\ d.think = e.think
      /\ d \in Outputs /\ Fine(d) /\ e.text \in DOMAIN d.blocks
  BY <1>1, GrowContent DEF Leads
<1> HIDE DEF d
<1>4. p \in Outputs /\ SameCalls(d, p) /\ SameStream(d, p) /\ p.text = d.text /\ p.think = d.think
  BY <1>2, <1>3, CountIs
<1> HIDE DEF p
<1>5. Leads(d, p)
  BY <1>3, <1>4, Alike
<1>6. p.text \in DOMAIN p.blocks
  BY <1>3, <1>4 DEF SameStream
<1> QED BY <1>1, <1>3, <1>4, <1>5, <1>6, LeadsOn, SameCallsOn DEF p

LEMMA EmitReasoningIs ==
    ASSUME NEW o, Fine(o)
    PROVE  LET p == EmitReasoning(o) IN
           /\ Leads(o, p) /\ SameCalls(o, p) /\ p.think # 0 /\ p.text = 0
           /\ p.think \in DOMAIN p.blocks
<1> DEFINE e == EnsureReasoning(o)
           d == Delta(e, e.think, 1)
           p == EmitReasoning(o)
<1>1. Leads(o, e) /\ SameCalls(o, e) /\ e.think # 0 /\ e.text = 0 /\ Fine(e)
  BY EnsureReasoningIs DEF Leads
<1>2. p = [d EXCEPT !.thoughts = @ + 1]
  BY DEF EmitReasoning
<1> HIDE DEF e
<1>3. /\ Leads(e, d) /\ SameCalls(e, d) /\ d.text = e.text /\ d.think = e.think
      /\ d \in Outputs /\ Fine(d) /\ e.think \in DOMAIN d.blocks
  BY <1>1, GrowContent DEF Leads
<1> HIDE DEF d
<1>4. p \in Outputs /\ SameCalls(d, p) /\ SameStream(d, p) /\ p.text = d.text /\ p.think = d.think
  BY <1>2, <1>3, CountIs
<1> HIDE DEF p
<1>5. Leads(d, p)
  BY <1>3, <1>4, Alike
<1>6. p.think \in DOMAIN p.blocks
  BY <1>3, <1>4 DEF SameStream
<1> QED BY <1>1, <1>3, <1>4, <1>5, <1>6, LeadsOn, SameCallsOn DEF p

LEMMA NativeReasoningIs ==
    ASSUME NEW o, Fine(o), NEW n
    PROVE  LET p == NativeReasoning(o, n) IN Leads(o, p) /\ SameCalls(o, p)
<1> DEFINE q == [o EXCEPT !.reasoned = TRUE]
<1>1. q \in Outputs /\ SameCalls(o, q) /\ SameStream(o, q) /\ q.text = o.text /\ q.think = o.think
  BY CountIs DEF Fine
<1>2. NativeReasoning(o, n) \in {EmitReasoning(q), o, EnsureReasoning(q)}
  BY DEF NativeReasoning
<1> HIDE DEF q
<1>3. Leads(o, q) /\ Fine(q)
  BY <1>1, Alike DEF Leads
<1>4. Leads(o, EmitReasoning(q)) /\ SameCalls(o, EmitReasoning(q))
  BY <1>1, <1>3, EmitReasoningIs, LeadsOn, SameCallsOn
<1>5. Leads(o, EnsureReasoning(q)) /\ SameCalls(o, EnsureReasoning(q))
  BY <1>1, <1>3, EnsureReasoningIs, LeadsOn, SameCallsOn
<1>6. Leads(o, o) /\ SameCalls(o, o)
  BY LeadsItself DEF SameCalls, SameHeader
<1> QED BY <1>2, <1>4, <1>5, <1>6

(***************************************************************************)
(* Calls: one of them changes at a time.                                   *)
(***************************************************************************)

\* Of the calls only one changes, and not its index.
Only(o, p, at) ==
    /\ DOMAIN p.tools = DOMAIN o.tools
    /\ \A k \in DOMAIN o.tools : k # at => p.tools[k] = o.tools[k]
    /\ p.tools[at].idx = o.tools[at].idx

LEMMA PositionIs ==
    ASSUME NEW o, NEW i, Positions(o, i) # {}
    PROVE  Position(o, i) \in DOMAIN o.tools /\ o.tools[Position(o, i)].idx = i
BY DEF Position, Positions

LEMMA PositionAt ==
    ASSUME NEW o, CallsOK(o), NEW at \in DOMAIN o.tools
    PROVE  Positions(o, o.tools[at].idx) # {} /\ Position(o, o.tools[at].idx) = at
<1>1. Positions(o, o.tools[at].idx) # {}
  BY DEF Positions
<1> QED BY <1>1, PositionIs DEF CallsOK

\* Setting one call, nothing of the stream.
LEMMA SetToolIs ==
    ASSUME NEW o \in Outputs, NEW at \in DOMAIN o.tools, NEW r \in ToolRecs
    PROVE  LET p == [o EXCEPT !.tools[at] = r] IN
           /\ p \in Outputs /\ SameHeader(o, p) /\ SameStream(o, p)
           /\ p.invalid = o.invalid /\ p.text = o.text /\ p.think = o.think
           /\ p.tools[at] = r /\ DOMAIN p.tools = DOMAIN o.tools
           /\ \A k \in DOMAIN o.tools : k # at => p.tools[k] = o.tools[k]
<1> DEFINE T == [o.tools EXCEPT ![at] = r]
           p == [o EXCEPT !.tools = T]
<1>1. o.tools \in Seq(ToolRecs)
  BY DEF Outputs
<1>2. T \in Seq(ToolRecs) /\ DOMAIN T = DOMAIN o.tools /\ T[at] = r
      /\ \A k \in DOMAIN o.tools : k # at => T[k] = o.tools[k]
  BY <1>1
<1> HIDE DEF T
<1>3. /\ p \in Outputs /\ SameHeader(o, p) /\ SameStream(o, p)
      /\ p.invalid = o.invalid /\ p.text = o.text /\ p.think = o.think
      /\ p.tools = T
  BY <1>2 DEF Outputs, SameHeader, SameStream
<1>4. p = [o EXCEPT !.tools[at] = r]
  BY DEF T
<1> HIDE DEF p
<1> QED BY <1>2, <1>3, <1>4

LEMMA NewToolIs ==
    ASSUME NEW i \in Nat
    PROVE  /\ NewTool(i) \in ToolRecs /\ NewTool(i).idx = i /\ ~NewTool(i).started
           /\ ~NewTool(i).open /\ NewTool(i).args = 0 /\ NewTool(i).task = 0
           /\ ~NewTool(i).taskSent /\ NewTool(i).early = 0
BY DEF NewTool, ToolRecs

\* A call that was not seen before is added at the end.
LEMMA EnsureToolIs ==
    ASSUME NEW o, Fine(o), NEW i \in Nat
    PROVE  LET p == EnsureTool(o, i) IN
           /\ Leads(o, p) /\ Positions(p, i) # {} /\ p.text = o.text /\ p.think = o.think
           /\ p.invalid = o.invalid /\ p.blocks = o.blocks
           /\ Positions(o, i) # {} => p = o
           /\ Positions(o, i) = {} =>
                /\ p.tools = Append(o.tools, NewTool(i)) /\ Position(p, i) = Len(o.tools) + 1
                /\ Len(p.tools) = Len(o.tools) + 1 /\ p.tools[Len(o.tools) + 1] = NewTool(i)
                /\ DOMAIN p.tools = DOMAIN o.tools \cup {Len(o.tools) + 1}
                /\ Len(o.tools) + 1 \notin DOMAIN o.tools
                /\ \A k \in DOMAIN o.tools : p.tools[k] = o.tools[k]
<1> DEFINE p == EnsureTool(o, i)
           n == Len(o.tools) + 1
           T == Append(o.tools, NewTool(i))
<1>1. CASE Positions(o, i) # {}
  <2>1. p = o
    BY <1>1 DEF EnsureTool
  <2> QED BY <1>1, <2>1, LeadsItself
<1>2. CASE Positions(o, i) = {}
  <2>1. p = [o EXCEPT !.tools = T]
    BY <1>2 DEF EnsureTool
  <2>2. o.tools \in Seq(ToolRecs)
    BY DEF Outputs, Fine
  <2>3. T \in Seq(ToolRecs) /\ Len(T) = n /\ T[n] = NewTool(i)
        /\ \A k \in 1..Len(o.tools) : T[k] = o.tools[k]
    <3> DEFINE t == NewTool(i)
    <3>1. t \in ToolRecs
      BY NewToolIs
    <3> HIDE DEF t
    <3>2. Append(o.tools, t) \in Seq(ToolRecs) /\ Len(Append(o.tools, t)) = n
          /\ Append(o.tools, t)[n] = t
          /\ \A k \in 1..Len(o.tools) : Append(o.tools, t)[k] = o.tools[k]
      BY <2>2, <3>1
    <3> QED BY <3>2 DEF t
  <2>4. DOMAIN o.tools = 1..Len(o.tools) /\ DOMAIN T = 1..n /\ n \notin 1..Len(o.tools)
        /\ 1..n = 1..Len(o.tools) \cup {n}
    BY <2>2, <2>3
  <2> HIDE DEF T, n
  <2>5. /\ p \in Outputs /\ SameHeader(o, p) /\ SameStream(o, p)
        /\ p.invalid = o.invalid /\ p.text = o.text /\ p.think = o.think
        /\ p.tools = T
    BY <2>1, <2>3 DEF Outputs, SameHeader, SameStream, Fine
  <2> HIDE DEF p
  <2>6. Follows(o, p)
    BY <2>5, SameStreamFollows
  <2>7. p.blocks = o.blocks /\ p.begun = o.begun /\ p.api = o.api
    BY <2>5 DEF SameStream
  <2>8. CallsOK(o) /\ ContentOK(o) /\ (o.invalid => o.api = "responses") /\ o.begun
    BY DEF Fine, Coherent
  <2>9. CallsOK(p)
    <3>1. \A k \in DOMAIN o.tools : CallOK(p, p.tools[k])
      BY <2>3, <2>4, <2>5, <2>7, <2>8 DEF CallsOK, CallOK, IsTool
    <3>2. CallOK(p, p.tools[n])
      BY <2>3, <2>5, NewToolIs DEF CallOK
    <3>3. \A k \in DOMAIN o.tools : p.tools[k] = o.tools[k] /\ p.tools[k].idx # i
      BY <1>2, <2>3, <2>4, <2>5 DEF Positions
    <3>4. DOMAIN p.tools = DOMAIN o.tools \cup {n}
      BY <2>4, <2>5
    <3>5. p.tools[n].idx = i /\ ~p.tools[n].started
      BY <2>3, <2>5, NewToolIs
    <3>6. \A k, l \in DOMAIN p.tools :
            k # l => /\ p.tools[k].idx # p.tools[l].idx
                     /\ p.tools[k].started /\ p.tools[l].started => p.tools[k].blk # p.tools[l].blk
      BY <2>8, <3>3, <3>4, <3>5 DEF CallsOK
    <3>7. \A b \in DOMAIN p.blocks : IsTool(p, b) =>
            \E k \in DOMAIN p.tools : p.tools[k].started /\ p.tools[k].blk = b
      BY <2>7, <2>8, <3>3, <3>4 DEF CallsOK, IsTool
    <3> QED BY <3>1, <3>2, <3>4, <3>6, <3>7 DEF CallsOK
  <2>10. ContentOK(p)
    BY <2>5, <2>7, <2>8 DEF ContentOK, Current, IsTool
  <2>11. Leads(o, p)
    BY <2>5, <2>6, <2>7, <2>8, <2>9, <2>10 DEF Leads, Fine, Coherent
  <2>12. Positions(p, i) # {} /\ Position(p, i) = n
    <3>1. n \in DOMAIN p.tools /\ p.tools[n].idx = i
      BY <2>3, <2>4, <2>5, NewToolIs
    <3> QED BY <2>9, <3>1, PositionAt
  <2>13. /\ p.tools = Append(o.tools, NewTool(i)) /\ Len(p.tools) = n /\ p.tools[n] = NewTool(i)
         /\ DOMAIN p.tools = DOMAIN o.tools \cup {n}
         /\ n \notin DOMAIN o.tools
         /\ \A k \in DOMAIN o.tools : p.tools[k] = o.tools[k]
    BY <2>3, <2>4, <2>5 DEF T
  <2> QED BY <1>2, <2>5, <2>7, <2>11, <2>12, <2>13 DEF n, p
<1> QED BY <1>1, <1>2

\* A call and its block change together.
LEMMA CallChanges ==
    ASSUME NEW o, NEW p, Fine(o), NEW at \in DOMAIN o.tools, Only(o, p, at),
           o.invalid => p.invalid, p.text = o.text, p.think = o.think,
           o.tools[at].started, p.tools[at].started, p.tools[at].blk = o.tools[at].blk,
           DOMAIN p.blocks = DOMAIN o.blocks, OthersStay(o, p, o.tools[at].blk),
           IsTool(p, o.tools[at].blk), CallOK(p, p.tools[at])
    PROVE  CallsOK(p) /\ ContentOK(p)
<1> DEFINE b == o.tools[at].blk
<1>1. CallsOK(o) /\ ContentOK(o)
  BY DEF Fine, Coherent
<1>2. b \in DOMAIN o.blocks /\ IsTool(o, b)
  BY <1>1 DEF CallsOK, CallOK
<1> HIDE DEF b
<1>3. \A c \in DOMAIN o.blocks : c # b => p.blocks[c] = o.blocks[c]
  BY DEF OthersStay, b
<1>4. \A c \in DOMAIN o.blocks : IsTool(p, c) <=> IsTool(o, c)
  BY <1>2, <1>3 DEF IsTool, b
<1>5. ASSUME NEW k \in DOMAIN o.tools, k # at PROVE CallOK(p, p.tools[k])
  <2>1. p.tools[k] = o.tools[k] /\ CallOK(o, o.tools[k])
    BY <1>1, <1>5 DEF Only, CallsOK
  <2>2. o.tools[k].started => o.tools[k].blk # b /\ o.tools[k].blk \in DOMAIN o.blocks
    BY <1>1, <1>5 DEF CallsOK, CallOK, b
  <2>3. o.tools[k].started => p.blocks[o.tools[k].blk] = o.blocks[o.tools[k].blk]
    BY <1>3, <2>2
  <2> QED BY <1>4, <2>1, <2>2, <2>3 DEF CallOK
<1>6. \A k, l \in DOMAIN p.tools :
        k # l => /\ p.tools[k].idx # p.tools[l].idx
                 /\ p.tools[k].started /\ p.tools[l].started => p.tools[k].blk # p.tools[l].blk
  BY <1>1 DEF Only, CallsOK
<1>7. \A c \in DOMAIN p.blocks : IsTool(p, c) =>
        \E k \in DOMAIN p.tools : p.tools[k].started /\ p.tools[k].blk = c
  <2> SUFFICES ASSUME NEW c \in DOMAIN p.blocks, IsTool(p, c)
               PROVE  \E k \in DOMAIN p.tools : p.tools[k].started /\ p.tools[k].blk = c
    OBVIOUS
  <2>1. PICK k \in DOMAIN o.tools : o.tools[k].started /\ o.tools[k].blk = c
    BY <1>1, <1>4 DEF CallsOK
  <2>2. k \in DOMAIN p.tools /\ p.tools[k].started /\ p.tools[k].blk = c
    BY <2>1 DEF Only
  <2> QED BY <2>2
<1>8. CallsOK(p)
  BY <1>5, <1>6, <1>7 DEF CallsOK, Only
<1>9. ContentOK(p)
  <2>1. \A c \in DOMAIN o.blocks : ~IsTool(o, c) => p.blocks[c] = o.blocks[c]
    BY <1>2, <1>3
  <2>2. ASSUME NEW c, NEW kind \in {"text", "thinking"}, Current(o, c, kind) PROVE Current(p, c, kind)
    BY <2>1, <2>2 DEF Current, IsTool
  <2>3. Current(p, p.text, "text") /\ Current(p, p.think, "thinking")
    BY <1>1, <2>2 DEF ContentOK
  <2> QED BY <1>1, <1>4, <2>1, <2>3 DEF ContentOK
<1> QED BY <1>8, <1>9

LEMMA ToolIs ==
    ASSUME NEW o \in Outputs, NEW at \in DOMAIN o.tools
    PROVE  LET t == o.tools[at] IN
           /\ t \in ToolRecs /\ t.idx \in Nat /\ t.named \in BOOLEAN /\ t.started \in BOOLEAN
           /\ t.open \in BOOLEAN /\ t.blk \in Nat /\ t.args \in Nat /\ t.task \in Nat
           /\ t.taskSent \in BOOLEAN /\ t.early \in Nat
BY OutputIs DEF ToolRecs

LEMMA StartToolIs ==
    ASSUME NEW o, Fine(o), NEW i \in Nat, Positions(o, i) # {}, ~Tool(o, i).started
    PROVE  LET p == StartTool(o, i)
               at == Position(o, i)
               t == o.tools[at]
               u == p.tools[at]
           IN /\ Leads(o, p) /\ Only(o, p, at) /\ p.invalid = o.invalid
              /\ p.text = o.text /\ p.think = o.think /\ at \in DOMAIN o.tools
              /\ u.started /\ u.open /\ u.args = 0 /\ u.task = 0 /\ ~u.taskSent /\ u.early = t.early
<1> DEFINE p == StartTool(o, i)
           at == Position(o, i)
           t == o.tools[at]
           n == Len(o.blocks) + 1
           r == [t EXCEPT !.started = TRUE, !.open = TRUE, !.named = TRUE, !.blk = n]
           q == [o EXCEPT !.tools[at] = r]
           x == Event("open", n, "tool", 0)
<1>1. o \in Outputs /\ o.begun /\ CallsOK(o) /\ ContentOK(o) /\ (o.invalid => o.api = "responses")
  BY DEF Fine, Coherent
<1>2. at \in DOMAIN o.tools /\ t.idx = i /\ ~t.started
  BY PositionIs DEF Tool
<1>3. t \in ToolRecs /\ n \in Nat /\ t.idx \in Nat
  BY <1>1, <1>2, ToolIs, OutputIs
<1>4. CallOK(o, t)
  BY <1>1, <1>2 DEF CallsOK
<1>5. p = StartBlock(q, "tool")
  BY DEF StartTool
<1> HIDE DEF t, at, n
<1>6. /\ r \in ToolRecs /\ r.started /\ r.open /\ r.blk = n /\ r.idx = t.idx /\ r.args = t.args
      /\ r.task = t.task /\ (r.taskSent <=> t.taskSent) /\ r.early = t.early
  BY <1>3 DEF ToolRecs
<1> HIDE DEF r
<1>7. /\ q \in Outputs /\ SameHeader(o, q) /\ SameStream(o, q)
      /\ q.invalid = o.invalid /\ q.text = o.text /\ q.think = o.think
      /\ q.tools[at] = r /\ DOMAIN q.tools = DOMAIN o.tools
      /\ \A k \in DOMAIN o.tools : k # at => q.tools[k] = o.tools[k]
  BY <1>1, <1>2, <1>6, SetToolIs
<1> HIDE DEF q
<1>8. Len(q.blocks) + 1 = n /\ q.begun
  BY <1>1, <1>7 DEF SameStream, n
<1>9. Follows(o, p)
  <2>1. "tool" \in BlockKinds
    BY DEF BlockKinds
  <2> QED BY <1>5, <1>7, <1>8, <2>1, SameStreamFollows, StartFollows, FollowsOn
<1>10. /\ p \in Outputs
       /\ SameCalls(q, p) /\ p.text = q.text /\ p.think = q.think
       /\ n \in DOMAIN p.blocks /\ DOMAIN p.blocks = DOMAIN q.blocks \cup {n}
       /\ n \notin DOMAIN q.blocks
       /\ p.blocks[n].kind = "tool" /\ p.blocks[n].open /\ p.blocks[n].size = 0
       /\ OthersStay(q, p, n)
  <2>1. "tool" \in BlockKinds
    BY DEF BlockKinds
  <2> QED BY <1>5, <1>7, <1>8, <2>1, StartBlockIs
<1> HIDE DEF p
<1>11. /\ SameHeader(o, p) /\ p.invalid = o.invalid /\ p.text = o.text /\ p.think = o.think
       /\ DOMAIN p.blocks = DOMAIN o.blocks \cup {n} /\ n \notin DOMAIN o.blocks
       /\ \A c \in DOMAIN o.blocks : p.blocks[c] = o.blocks[c]
       /\ p.tools[at] = r /\ DOMAIN p.tools = DOMAIN o.tools
       /\ \A k \in DOMAIN o.tools : k # at => p.tools[k] = o.tools[k]
  <2>1. SameHeader(o, p)
    BY <1>7, <1>10 DEF SameHeader, SameCalls
  <2>2. q.blocks = o.blocks
    BY <1>7 DEF SameStream
  <2>3. \A c \in DOMAIN o.blocks : p.blocks[c] = o.blocks[c]
    BY <1>10, <2>2 DEF OthersStay
  <2> QED BY <1>7, <1>10, <2>1, <2>2, <2>3 DEF SameCalls
<1>12. t.args = 0 /\ t.task = 0 /\ ~t.taskSent
  BY <1>2, <1>4 DEF CallOK, t
<1>13. CallOK(p, p.tools[at])
  BY <1>6, <1>10, <1>11, <1>12 DEF CallOK, IsTool
<1>14. ASSUME NEW k \in DOMAIN o.tools, k # at PROVE CallOK(p, p.tools[k])
  <2>1. p.tools[k] = o.tools[k] /\ CallOK(o, o.tools[k])
    BY <1>1, <1>11, <1>14 DEF CallsOK
  <2> QED BY <1>11, <2>1 DEF CallOK, IsTool
<1>15. \A k, l \in DOMAIN p.tools :
        k # l => /\ p.tools[k].idx # p.tools[l].idx
                 /\ p.tools[k].started /\ p.tools[l].started => p.tools[k].blk # p.tools[l].blk
  <2>1. \A k \in DOMAIN o.tools : o.tools[k].started => o.tools[k].blk # n
    BY <1>1, <1>11 DEF CallsOK, CallOK
  <2>2. \A k \in DOMAIN p.tools : p.tools[k].idx = o.tools[k].idx
    BY <1>6, <1>11 DEF t
  <2> QED BY <1>1, <1>6, <1>11, <2>1, <2>2 DEF CallsOK
<1>16. \A c \in DOMAIN p.blocks : IsTool(p, c) =>
        \E k \in DOMAIN p.tools : p.tools[k].started /\ p.tools[k].blk = c
  <2> SUFFICES ASSUME NEW c \in DOMAIN p.blocks, IsTool(p, c)
               PROVE  \E k \in DOMAIN p.tools : p.tools[k].started /\ p.tools[k].blk = c
    OBVIOUS
  <2>1. CASE c = n
    BY <1>2, <1>6, <1>11, <2>1
  <2>2. CASE c # n
    <3>1. c \in DOMAIN o.blocks /\ IsTool(o, c)
      BY <1>11, <2>2 DEF IsTool
    <3>2. PICK k \in DOMAIN o.tools : o.tools[k].started /\ o.tools[k].blk = c
      BY <1>1, <3>1 DEF CallsOK
    <3>3. k # at
      BY <1>2, <3>2 DEF t
    <3> QED BY <1>11, <3>2, <3>3
  <2> QED BY <2>1, <2>2
<1>17. CallsOK(p)
  BY <1>11, <1>13, <1>14, <1>15, <1>16 DEF CallsOK
<1>18. ContentOK(p)
  BY <1>1, <1>10, <1>11 DEF ContentOK, Current, IsTool
<1>19. Leads(o, p)
  <2>1. p.begun /\ (p.invalid => p.api = "responses")
    BY <1>1, <1>11 DEF SameHeader
  <2>2. Fine(p)
    BY <1>10, <1>17, <1>18, <2>1 DEF Fine, Coherent
  <2> QED BY <1>9, <1>11, <2>2 DEF Leads
<1>20. Only(o, p, at)
  BY <1>6, <1>11 DEF Only, t
<1> QED BY <1>2, <1>6, <1>11, <1>12, <1>19, <1>20 DEF p, at, t

\* A call of p that has grown by n since o.
Grown(t, u, n) ==
    /\ u.idx = t.idx /\ u.blk = t.blk /\ u.args = t.args + n /\ u.task = t.task /\ u.early = t.early
    /\ u.started <=> t.started
    /\ u.open <=> t.open
    /\ u.taskSent <=> t.taskSent

LEMMA EmitToolDeltaIs ==
    ASSUME NEW o, Fine(o), NEW i \in Nat, Positions(o, i) # {}, Tool(o, i).open,
           NEW n \in Nat \ {0}
    PROVE  LET p == EmitToolDelta(o, i, n)
               at == Position(o, i)
           IN /\ Leads(o, p) /\ Only(o, p, at) /\ p.invalid = o.invalid
              /\ p.text = o.text /\ p.think = o.think /\ at \in DOMAIN o.tools
              /\ Grown(o.tools[at], p.tools[at], n)
              /\ DOMAIN p.blocks = DOMAIN o.blocks
<1> DEFINE p == EmitToolDelta(o, i, n)
           at == Position(o, i)
           t == o.tools[at]
           b == t.blk
           r == [t EXCEPT !.args = @ + n]
           q == [o EXCEPT !.tools[at] = r]
           s == [q EXCEPT !.blocks[b].size = @ + n]
           x == Event("", b, "tool", 0)
<1>1. o \in Outputs /\ o.begun /\ CallsOK(o) /\ ContentOK(o) /\ (o.invalid => o.api = "responses")
  BY DEF Fine, Coherent
<1>2. at \in DOMAIN o.tools /\ t.idx = i /\ t.open
  BY PositionIs DEF Tool
<1>3. t \in ToolRecs /\ n \in Nat
  BY <1>1, <1>2, ToolIs
<1>4. CallOK(o, t)
  BY <1>1, <1>2 DEF CallsOK
<1>5. p = IF o.api = "messages" THEN Delta(q, b, n) ELSE Say(s, x)
  <2>1. [o EXCEPT !.tools[at].args = @ + n] = q
    OBVIOUS
  <2> QED BY <2>1 DEF EmitToolDelta
<1> HIDE DEF t, at
<1>6. r \in ToolRecs /\ Grown(t, r, n)
  BY <1>3 DEF ToolRecs, Grown
<1> HIDE DEF r
<1>7. /\ q \in Outputs /\ SameHeader(o, q) /\ SameStream(o, q)
      /\ q.invalid = o.invalid /\ q.text = o.text /\ q.think = o.think
      /\ q.tools[at] = r /\ DOMAIN q.tools = DOMAIN o.tools
      /\ \A k \in DOMAIN o.tools : k # at => q.tools[k] = o.tools[k]
  BY <1>1, <1>2, <1>6, SetToolIs DEF t
<1> HIDE DEF q
<1>8. /\ q.blocks = o.blocks /\ q.begun = o.begun /\ q.api = o.api /\ q.new = o.new
      /\ b \in DOMAIN o.blocks /\ IsTool(o, b) /\ o.blocks[b].open /\ o.blocks[b].size = t.args
  BY <1>2, <1>4, <1>7 DEF SameStream, CallOK, t
<1> HIDE DEF b
<1>9. /\ Follows(o, p) /\ p \in Outputs /\ SameCalls(q, p) /\ p.text = q.text /\ p.think = q.think
      /\ DOMAIN p.blocks = DOMAIN o.blocks
      /\ p.blocks[b].kind = o.blocks[b].kind /\ (p.blocks[b].open <=> o.blocks[b].open)
      /\ p.blocks[b].size = o.blocks[b].size + n
      /\ OthersStay(o, p, b)
  <2>1. CASE o.api = "messages"
    <3>1. p = Delta(q, b, n)
      BY <1>5, <2>1 DEF b
    <3>2. Follows(q, p)
      BY <1>1, <1>7, <1>8, <3>1, DeltaFollows
    <3>3. Follows(o, p)
      BY <1>7, <3>2, SameStreamFollows, FollowsOn
    <3>4. /\ p \in Outputs /\ SameCalls(q, p) /\ p.text = q.text /\ p.think = q.think
          /\ DOMAIN p.blocks = DOMAIN q.blocks
          /\ p.blocks[b].kind = q.blocks[b].kind /\ p.blocks[b].open = q.blocks[b].open
          /\ p.blocks[b].size = q.blocks[b].size + n
          /\ OthersStay(q, p, b)
      BY <1>3, <1>7, <1>8, <3>1, DeltaIs
    <3> HIDE DEF p
    <3> QED BY <1>8, <3>3, <3>4 DEF OthersStay
  <2>2. CASE o.api # "messages"
    <3>1. p = Say(s, x)
      BY <1>5, <2>2 DEF b
    <3>2. x \in EventRecs /\ x.e = "" /\ x.blk = b
      <4>1. "" \in EventNames
        BY Names
      <4>2. b \in Nat
        BY <1>3 DEF ToolRecs, b
      <4>3. "tool" \in BlockKinds \cup {""} /\ 0 \in Nat
        BY DEF BlockKinds
      <4> QED BY <4>1, <4>2, <4>3 DEF Event, EventRecs, BlockKinds
    <3> HIDE DEF x
    <3>3. /\ s \in Outputs /\ s.new = q.new
          /\ SameCalls(q, s) /\ s.text = q.text /\ s.think = q.think
          /\ DOMAIN s.blocks = DOMAIN q.blocks
          /\ s.blocks[b].kind = q.blocks[b].kind /\ s.blocks[b].open = q.blocks[b].open
          /\ s.blocks[b].size = q.blocks[b].size + n
          /\ OthersStay(q, s, b)
      BY <1>3, <1>7, <1>8, SetSizeIs
    <3> HIDE DEF s
    <3>a. /\ Say(s, x) \in Outputs /\ Say(s, x).new = Append(s.new, x)
          /\ SameCalls(s, Say(s, x)) /\ Say(s, x).blocks = s.blocks
          /\ Say(s, x).text = s.text /\ Say(s, x).think = s.think
      BY <3>2, <3>3, SayIs
    <3> HIDE DEF p
    <3>4. /\ p \in Outputs /\ p.new = Append(s.new, x)
          /\ SameCalls(s, p) /\ p.blocks = s.blocks /\ p.text = s.text /\ p.think = s.think
      BY <3>1, <3>a
    <3>5. /\ SameCalls(q, p) /\ p.text = q.text /\ p.think = q.think
          /\ DOMAIN p.blocks = DOMAIN o.blocks
          /\ p.blocks[b].kind = o.blocks[b].kind /\ (p.blocks[b].open <=> o.blocks[b].open)
          /\ p.blocks[b].size = o.blocks[b].size + n
          /\ OthersStay(o, p, b) /\ p.new = Append(o.new, x)
      BY <1>8, <3>3, <3>4, SameCallsOn DEF OthersStay
    <3>6. o.api = "responses"
      <4>1. o.api \in Wires
        BY <1>1 DEF Outputs
      <4> QED BY <2>2, <4>1 DEF Wires
    <3>7. Untold(o, b)
      BY <1>8, <3>6 DEF Untold, IsTool
    <3>8. p.begun /\ p.api = o.api
      BY <1>1, <1>7, <3>5 DEF SameCalls, SameHeader
    <3>9. Follows(o, p)
      BY <1>1, <1>8, <3>2, <3>4, <3>5, <3>7, <3>8, ChangeFollows
    <3> QED BY <3>4, <3>5, <3>9
  <2> QED BY <2>1, <2>2
<1> HIDE DEF p
<1>10. p.tools = q.tools /\ p.invalid = o.invalid /\ p.text = o.text /\ p.think = o.think
       /\ SameHeader(o, p)
  BY <1>7, <1>9 DEF SameCalls, SameHeader
<1>11. Only(o, p, at) /\ p.tools[at] = r
  BY <1>6, <1>7, <1>10 DEF Only, Grown, t
<1>12. t.started /\ r.started /\ r.blk = b /\ t.blk = b
  BY <1>2, <1>4, <1>6 DEF CallOK, Grown, b
<1>13. CallOK(p, r)
  <2>1. t.args \in Nat /\ b \in DOMAIN p.blocks /\ IsTool(p, b) /\ p.blocks[b].size = r.args
        /\ p.blocks[b].open
    <3>1. t.args \in Nat
      BY <1>3 DEF ToolRecs
    <3> QED BY <1>6, <1>8, <1>9, <3>1 DEF IsTool, Grown
  <2>2. r.open
    BY <1>2, <1>6 DEF Grown
  <2> QED BY <1>12, <2>1, <2>2 DEF CallOK
<1>14. CallsOK(p) /\ ContentOK(p)
  <2>1. o.tools[at].started /\ p.tools[at].started /\ p.tools[at].blk = o.tools[at].blk
        /\ OthersStay(o, p, o.tools[at].blk) /\ IsTool(p, o.tools[at].blk) /\ CallOK(p, p.tools[at])
    BY <1>8, <1>9, <1>11, <1>12, <1>13 DEF t, IsTool
  <2> QED BY <1>2, <1>9, <1>10, <1>11, <2>1, CallChanges
<1>15. Leads(o, p)
  <2>1. p.begun /\ (p.invalid => p.api = "responses")
    BY <1>1, <1>10 DEF SameHeader
  <2> QED BY <1>9, <1>10, <1>14, <2>1 DEF Leads, Fine, Coherent
<1> QED BY <1>2, <1>6, <1>9, <1>10, <1>11, <1>15 DEF p, at, t

\* A call is closed, or its arguments are malformed.
LEMMA StopToolIs ==
    ASSUME NEW o, Fine(o), NEW i \in Nat, Positions(o, i) # {}
    PROVE  LET p == StopTool(o, i)
               at == Position(o, i)
               t == o.tools[at]
               u == p.tools[at]
           IN /\ Leads(o, p) /\ Only(o, p, at) /\ (o.invalid => p.invalid)
              /\ p.text = o.text /\ p.think = o.think /\ at \in DOMAIN o.tools
              /\ u.started <=> t.started
              /\ ~u.open /\ u.args = t.args /\ u.early = t.early /\ u.task = t.task
              /\ DOMAIN p.blocks = DOMAIN o.blocks
              /\ t.args \in {0, Whole} => (p.invalid <=> o.invalid)
              /\ ~t.open => p = o
<1> DEFINE p == StopTool(o, i)
           at == Position(o, i)
           t == o.tools[at]
           b == t.blk
           r == [t EXCEPT !.open = FALSE]
           q == [o EXCEPT !.tools[at] = r]
<1>1. o \in Outputs /\ o.begun /\ CallsOK(o) /\ ContentOK(o) /\ (o.invalid => o.api = "responses")
  BY DEF Fine, Coherent
<1>2. at \in DOMAIN o.tools /\ t.idx = i
  BY PositionIs
<1>3. t \in ToolRecs
  BY <1>1, <1>2, ToolIs
<1>4. CallOK(o, t)
  BY <1>1, <1>2 DEF CallsOK
<1>5. CASE ~t.open
  <2>1. p = o
    BY <1>5 DEF StopTool
  <2>2. Only(o, o, at)
    BY DEF Only
  <2> QED BY <1>2, <1>5, <2>1, <2>2, LeadsItself
<1>6. CASE t.open
  <2>1. p = StopBlock(q, b)
    BY <1>6 DEF StopTool
  <2> HIDE DEF t, at
  <2>2. /\ r \in ToolRecs /\ ~r.open /\ r.idx = t.idx /\ r.blk = t.blk /\ r.args = t.args
        /\ r.early = t.early /\ r.task = t.task /\ (r.started <=> t.started)
    BY <1>3 DEF ToolRecs
  <2> HIDE DEF r
  <2>3. /\ q \in Outputs /\ SameHeader(o, q) /\ SameStream(o, q)
        /\ q.invalid = o.invalid /\ q.text = o.text /\ q.think = o.think
        /\ q.tools[at] = r /\ DOMAIN q.tools = DOMAIN o.tools
        /\ \A k \in DOMAIN o.tools : k # at => q.tools[k] = o.tools[k]
    BY <1>1, <1>2, <2>2, SetToolIs DEF t
  <2> HIDE DEF q
  <2>4. /\ q.blocks = o.blocks /\ q.begun = o.begun /\ q.api = o.api /\ q.new = o.new
        /\ b \in DOMAIN o.blocks /\ IsTool(o, b) /\ o.blocks[b].open /\ o.blocks[b].size = t.args
        /\ t.started
    BY <1>6, <1>4, <2>3 DEF SameStream, CallOK, t
  <2> HIDE DEF b
  <2>5. Follows(o, p)
    BY <1>1, <2>1, <2>3, <2>4, StopFollows, SameStreamFollows, FollowsOn DEF b
  <2>6. /\ p \in Outputs
        /\ SameHeader(q, p) /\ p.tools = q.tools /\ p.text = q.text /\ p.think = q.think
        /\ Malformed(q, b) => p.invalid /\ p.new = q.new /\ p.blocks = q.blocks
        /\ ~Malformed(q, b) =>
              /\ p.invalid = q.invalid
              /\ DOMAIN p.blocks = DOMAIN q.blocks
              /\ p.blocks[b].kind = q.blocks[b].kind /\ ~p.blocks[b].open
              /\ p.blocks[b].size = q.blocks[b].size
              /\ OthersStay(q, p, b)
    BY <2>1, <2>3, <2>4, StopBlockIs DEF b
  <2> HIDE DEF p
  <2>7. /\ DOMAIN p.blocks = DOMAIN o.blocks /\ OthersStay(o, p, b)
        /\ p.blocks[b].kind = o.blocks[b].kind /\ p.blocks[b].size = o.blocks[b].size
        /\ p.blocks[b].open => p.invalid
        /\ o.invalid => p.invalid
        /\ p.invalid => p.invalid = o.invalid \/ Malformed(q, b)
    BY <2>3, <2>4, <2>6 DEF OthersStay
  <2>8. SameHeader(o, p) /\ p.text = o.text /\ p.think = o.think
    BY <2>3, <2>6 DEF SameHeader
  <2>9. Only(o, p, at) /\ p.tools[at] = r
    BY <2>2, <2>3, <2>6 DEF Only, t
  <2>10. Malformed(q, b) => o.api = "responses" /\ t.args \notin {0, Whole}
    BY <2>4 DEF Malformed
  <2>11. CallOK(p, r)
    <3>1. r.started /\ r.blk = b /\ t.blk = b
      BY <2>2, <2>4 DEF b
    <3> QED BY <2>2, <2>4, <2>7, <3>1 DEF CallOK, IsTool
  <2>12. CallsOK(p) /\ ContentOK(p)
    <3>1. /\ o.tools[at].started /\ p.tools[at].started /\ p.tools[at].blk = o.tools[at].blk
          /\ OthersStay(o, p, o.tools[at].blk) /\ IsTool(p, o.tools[at].blk)
          /\ CallOK(p, p.tools[at])
      BY <2>2, <2>4, <2>7, <2>9, <2>11 DEF t, b, IsTool
    <3> QED BY <1>2, <2>7, <2>8, <2>9, <3>1, CallChanges
  <2>13. Leads(o, p)
    <3>1. p.begun /\ (p.invalid => p.api = "responses")
      BY <1>1, <2>3, <2>7, <2>8, <2>10 DEF SameHeader
    <3> QED BY <2>5, <2>6, <2>7, <2>8, <2>12, <3>1 DEF Leads, Fine, Coherent
  <2>14. t.args \in {0, Whole} => (p.invalid <=> o.invalid)
    BY <2>3, <2>6, <2>10
  <2> QED BY <1>2, <1>6, <2>2, <2>7, <2>8, <2>9, <2>13, <2>14 DEF p, at, t
<1> QED BY <1>5, <1>6

\* Bookkeeping of a started call.
LEMMA NoteTask ==
    ASSUME NEW o, Fine(o), NEW at \in DOMAIN o.tools, o.tools[at].started,
           NEW r \in ToolRecs, r.started, r.blk = o.tools[at].blk, r.idx = o.tools[at].idx,
           r.args = o.tools[at].args, r.open <=> o.tools[at].open
    PROVE  LET p == [o EXCEPT !.tools[at] = r] IN
           /\ Leads(o, p) /\ Only(o, p, at) /\ p.tools[at] = r /\ p.invalid = o.invalid
           /\ p.text = o.text /\ p.think = o.think /\ p.blocks = o.blocks
<1> DEFINE p == [o EXCEPT !.tools[at] = r]
<1>1. o \in Outputs /\ o.begun /\ CallsOK(o) /\ ContentOK(o) /\ (o.invalid => o.api = "responses")
  BY DEF Fine, Coherent
<1>2. /\ p \in Outputs /\ SameHeader(o, p) /\ SameStream(o, p)
      /\ p.invalid = o.invalid /\ p.text = o.text /\ p.think = o.think
      /\ p.tools[at] = r /\ DOMAIN p.tools = DOMAIN o.tools
      /\ \A k \in DOMAIN o.tools : k # at => p.tools[k] = o.tools[k]
  BY <1>1, SetToolIs
<1> HIDE DEF p
<1>3. Only(o, p, at)
  BY <1>2 DEF Only
<1>4. p.blocks = o.blocks
  BY <1>2 DEF SameStream
<1>5. CallOK(o, o.tools[at])
  BY <1>1 DEF CallsOK
<1>6. CallOK(p, p.tools[at])
  BY <1>2, <1>4, <1>5 DEF CallOK, IsTool
<1>7. CallsOK(p) /\ ContentOK(p)
  <2>1. OthersStay(o, p, o.tools[at].blk) /\ IsTool(p, o.tools[at].blk)
    BY <1>4, <1>5 DEF CallOK, IsTool, OthersStay
  <2> QED BY <1>2, <1>3, <1>4, <1>6, <2>1, CallChanges
<1>8. Leads(o, p)
  <2>1. p.begun /\ (p.invalid => p.api = "responses")
    BY <1>1, <1>2 DEF SameHeader
  <2> QED BY <1>2, <1>4, <1>7, <2>1, SameStreamFollows DEF Leads, Fine, Coherent
<1> QED BY <1>2, <1>3, <1>4, <1>8 DEF p

\* Setting the task of a call does not move it.
LEMMA OnlyKeeps ==
    ASSUME NEW o, NEW p, Fine(o), Fine(p), NEW at \in DOMAIN o.tools, Only(o, p, at)
    PROVE  /\ Positions(p, o.tools[at].idx) # {} /\ Position(p, o.tools[at].idx) = at
           /\ at \in DOMAIN p.tools
BY PositionAt DEF Only, Fine, Coherent

LEMMA OnlyOn ==
    ASSUME NEW o, NEW p, NEW q, NEW at, Only(o, p, at), Only(p, q, at) PROVE Only(o, q, at)
BY DEF Only

\* The whole of the Task arguments is sent.
LEMMA SendTaskIs ==
    ASSUME NEW o, Fine(o), NEW i \in Nat, Positions(o, i) # {}, Tool(o, i).open
    PROVE  LET at == Position(o, i)
               t == o.tools[at]
               p == EmitToolDelta([o EXCEPT !.tools[at] = [@ EXCEPT !.task = 0, !.taskSent = TRUE]], i,
                                  Whole)
               u == p.tools[at]
           IN /\ Leads(o, p) /\ Only(o, p, at) /\ p.invalid = o.invalid
              /\ p.text = o.text /\ p.think = o.think /\ at \in DOMAIN o.tools
              /\ u.started /\ u.open /\ u.args = t.args + Whole /\ u.task = 0 /\ u.early = t.early
              /\ DOMAIN p.blocks = DOMAIN o.blocks
<1> DEFINE at == Position(o, i)
           t == o.tools[at]
           r == [t EXCEPT !.task = 0, !.taskSent = TRUE]
           q == [o EXCEPT !.tools[at] = r]
           p == EmitToolDelta(q, i, Whole)
<1>1. at \in DOMAIN o.tools /\ t.idx = i /\ t.open /\ o \in Outputs /\ CallsOK(o)
  BY PositionIs DEF Tool, Fine, Coherent
<1>2. t \in ToolRecs
  BY <1>1, ToolIs
<1>3. t.started
  BY <1>1 DEF CallsOK, CallOK
<1> HIDE DEF t, at
<1>4. /\ r \in ToolRecs /\ r.task = 0 /\ r.idx = t.idx /\ r.blk = t.blk /\ r.args = t.args
      /\ r.early = t.early /\ (r.started <=> t.started) /\ (r.open <=> t.open)
  BY <1>2 DEF ToolRecs
<1> HIDE DEF r
<1>5. /\ Leads(o, q) /\ Only(o, q, at) /\ q.tools[at] = r /\ q.invalid = o.invalid
      /\ q.text = o.text /\ q.think = o.think /\ q.blocks = o.blocks
  BY <1>1, <1>3, <1>4, NoteTask DEF t
<1>6. [o EXCEPT !.tools[at] = [@ EXCEPT !.task = 0, !.taskSent = TRUE]] = q
  BY DEF r, t
<1> HIDE DEF q
<1>7. Fine(q) /\ Positions(q, i) # {} /\ Position(q, i) = at
  <2>1. Fine(q)
    BY <1>5 DEF Leads
  <2> QED BY <1>1, <1>5, <2>1, OnlyKeeps DEF t
<1>8. /\ Leads(q, p) /\ Only(q, p, at) /\ p.invalid = q.invalid
      /\ p.text = q.text /\ p.think = q.think
      /\ Grown(q.tools[at], p.tools[at], Whole)
      /\ DOMAIN p.blocks = DOMAIN q.blocks
  <2>1. Whole \in Nat \ {0}
    BY DEF Whole
  <2>2. Tool(q, i).open
    BY <1>1, <1>4, <1>5, <1>7 DEF Tool, t
  <2> QED BY <1>7, <2>1, <2>2, EmitToolDeltaIs
<1> HIDE DEF p
<1>9. Leads(o, p) /\ Only(o, p, at)
  BY <1>5, <1>8, LeadsOn, OnlyOn
<1> QED BY <1>1, <1>3, <1>4, <1>5, <1>6, <1>8, <1>9 DEF Grown, p, t, at

LEMMA BufferTaskArgsIs ==
    ASSUME NEW o, Fine(o), NEW i \in Nat, Positions(o, i) # {}, Tool(o, i).open,
           NEW n \in Nat
    PROVE  LET p == BufferTaskArgs(o, i, n)
               at == Position(o, i)
               t == o.tools[at]
               u == p.tools[at]
           IN /\ Leads(o, p) /\ Only(o, p, at) /\ p.invalid = o.invalid
              /\ p.text = o.text /\ p.think = o.think /\ at \in DOMAIN o.tools
              /\ u.started /\ u.open /\ u.early = t.early
              /\ n = Whole /\ t.args = 0 /\ t.task = 0 /\ ~t.taskSent => u.args = Whole
              /\ DOMAIN p.blocks = DOMAIN o.blocks
<1> DEFINE p == BufferTaskArgs(o, i, n)
           at == Position(o, i)
           t == o.tools[at]
           h == t.task + n
           r == [t EXCEPT !.task = h]
           q == [o EXCEPT !.tools[at] = r]
<1>1. at \in DOMAIN o.tools /\ t.idx = i /\ t.open /\ o \in Outputs /\ CallsOK(o)
  BY PositionIs DEF Tool, Fine, Coherent
<1>2. t \in ToolRecs
  BY <1>1, ToolIs
<1>3. t.started
  BY <1>1 DEF CallsOK, CallOK
<1>4. CASE t.taskSent
  <2>1. p = o
    BY <1>4 DEF BufferTaskArgs
  <2>2. Only(o, o, at)
    BY DEF Only
  <2> HIDE DEF p
  <2> QED BY <1>1, <1>3, <1>4, <2>1, <2>2, LeadsItself DEF p
<1>5. CASE ~t.taskSent /\ h # Whole
  <2>1. p = q
    BY <1>5 DEF BufferTaskArgs
  <2> HIDE DEF t, at, p
  <2>2. h \in Nat
    <3>1. t.task \in Nat
      BY <1>2 DEF ToolRecs
    <3> QED BY <3>1
  <2>3. /\ r \in ToolRecs /\ r.idx = t.idx /\ r.blk = t.blk /\ r.args = t.args
        /\ r.early = t.early /\ (r.started <=> t.started) /\ (r.open <=> t.open)
    <3> HIDE DEF h
    <3> QED BY <1>2, <2>2 DEF ToolRecs
  <2> HIDE DEF r
  <2>4. /\ Leads(o, q) /\ Only(o, q, at) /\ q.tools[at] = r /\ q.invalid = o.invalid
        /\ q.text = o.text /\ q.think = o.think /\ q.blocks = o.blocks
    BY <1>1, <1>3, <2>3, NoteTask DEF t
  <2> HIDE DEF q
  <2>5. ~(n = Whole /\ t.task = 0)
    BY <1>5 DEF Whole
  <2> QED BY <1>1, <1>3, <2>1, <2>3, <2>4, <2>5 DEF p, t, at
<1>6. CASE ~t.taskSent /\ h = Whole
  <2>1. p = EmitToolDelta([o EXCEPT !.tools[at] = [@ EXCEPT !.task = 0, !.taskSent = TRUE]], i, Whole)
    BY <1>6 DEF BufferTaskArgs
  <2> HIDE DEF p
  <2>2. /\ Leads(o, p) /\ Only(o, p, at) /\ p.invalid = o.invalid
        /\ p.text = o.text /\ p.think = o.think /\ at \in DOMAIN o.tools
        /\ p.tools[at].started /\ p.tools[at].open /\ p.tools[at].args = t.args + Whole
        /\ p.tools[at].task = 0 /\ p.tools[at].early = t.early
        /\ DOMAIN p.blocks = DOMAIN o.blocks
    BY <2>1, SendTaskIs, ZenonT(60)
  <2>3. t.args = 0 => p.tools[at].args = Whole
    BY <2>2 DEF Whole
  <2> HIDE DEF t, at
  <2> QED BY <2>2, <2>3 DEF p, t, at
<1> QED BY <1>4, <1>5, <1>6

LEMMA EmitArgsIs ==
    ASSUME NEW o, Fine(o), NEW i \in Nat, Positions(o, i) # {}, Tool(o, i).open,
           NEW n \in Nat
    PROVE  LET p == EmitArgs(o, i, n)
               at == Position(o, i)
               t == o.tools[at]
               u == p.tools[at]
           IN /\ Leads(o, p) /\ Only(o, p, at) /\ p.invalid = o.invalid
              /\ p.text = o.text /\ p.think = o.think /\ at \in DOMAIN o.tools
              /\ u.started /\ u.open /\ u.early = t.early
              /\ n = Whole /\ t.args = 0 /\ t.task = 0 /\ ~t.taskSent => u.args = Whole
              /\ n = 0 => p = o
              /\ DOMAIN p.blocks = DOMAIN o.blocks
<1> DEFINE p == EmitArgs(o, i, n)
           at == Position(o, i)
           t == o.tools[at]
<1>1. at \in DOMAIN o.tools /\ t.idx = i /\ t.open /\ o \in Outputs /\ CallsOK(o)
  BY PositionIs DEF Tool, Fine, Coherent
<1>2. t.started /\ Whole # 0
  BY <1>1 DEF CallsOK, CallOK, Whole
<1>3. CASE n = 0
  <2>1. p = o
    BY <1>3 DEF EmitArgs
  <2>2. Only(o, o, at)
    BY DEF Only
  <2> HIDE DEF p
  <2> QED BY <1>1, <1>2, <1>3, <2>1, <2>2, LeadsItself DEF p
<1>4. CASE n # 0 /\ i \in TaskTools
  <2>1. p = BufferTaskArgs(o, i, n)
    BY <1>4 DEF EmitArgs
  <2> QED BY <1>4, <2>1, BufferTaskArgsIs
<1>5. CASE n # 0 /\ i \notin TaskTools
  <2>1. p = EmitToolDelta(o, i, n)
    BY <1>5 DEF EmitArgs
  <2> HIDE DEF p
  <2>2. /\ Leads(o, p) /\ Only(o, p, at) /\ p.invalid = o.invalid
        /\ p.text = o.text /\ p.think = o.think /\ at \in DOMAIN o.tools
        /\ Grown(t, p.tools[at], n)
        /\ DOMAIN p.blocks = DOMAIN o.blocks
    BY <1>5, <2>1, EmitToolDeltaIs
  <2>3. n = Whole /\ t.args = 0 => p.tools[at].args = Whole
    BY <2>2 DEF Grown, Whole
  <2> HIDE DEF t, at
  <2> QED BY <1>1, <1>2, <1>5, <2>2, <2>3 DEF Grown, p, t, at
<1> QED BY <1>3, <1>4, <1>5

\* Arguments that come before the name are kept.
LEMMA NoteEarly ==
    ASSUME NEW o, Fine(o), NEW at \in DOMAIN o.tools, ~o.tools[at].started, NEW n \in Nat
    PROVE  LET p == [o EXCEPT !.tools[at].early = n]
               u == p.tools[at]
           IN /\ Leads(o, p) /\ Only(o, p, at) /\ p.invalid = o.invalid
              /\ p.text = o.text /\ p.think = o.think /\ p.blocks = o.blocks
              /\ ~u.started /\ ~u.open /\ u.early = n
<1> DEFINE t == o.tools[at]
           r == [t EXCEPT !.early = n]
           p == [o EXCEPT !.tools[at] = r]
<1>1. o \in Outputs /\ o.begun /\ CallsOK(o) /\ ContentOK(o) /\ (o.invalid => o.api = "responses")
  BY DEF Fine, Coherent
<1>2. t \in ToolRecs
  BY <1>1, ToolIs
<1>3. CallOK(o, t)
  BY <1>1 DEF CallsOK
<1>4. [o EXCEPT !.tools[at].early = n] = p
  OBVIOUS
<1> HIDE DEF t
<1>5. /\ r \in ToolRecs /\ r.idx = t.idx /\ r.early = n /\ r.args = t.args /\ r.task = t.task
      /\ (r.started <=> t.started) /\ (r.open <=> t.open) /\ (r.taskSent <=> t.taskSent)
  BY <1>2 DEF ToolRecs
<1> HIDE DEF r
<1>6. /\ p \in Outputs /\ SameHeader(o, p) /\ SameStream(o, p)
      /\ p.invalid = o.invalid /\ p.text = o.text /\ p.think = o.think
      /\ p.tools[at] = r /\ DOMAIN p.tools = DOMAIN o.tools
      /\ \A k \in DOMAIN o.tools : k # at => p.tools[k] = o.tools[k]
  BY <1>1, <1>5, SetToolIs
<1> HIDE DEF p
<1>7. ~t.started /\ ~t.open /\ t.args = 0 /\ t.task = 0 /\ ~t.taskSent
  BY <1>3 DEF CallOK, t
<1>8. p.blocks = o.blocks
  BY <1>6 DEF SameStream
<1>9. CallsOK(p)
  <2>1. CallOK(p, p.tools[at])
    BY <1>5, <1>6, <1>7 DEF CallOK
  <2>2. \A k \in DOMAIN o.tools : k # at => CallOK(p, p.tools[k])
    BY <1>1, <1>6, <1>8 DEF CallsOK, CallOK, IsTool
  <2>3. \A k \in DOMAIN o.tools :
          /\ p.tools[k].idx = o.tools[k].idx /\ (p.tools[k].started <=> o.tools[k].started)
          /\ o.tools[k].started => p.tools[k] = o.tools[k]
    BY <1>5, <1>6, <1>7 DEF t
  <2>4. \A b \in DOMAIN p.blocks : IsTool(p, b) =>
          \E k \in DOMAIN p.tools : p.tools[k].started /\ p.tools[k].blk = b
    <3> SUFFICES ASSUME NEW b \in DOMAIN p.blocks, IsTool(p, b)
                 PROVE  \E k \in DOMAIN p.tools : p.tools[k].started /\ p.tools[k].blk = b
      OBVIOUS
    <3>1. PICK k \in DOMAIN o.tools : o.tools[k].started /\ o.tools[k].blk = b
      BY <1>1, <1>8 DEF CallsOK, IsTool
    <3> QED BY <1>6, <2>3, <3>1
  <2>5. \A k, l \in DOMAIN p.tools :
         k # l => /\ p.tools[k].idx # p.tools[l].idx
                  /\ p.tools[k].started /\ p.tools[l].started => p.tools[k].blk # p.tools[l].blk
    BY <1>1, <1>6, <2>3 DEF CallsOK
  <2> QED BY <1>6, <2>1, <2>2, <2>4, <2>5 DEF CallsOK
<1>10. ContentOK(p)
  BY <1>1, <1>6, <1>8 DEF ContentOK, Current, IsTool
<1>11. Leads(o, p)
  <2>1. p.begun /\ (p.invalid => p.api = "responses")
    BY <1>1, <1>6 DEF SameHeader
  <2> QED BY <1>6, <1>8, <1>9, <1>10, <2>1, SameStreamFollows DEF Leads, Fine, Coherent
<1>12. Only(o, p, at)
  BY <1>5, <1>6 DEF Only, t
<1> QED BY <1>4, <1>5, <1>6, <1>7, <1>8, <1>11, <1>12 DEF p

\* The name of a call comes, with the arguments that were waiting for it.
LEMMA NamedIs ==
    ASSUME NEW o, Fine(o), NEW i \in Nat, Positions(o, i) # {}, ~Tool(o, i).started
    PROVE  LET at == Position(o, i)
               t == o.tools[at]
               p == EmitArgs(StartTool([o EXCEPT !.tools[at].early = 0], i), i, t.early)
               u == p.tools[at]
           IN /\ Leads(o, p) /\ Only(o, p, at) /\ p.invalid = o.invalid
              /\ p.text = o.text /\ p.think = o.think /\ at \in DOMAIN o.tools
              /\ u.started /\ u.open
              /\ t.early = 0 => u.args = 0 /\ u.task = 0 /\ ~u.taskSent
<1> DEFINE at == Position(o, i)
           t == o.tools[at]
           q == [o EXCEPT !.tools[at].early = 0]
           s == StartTool(q, i)
           p == EmitArgs(s, i, t.early)
<1>1. at \in DOMAIN o.tools /\ t.idx = i /\ ~t.started /\ o \in Outputs
  BY PositionIs DEF Tool, Fine, Coherent
<1>2. t.early \in Nat
  BY <1>1, ToolIs
<1> HIDE DEF at
<1>3. /\ Leads(o, q) /\ Only(o, q, at) /\ q.invalid = o.invalid
      /\ q.text = o.text /\ q.think = o.think /\ q.blocks = o.blocks
      /\ ~q.tools[at].started
  BY <1>1, NoteEarly
<1> HIDE DEF q, t
<1>4. Fine(q) /\ Positions(q, i) # {} /\ Position(q, i) = at
  <2>1. Fine(q)
    BY <1>3 DEF Leads
  <2> QED BY <1>1, <1>3, <2>1, OnlyKeeps DEF t
<1>5. /\ Leads(q, s) /\ Only(q, s, at) /\ s.invalid = q.invalid
      /\ s.text = q.text /\ s.think = q.think
      /\ s.tools[at].started /\ s.tools[at].open /\ s.tools[at].args = 0 /\ s.tools[at].task = 0
      /\ ~s.tools[at].taskSent
  BY <1>3, <1>4, StartToolIs DEF Tool
<1> HIDE DEF s
<1>6. Fine(s) /\ Positions(s, i) # {} /\ Position(s, i) = at
  <2>1. Fine(s)
    BY <1>5 DEF Leads
  <2>2. at \in DOMAIN q.tools /\ q.tools[at].idx = i
    BY <1>1, <1>3 DEF Only, t
  <2> QED BY <1>4, <1>5, <2>1, <2>2, OnlyKeeps
<1>7. /\ Leads(s, p) /\ Only(s, p, at) /\ p.invalid = s.invalid
      /\ p.text = s.text /\ p.think = s.think
      /\ p.tools[at].started /\ p.tools[at].open
      /\ t.early = 0 => p = s
  BY <1>2, <1>5, <1>6, EmitArgsIs DEF Tool
<1> HIDE DEF p
<1>8. Leads(o, p) /\ Only(o, p, at)
  BY <1>3, <1>5, <1>7, LeadsOn, OnlyOn
<1> QED BY <1>1, <1>3, <1>5, <1>7, <1>8 DEF p, s, q, t, at

LEMMA ProcessToolCallIs ==
    ASSUME NEW o, Fine(o), NEW i \in Nat, NEW named \in BOOLEAN, NEW n \in Nat,
           \A k \in Positions(o, i) : o.tools[k].started => o.tools[k].open
    PROVE  LET p == ProcessToolCall(o, i, named, n) IN
           /\ Leads(o, p) /\ p.invalid = o.invalid /\ p.text = o.text /\ p.think = o.think
           /\ \A k \in DOMAIN p.tools :
                \/ k \in DOMAIN o.tools /\ p.tools[k] = o.tools[k]
                \/ /\ p.tools[k].idx = i
                   /\ p.tools[k].started => p.tools[k].open
                   /\ named \/ CallStarted(o, i) => p.tools[k].started
                   /\ o.tools = <<>> /\ named /\ n = Whole => p.tools[k].args = Whole
           /\ p.tools # <<>>
<1> DEFINE s == EnsureTool(o, i)
           at == Position(s, i)
           t == s.tools[at]
           starts == named /\ ~t.started
           q == IF starts THEN EmitArgs(StartTool([s EXCEPT !.tools[at].early = 0], i), i, t.early)
                ELSE s
           p == ProcessToolCall(o, i, named, n)
<1>1. /\ Leads(o, s) /\ Positions(s, i) # {} /\ s.text = o.text /\ s.think = o.think
      /\ s.invalid = o.invalid
      /\ \A k \in DOMAIN s.tools : (k \in DOMAIN o.tools /\ s.tools[k] = o.tools[k]) \/ k = at
      /\ Positions(o, i) = {} => ~t.started /\ t.early = 0 /\ ~t.open /\ t.args = 0 /\ t.task = 0
      /\ Positions(o, i) # {} => s = o
  BY EnsureToolIs, NewToolIs
<1>2. p = IF q.tools[at].started THEN EmitArgs(q, i, n) ELSE [q EXCEPT !.tools[at].early = @ + n]
  BY DEF ProcessToolCall
<1>3. at \in DOMAIN s.tools /\ t.idx = i /\ Fine(s) /\ Tool(s, i) = t
  BY <1>1, PositionIs DEF Leads, Tool
<1>4. t.started => t.open
  <2>1. CASE Positions(o, i) = {}
    BY <1>1, <2>1
  <2>2. CASE Positions(o, i) # {}
    <3>1. at \in Positions(o, i) /\ t = o.tools[at]
      BY <1>1, <1>3, <2>2 DEF Positions
    <3> QED BY <3>1
  <2> QED BY <2>1, <2>2
<1>5. CallStarted(o, i) => t.started
  <2> SUFFICES ASSUME CallStarted(o, i) PROVE t.started
    OBVIOUS
  <2>1. PICK k \in StartedTools(o) : o.tools[k].idx = i
    BY DEF CallStarted
  <2>2. k \in DOMAIN o.tools /\ o.tools[k].started
    BY <2>1 DEF StartedTools
  <2>3. Positions(o, i) # {} /\ Position(o, i) = k
    BY <2>1, <2>2, PositionAt DEF Fine, Coherent
  <2> QED BY <1>1, <2>2, <2>3
<1>6. o.tools = <<>> => t.early = 0 /\ ~t.started
  <2>1. o.tools = <<>> => Positions(o, i) = {}
    <3>1. DOMAIN <<>> = {}
      OBVIOUS
    <3> QED BY <3>1 DEF Positions
  <2> QED BY <1>1, <2>1
<1>7. /\ Leads(s, q) /\ Only(s, q, at) /\ q.invalid = s.invalid /\ q.text = s.text
      /\ q.think = s.think /\ (q.tools[at].started => q.tools[at].open)
      /\ starts \/ t.started <=> q.tools[at].started
      /\ starts /\ t.early = 0 =>
           q.tools[at].args = 0 /\ q.tools[at].task = 0 /\ ~q.tools[at].taskSent
  <2>1. CASE starts
    <3>1. q = EmitArgs(StartTool([s EXCEPT !.tools[at].early = 0], i), i, t.early)
      BY <2>1
    <3> HIDE DEF q
    <3>2. /\ Leads(s, q) /\ Only(s, q, at) /\ q.invalid = s.invalid
          /\ q.text = s.text /\ q.think = s.think
          /\ q.tools[at].started /\ q.tools[at].open
          /\ t.early = 0 => q.tools[at].args = 0 /\ q.tools[at].task = 0 /\ ~q.tools[at].taskSent
      BY <1>1, <1>3, <2>1, <3>1, NamedIs
    <3> QED BY <2>1, <3>2
  <2>2. CASE ~starts
    <3>1. q = s
      BY <2>2
    <3>2. Only(s, s, at)
      BY DEF Only
    <3> HIDE DEF q
    <3> QED BY <1>3, <1>4, <2>2, <3>1, <3>2, LeadsItself
  <2> QED BY <2>1, <2>2
<1> HIDE DEF q
<1>8. Fine(q) /\ Positions(q, i) # {} /\ Position(q, i) = at /\ at \in DOMAIN q.tools /\ q \in Outputs
      /\ q.tools[at].idx = i
  <2>1. Fine(q)
    BY <1>7 DEF Leads
  <2> QED BY <1>3, <1>7, <2>1, OnlyKeeps DEF Fine, Only
<1> HIDE DEF starts, t, at, s
<1>9. /\ Leads(q, p) /\ Only(q, p, at) /\ p.invalid = q.invalid /\ p.text = q.text
      /\ p.think = q.think
      /\ p.tools[at].started => p.tools[at].open
      /\ q.tools[at].started => p.tools[at].started
      /\ n = Whole /\ q.tools[at].started /\ q.tools[at].args = 0 /\ q.tools[at].task = 0
           /\ ~q.tools[at].taskSent => p.tools[at].args = Whole
  <2>1. CASE q.tools[at].started
    <3>1. p = EmitArgs(q, i, n)
      BY <1>2, <2>1
    <3>2. Tool(q, i).open
      BY <1>7, <1>8, <2>1 DEF Tool
    <3> HIDE DEF p
    <3>3. /\ Leads(q, p) /\ Only(q, p, at) /\ p.invalid = q.invalid
          /\ p.text = q.text /\ p.think = q.think
          /\ p.tools[at].started /\ p.tools[at].open
          /\ n = Whole /\ q.tools[at].args = 0 /\ q.tools[at].task = 0 /\ ~q.tools[at].taskSent
               => p.tools[at].args = Whole
      BY <1>8, <3>1, <3>2, EmitArgsIs
    <3> QED BY <3>3
  <2>2. CASE ~q.tools[at].started
    <3> DEFINE m == q.tools[at].early + n
    <3>1. p = [q EXCEPT !.tools[at].early = m]
      BY <1>2, <2>2
    <3>2. m \in Nat
      <4>1. q.tools[at].early \in Nat
        BY <1>8, ToolIs
      <4> QED BY <4>1
    <3> HIDE DEF p, m
    <3>3. /\ Leads(q, p) /\ Only(q, p, at) /\ p.invalid = q.invalid
          /\ p.text = q.text /\ p.think = q.think
          /\ ~p.tools[at].started
      BY <1>8, <2>2, <3>1, <3>2, NoteEarly
    <3> QED BY <2>2, <3>3
  <2> QED BY <2>1, <2>2
<1> HIDE DEF p
<1>10. Leads(o, p) /\ p.invalid = o.invalid /\ p.text = o.text /\ p.think = o.think
  BY <1>1, <1>7, <1>9, LeadsOn
<1>11. Only(s, p, at)
  BY <1>7, <1>9, OnlyOn
<1>12. /\ p.tools[at].idx = i
       /\ p.tools[at].started => p.tools[at].open
       /\ named \/ CallStarted(o, i) => p.tools[at].started
       /\ o.tools = <<>> /\ named /\ n = Whole => p.tools[at].args = Whole
  <2>1. p.tools[at].idx = i
    BY <1>8, <1>9 DEF Only
  <2>2. named \/ CallStarted(o, i) => q.tools[at].started
    BY <1>5, <1>7 DEF starts
  <2>3. o.tools = <<>> /\ named => starts /\ t.early = 0
    BY <1>6 DEF starts
  <2> QED BY <1>7, <1>9, <2>1, <2>2, <2>3
<1>13. \A k \in DOMAIN p.tools : k # at => k \in DOMAIN o.tools /\ p.tools[k] = o.tools[k]
  BY <1>1, <1>11 DEF Only
<1>14. p.tools # <<>>
  <2>1. at \in DOMAIN p.tools
    BY <1>3, <1>11 DEF Only
  <2>2. DOMAIN <<>> = {}
    OBVIOUS
  <2> QED BY <2>1, <2>2
<1> QED BY <1>10, <1>12, <1>13, <1>14 DEF p

(***************************************************************************)
(* Calls that a model writes as text.                                      *)
(***************************************************************************)

\* A call written as text is complete at once.
LEMMA HeuristicToolUseIs ==
    ASSUME NEW o, Fine(o), Positions(o, Len(o.tools)) = {}
    PROVE  LET p == HeuristicToolUse(o)
               n == Len(o.tools) + 1
               u == p.tools[n]
           IN /\ Leads(o, p) /\ (p.invalid <=> o.invalid) /\ p.text = 0 /\ p.think = 0
              /\ DOMAIN p.tools = DOMAIN o.tools \cup {n} /\ Len(p.tools) = n
              /\ \A k \in DOMAIN o.tools : p.tools[k] = o.tools[k]
              /\ u.started /\ ~u.open /\ u.idx = Len(o.tools) /\ u.args = Whole /\ u.task = 0
<1> DEFINE c == CloseContentBlocks(o)
           i == Len(c.tools)
           e == EnsureTool(c, i)
           n == Len(o.tools) + 1
           s == StartTool(e, i)
           d == EmitToolDelta(s, i, Whole)
           p == StopTool(d, i)
<1>1. /\ Leads(o, c) /\ c.tools = o.tools /\ c.invalid = o.invalid /\ c.text = 0 /\ c.think = 0
      /\ Fine(c)
  BY CloseContentIs DEF SameCalls, Leads
<1>2. HeuristicToolUse(o) = p
  BY DEF HeuristicToolUse
<1> HIDE DEF c
<1>3. i \in Nat /\ Positions(c, i) = {} /\ n = i + 1 /\ n \in Nat
  <2>1. Len(o.tools) \in Nat
    BY OutputIs DEF Fine
  <2>2. Positions(c, i) = Positions(o, Len(o.tools))
    BY <1>1 DEF Positions
  <2> QED BY <1>1, <2>1, <2>2
<1>a. i = Len(o.tools)
  BY <1>1
<1>4. /\ Leads(c, e) /\ Positions(e, i) # {} /\ e.text = 0 /\ e.think = 0 /\ e.invalid = c.invalid
      /\ Position(e, i) = n /\ e.tools[n] = NewTool(i) /\ DOMAIN e.tools = DOMAIN o.tools \cup {n}
      /\ n \notin DOMAIN o.tools /\ Fine(e)
      /\ \A k \in DOMAIN o.tools : e.tools[k] = o.tools[k]
  <2>1. /\ Leads(c, e) /\ Positions(e, i) # {} /\ e.text = c.text /\ e.think = c.think
        /\ e.invalid = c.invalid
        /\ Position(e, i) = Len(c.tools) + 1 /\ e.tools[Len(c.tools) + 1] = NewTool(i)
        /\ DOMAIN e.tools = DOMAIN c.tools \cup {Len(c.tools) + 1}
        /\ Len(c.tools) + 1 \notin DOMAIN c.tools
        /\ \A k \in DOMAIN c.tools : e.tools[k] = c.tools[k]
    <3> HIDE DEF i
    <3> QED BY <1>1, <1>3, EnsureToolIs
  <2>2. Len(c.tools) + 1 = n
    BY <1>1
  <2> HIDE DEF e, i, n
  <2> QED BY <1>1, <2>1, <2>2 DEF Leads
<1>5. ~Tool(e, i).started
  BY <1>3, <1>4, NewToolIs DEF Tool
<1> HIDE DEF e, i, n
<1>6. /\ Leads(e, s) /\ Only(e, s, n) /\ s.invalid = e.invalid /\ s.text = 0 /\ s.think = 0
      /\ s.tools[n].started /\ s.tools[n].open /\ s.tools[n].args = 0 /\ s.tools[n].task = 0
      /\ Fine(s)
  BY <1>3, <1>4, <1>5, StartToolIs DEF Leads
<1> HIDE DEF s
<1>7. Positions(s, i) # {} /\ Position(s, i) = n /\ n \in DOMAIN s.tools /\ Tool(s, i).open
  <2>1. n \in DOMAIN e.tools /\ e.tools[n].idx = i
    BY <1>3, <1>4, NewToolIs
  <2> QED BY <1>4, <1>6, <2>1, OnlyKeeps DEF Tool
<1>8. /\ Leads(s, d) /\ Only(s, d, n) /\ d.invalid = s.invalid /\ d.text = 0 /\ d.think = 0
      /\ Grown(s.tools[n], d.tools[n], Whole) /\ Fine(d)
  <2>1. Whole \in Nat \ {0}
    BY DEF Whole
  <2> QED BY <1>3, <1>6, <1>7, <2>1, EmitToolDeltaIs DEF Leads
<1> HIDE DEF d
<1>9. Positions(d, i) # {} /\ Position(d, i) = n /\ n \in DOMAIN d.tools
  <2>1. s.tools[n].idx = i
    BY <1>3, <1>4, <1>6, NewToolIs DEF Only
  <2> QED BY <1>6, <1>7, <1>8, <2>1, OnlyKeeps
<1>10. d.tools[n].args = Whole /\ d.tools[n].started /\ d.tools[n].task = 0
  BY <1>6, <1>8 DEF Grown, Whole
<1>11. /\ Leads(d, p) /\ Only(d, p, n) /\ p.text = 0 /\ p.think = 0
       /\ p.tools[n].started /\ ~p.tools[n].open /\ p.tools[n].args = Whole /\ p.tools[n].task = 0
       /\ (p.invalid <=> d.invalid)
  BY <1>3, <1>8, <1>9, <1>10, StopToolIs
<1> HIDE DEF p
<1>12. Leads(o, p)
  BY <1>1, <1>4, <1>6, <1>8, <1>11, LeadsOn
<1>13. Only(e, p, n)
  BY <1>6, <1>8, <1>11, OnlyOn
<1>14. /\ DOMAIN p.tools = DOMAIN o.tools \cup {n}
       /\ \A k \in DOMAIN o.tools : p.tools[k] = o.tools[k]
       /\ p.tools[n].idx = i
  BY <1>3, <1>4, <1>13, NewToolIs DEF Only
<1>15. Len(p.tools) = n
  <2>1. p.tools \in Seq(ToolRecs) /\ o.tools \in Seq(ToolRecs)
    BY <1>12 DEF Leads, Fine, Outputs
  <2>2. 1..Len(p.tools) = 1..Len(o.tools) \cup {n} /\ n = Len(o.tools) + 1 /\ Len(o.tools) \in Nat
    BY <1>14, <2>1 DEF n
  <2>3. Len(p.tools) \in Nat
    BY <2>1
  <2>4. n \in 1..Len(p.tools)
    BY <2>2
  <2>5. Len(p.tools) \in 1..n
    <3>1. Len(p.tools) \in 1..Len(p.tools)
      BY <2>3, <2>4
    <3> QED BY <2>2, <3>1
  <2> QED BY <2>3, <2>4, <2>5
<1> QED BY <1>1, <1>2, <1>4, <1>6, <1>8, <1>11, <1>12, <1>14, <1>15, <1>a DEF n

(***************************************************************************)
(* Stopping every call.                                                    *)
(***************************************************************************)

\* What stopping calls changes: the first m are closed.
Calmed(o, p, m) ==
    /\ Leads(o, p) /\ p.text = 0 /\ p.think = 0
    /\ DOMAIN p.blocks = DOMAIN o.blocks
    /\ DOMAIN p.tools = DOMAIN o.tools
    /\ \A k \in DOMAIN o.tools :
         /\ p.tools[k].idx = o.tools[k].idx /\ p.tools[k].args = o.tools[k].args
         /\ p.tools[k].started <=> o.tools[k].started
         /\ k <= m => ~p.tools[k].open

LEMMA StoppedIs ==
    ASSUME NEW o, NEW n \in Nat
    PROVE  LET f == CHOOSE f : f = [p \in 0..n |->
                       IF p = 0 THEN CloseContentBlocks(o) ELSE StopTool(f[p - 1], o.tools[p].idx)]
           IN  f = [p \in 0..n |->
                       IF p = 0 THEN CloseContentBlocks(o) ELSE StopTool(f[p - 1], o.tools[p].idx)]
<1> DEFINE Is(f, m) == f = [p \in 0..m |->
                    IF p = 0 THEN CloseContentBlocks(o) ELSE StopTool(f[p - 1], o.tools[p].idx)]
           G == {m \in 0..n : \E f : Is(f, m)}
<1>1. 0 \in G
  <2> DEFINE f == [k \in 0..0 |-> CloseContentBlocks(o)]
  <2>1. Is(f, 0)
    OBVIOUS
  <2>2. \E g : Is(g, 0)
    BY <2>1
  <2>3. 0 \in 0..n
    OBVIOUS
  <2> HIDE DEF Is
  <2> QED BY <2>2, <2>3
<1>2. ASSUME NEW k \in 0..n, k # n, k \in G PROVE k + 1 \in G
  <2>1. PICK f : Is(f, k)
    BY <1>2
  <2> DEFINE g == [p \in 0..k + 1 |-> IF p = k + 1 THEN StopTool(f[k], o.tools[k + 1].idx) ELSE f[p]]
  <2>2. k \in Nat /\ k + 1 \in 0..n
    BY <1>2
  <2>3. ASSUME NEW p \in 0..k + 1
        PROVE  g[p] = IF p = 0 THEN CloseContentBlocks(o) ELSE StopTool(g[p - 1], o.tools[p].idx)
    <3>1. CASE p = k + 1
      <4>1. p # 0 /\ g[p] = StopTool(f[k], o.tools[p].idx) /\ p - 1 = k
        BY <2>2, <3>1
      <4>2. g[k] = f[k]
        BY <2>2
      <4> QED BY <4>1, <4>2
    <3>2. CASE p # k + 1
      <4>1. p \in 0..k /\ g[p] = f[p]
        BY <2>2, <3>2
      <4>2. p # 0 => p - 1 \in 0..k /\ g[p - 1] = f[p - 1]
        BY <2>2, <4>1
      <4>3. f[p] = IF p = 0 THEN CloseContentBlocks(o) ELSE StopTool(f[p - 1], o.tools[p].idx)
        BY <2>1, <4>1
      <4> QED BY <4>1, <4>2, <4>3
    <3> QED BY <3>1, <3>2
  <2>4. Is(g, k + 1)
    <3>1. g = [p \in 0..k + 1 |-> g[p]]
      OBVIOUS
    <3> HIDE DEF g
    <3> QED BY <2>3, <3>1
  <2> QED BY <2>2, <2>4
<1>3. n \in G
  <2> HIDE DEF G
  <2> QED BY <1>1, <1>2, UpTo
<1> QED BY <1>3, Zenon

\* Afterwards only malformed calls are open.
AllStopped(p) ==
    \A b \in DOMAIN p.blocks : p.blocks[b].open => IsTool(p, b) /\ p.invalid

LEMMA CloseAllBlocksIs ==
    ASSUME NEW o, Fine(o)
    PROVE  LET p == CloseAllBlocks(o) IN Calmed(o, p, Len(o.tools)) /\ AllStopped(p)
<1> DEFINE n == Len(o.tools)
           f == CHOOSE f : f = [p \in 0..n |->
                       IF p = 0 THEN CloseContentBlocks(o) ELSE StopTool(f[p - 1], o.tools[p].idx)]
           p == CloseAllBlocks(o)
           G == {m \in 0..n : Calmed(o, f[m], m)}
<1>1. p = f[n]
  BY DEF CloseAllBlocks
<1>2. n \in Nat /\ DOMAIN o.tools = 1..n /\ o \in Outputs
  BY OutputIs DEF Fine
<1>3. f = [q \in 0..n |->
             IF q = 0 THEN CloseContentBlocks(o) ELSE StopTool(f[q - 1], o.tools[q].idx)]
  <2> HIDE DEF n
  <2> QED BY <1>2, StoppedIs
<1> HIDE DEF f, p
<1>4. 0 \in G
  <2>1. f[0] = CloseContentBlocks(o) /\ 0 \in 0..n
    BY <1>2, <1>3
  <2>2. /\ Leads(o, f[0]) /\ SameCalls(o, f[0]) /\ f[0].text = 0 /\ f[0].think = 0
        /\ DOMAIN f[0].blocks = DOMAIN o.blocks
    BY <2>1, CloseContentIs
  <2>3. \A k \in DOMAIN o.tools : ~(k <= 0)
    BY <1>2
  <2>4. Calmed(o, f[0], 0)
    BY <2>2, <2>3 DEF Calmed, SameCalls
  <2> QED BY <2>1, <2>4
<1>5. ASSUME NEW k \in 0..n, k # n, k \in G PROVE k + 1 \in G
  <2> DEFINE a == f[k]
             c == f[k + 1]
             i == o.tools[k + 1].idx
  <2>1. k + 1 \in 1..n /\ k + 1 \in 0..n /\ (k + 1) - 1 = k /\ k + 1 # 0
    BY <1>2, <1>5
  <2>2. c = StopTool(a, i)
    BY <1>3, <2>1
  <2>3. Calmed(o, a, k)
    BY <1>5
  <2>4. Fine(a) /\ k + 1 \in DOMAIN a.tools /\ a.tools[k + 1].idx = i /\ i \in Nat
    BY <1>2, <2>1, <2>3, ToolIs DEF Calmed, Leads
  <2> HIDE DEF a, c, i
  <2>5. Positions(a, i) # {} /\ Position(a, i) = k + 1
    BY <2>4, PositionAt DEF Fine, Coherent
  <2>6. /\ Leads(a, c) /\ Only(a, c, k + 1)
        /\ c.text = a.text /\ c.think = a.think
        /\ c.tools[k + 1].started <=> a.tools[k + 1].started
        /\ ~c.tools[k + 1].open /\ c.tools[k + 1].args = a.tools[k + 1].args
        /\ DOMAIN c.blocks = DOMAIN a.blocks
    BY <2>2, <2>4, <2>5, StopToolIs
  <2>7. Leads(o, c)
    BY <2>3, <2>6, LeadsOn DEF Calmed
  <2>8. ASSUME NEW l \in DOMAIN o.tools
        PROVE  /\ c.tools[l].idx = o.tools[l].idx /\ c.tools[l].args = o.tools[l].args
               /\ c.tools[l].started <=> o.tools[l].started
               /\ l <= k + 1 => ~c.tools[l].open
    <3>1. CASE l = k + 1
      BY <2>3, <2>6, <3>1 DEF Calmed, Only
    <3>2. CASE l # k + 1
      <4>1. l <= k + 1 => l <= k
        BY <1>2, <3>2
      <4> QED BY <2>3, <2>6, <3>2, <4>1 DEF Calmed, Only
    <3> QED BY <3>1, <3>2
  <2>9. Calmed(o, c, k + 1)
    BY <2>3, <2>6, <2>7, <2>8 DEF Calmed, Only
  <2> QED BY <2>1, <2>9 DEF c
<1>6. n \in G
  <2> HIDE DEF G
  <2> QED BY <1>2, <1>4, <1>5, UpTo
<1>7. Calmed(o, p, n)
  BY <1>1, <1>6
<1>8. ASSUME NEW b \in DOMAIN p.blocks, p.blocks[b].open PROVE IsTool(p, b) /\ p.invalid
  <2>1. ContentOK(p) /\ CallsOK(p) /\ p.text = 0 /\ p.think = 0 /\ p \in Outputs
    BY <1>7 DEF Calmed, Leads, Fine, Coherent
  <2>2. b # 0
    BY <2>1, OutputIs
  <2>3. IsTool(p, b)
    BY <1>8, <2>1, <2>2 DEF ContentOK
  <2>4. PICK k \in DOMAIN p.tools : p.tools[k].started /\ p.tools[k].blk = b
    BY <2>1, <2>3 DEF CallsOK
  <2>5. k <= n /\ k \in DOMAIN o.tools
    BY <1>2, <1>7, <2>4 DEF Calmed
  <2>6. ~p.tools[k].open
    BY <1>7, <2>5 DEF Calmed
  <2> QED BY <1>8, <2>1, <2>3, <2>4, <2>6 DEF CallsOK, CallOK
<1> QED BY <1>7, <1>8 DEF AllStopped, p

(***************************************************************************)
(* Sending the buffered Tasks.                                             *)
(***************************************************************************)

\* Every buffered Task can still be sent.
Sendable(o) == \A k \in DOMAIN o.tools : o.tools[k].task # 0 => o.tools[k].open

\* What sending the Tasks changes.
Sent(o, p) ==
    /\ Leads(o, p) /\ p.text = o.text /\ p.think = o.think /\ p.invalid = o.invalid
    /\ DOMAIN p.blocks = DOMAIN o.blocks
    /\ DOMAIN p.tools = DOMAIN o.tools
    /\ \A k \in DOMAIN o.tools :
         p.tools[k].idx = o.tools[k].idx /\ (p.tools[k].open <=> o.tools[k].open)
    /\ Sendable(p)

LEMMA SentIs ==
    ASSUME NEW o, NEW n \in Nat
    PROVE  LET f == CHOOSE f : f = [p \in 0..n |->
                       IF p = 0 THEN o ELSE FlushTask(f[p - 1], o.tools[p].idx)]
           IN  f = [p \in 0..n |-> IF p = 0 THEN o ELSE FlushTask(f[p - 1], o.tools[p].idx)]
<1> DEFINE Is(f, m) == f = [p \in 0..m |->
                    IF p = 0 THEN o ELSE FlushTask(f[p - 1], o.tools[p].idx)]
           G == {m \in 0..n : \E f : Is(f, m)}
<1>1. 0 \in G
  <2> DEFINE f == [k \in 0..0 |-> o]
  <2>1. Is(f, 0)
    OBVIOUS
  <2>2. \E g : Is(g, 0)
    BY <2>1
  <2>3. 0 \in 0..n
    OBVIOUS
  <2> HIDE DEF Is
  <2> QED BY <2>2, <2>3
<1>2. ASSUME NEW k \in 0..n, k # n, k \in G PROVE k + 1 \in G
  <2>1. PICK f : Is(f, k)
    BY <1>2
  <2> DEFINE g == [p \in 0..k + 1 |-> IF p = k + 1 THEN FlushTask(f[k], o.tools[k + 1].idx) ELSE f[p]]
  <2>2. k \in Nat /\ k + 1 \in 0..n
    BY <1>2
  <2>3. ASSUME NEW p \in 0..k + 1
        PROVE  g[p] = IF p = 0 THEN o ELSE FlushTask(g[p - 1], o.tools[p].idx)
    <3>1. CASE p = k + 1
      <4>1. p # 0 /\ g[p] = FlushTask(f[k], o.tools[p].idx) /\ p - 1 = k
        BY <2>2, <3>1
      <4>2. g[k] = f[k]
        BY <2>2
      <4> QED BY <4>1, <4>2
    <3>2. CASE p # k + 1
      <4>1. p \in 0..k /\ g[p] = f[p]
        BY <2>2, <3>2
      <4>2. p # 0 => p - 1 \in 0..k /\ g[p - 1] = f[p - 1]
        BY <2>2, <4>1
      <4>3. f[p] = IF p = 0 THEN o ELSE FlushTask(f[p - 1], o.tools[p].idx)
        BY <2>1, <4>1
      <4> QED BY <4>1, <4>2, <4>3
    <3> QED BY <3>1, <3>2
  <2>4. Is(g, k + 1)
    <3>1. g = [p \in 0..k + 1 |-> g[p]]
      OBVIOUS
    <3> HIDE DEF g
    <3> QED BY <2>3, <3>1
  <2> QED BY <2>2, <2>4
<1>3. n \in G
  <2> HIDE DEF G
  <2> QED BY <1>1, <1>2, UpTo
<1> QED BY <1>3, Zenon

LEMMA SentItself == ASSUME NEW o, Fine(o), Sendable(o) PROVE Sent(o, o)
BY LeadsItself DEF Sent

LEMMA SentOn == ASSUME NEW o, NEW p, NEW q, Sent(o, p), Sent(p, q) PROVE Sent(o, q)
<1>1. Leads(o, q)
  BY LeadsOn DEF Sent
<1> QED BY <1>1 DEF Sent

LEMMA FlushTaskIs ==
    ASSUME NEW o, Fine(o), Sendable(o), NEW i \in Nat, Positions(o, i) # {}
    PROVE  Sent(o, FlushTask(o, i))
<1> DEFINE p == FlushTask(o, i)
           at == Position(o, i)
           t == o.tools[at]
<1>1. at \in DOMAIN o.tools
  BY PositionIs
<1>2. CASE t.task = 0
  <2>1. p = o
    BY <1>2 DEF FlushTask
  <2> QED BY <2>1, SentItself
<1>3. CASE t.task # 0
  <2>1. p = EmitToolDelta([o EXCEPT !.tools[at] = [@ EXCEPT !.task = 0, !.taskSent = TRUE]], i, Whole)
    BY <1>3 DEF FlushTask
  <2>2. Tool(o, i).open
    BY <1>1, <1>3 DEF Sendable, Tool
  <2> HIDE DEF p
  <2>3. /\ Leads(o, p) /\ Only(o, p, at) /\ p.invalid = o.invalid
        /\ p.text = o.text /\ p.think = o.think
        /\ p.tools[at].open /\ p.tools[at].task = 0
        /\ DOMAIN p.blocks = DOMAIN o.blocks
    BY <2>1, <2>2, SendTaskIs, ZenonT(60)
  <2>4. \A k \in DOMAIN o.tools :
          p.tools[k].idx = o.tools[k].idx /\ (p.tools[k].open <=> o.tools[k].open)
    BY <2>2, <2>3 DEF Only, Tool
  <2>5. Sendable(p)
    BY <2>3 DEF Sendable, Only
  <2> QED BY <2>3, <2>4, <2>5 DEF Sent, Only, p
<1> QED BY <1>2, <1>3

LEMMA FlushTaskArgsIs ==
    ASSUME NEW o, Fine(o), Sendable(o)
    PROVE  Sent(o, FlushTaskArgs(o))
<1> DEFINE n == Len(o.tools)
           f == CHOOSE f : f = [p \in 0..n |->
                       IF p = 0 THEN o ELSE FlushTask(f[p - 1], o.tools[p].idx)]
           p == FlushTaskArgs(o)
           G == {m \in 0..n : Sent(o, f[m])}
<1>1. p = f[n]
  BY DEF FlushTaskArgs
<1>2. n \in Nat /\ DOMAIN o.tools = 1..n /\ o \in Outputs
  BY OutputIs DEF Fine
<1>3. f = [q \in 0..n |-> IF q = 0 THEN o ELSE FlushTask(f[q - 1], o.tools[q].idx)]
  <2> HIDE DEF n
  <2> QED BY <1>2, SentIs
<1> HIDE DEF f, p
<1>4. 0 \in G
  <2>1. f[0] = o /\ 0 \in 0..n
    BY <1>2, <1>3
  <2> QED BY <2>1, SentItself
<1>5. ASSUME NEW k \in 0..n, k # n, k \in G PROVE k + 1 \in G
  <2> DEFINE a == f[k]
             c == f[k + 1]
             i == o.tools[k + 1].idx
  <2>1. k + 1 \in 1..n /\ k + 1 \in 0..n /\ (k + 1) - 1 = k /\ k + 1 # 0
    BY <1>2, <1>5
  <2>2. c = FlushTask(a, i)
    BY <1>3, <2>1
  <2>3. Sent(o, a)
    BY <1>5
  <2>4. Fine(a) /\ Sendable(a) /\ k + 1 \in DOMAIN a.tools /\ a.tools[k + 1].idx = i /\ i \in Nat
    BY <1>2, <2>1, <2>3, ToolIs DEF Sent, Leads
  <2> HIDE DEF a, c, i
  <2>5. Positions(a, i) # {}
    BY <2>4, PositionAt DEF Fine, Coherent
  <2>6. Sent(o, c)
    BY <2>2, <2>3, <2>4, <2>5, FlushTaskIs, SentOn
  <2> QED BY <2>1, <2>6 DEF c
<1>6. n \in G
  <2> HIDE DEF G
  <2> QED BY <1>2, <1>4, <1>5, UpTo
<1> QED BY <1>1, <1>6 DEF p

(***************************************************************************)
(* Unwinding the stack of blocks.                                          *)
(***************************************************************************)

\* What unwinding the stack of blocks changes: those after the first n are closed.
Unwound(o, p, n) ==
    /\ p \in Outputs /\ Follows(o, p) /\ SameCalls(o, p)
    /\ DOMAIN p.blocks = DOMAIN o.blocks
    /\ \A b \in DOMAIN o.blocks : p.blocks[b].open => b <= n

LEMMA UnwoundIs ==
    ASSUME NEW o, Len(o.blocks) \in Nat
    PROVE  LET n == Len(o.blocks)
               f == CHOOSE f : f = [p \in 0..n |->
                       IF p = 0 THEN o ELSE StopOpenBlock(f[p - 1], n + 1 - p)]
           IN  f = [p \in 0..n |-> IF p = 0 THEN o ELSE StopOpenBlock(f[p - 1], n + 1 - p)]
<1> DEFINE n == Len(o.blocks)
<1>0. n \in Nat
  OBVIOUS
<1> HIDE DEF n
<1> DEFINE Is(f, m) == f = [p \in 0..m |->
                    IF p = 0 THEN o ELSE StopOpenBlock(f[p - 1], n + 1 - p)]
           G == {m \in 0..n : \E f : Is(f, m)}
<1>1. 0 \in G
  <2> DEFINE f == [k \in 0..0 |-> o]
  <2>1. Is(f, 0)
    OBVIOUS
  <2>2. \E g : Is(g, 0)
    BY <2>1
  <2>3. 0 \in 0..n
    BY <1>0
  <2> HIDE DEF Is
  <2> QED BY <2>2, <2>3
<1>2. ASSUME NEW k \in 0..n, k # n, k \in G PROVE k + 1 \in G
  <2>1. PICK f : Is(f, k)
    BY <1>2
  <2> DEFINE g == [p \in 0..k + 1 |-> IF p = k + 1 THEN StopOpenBlock(f[k], n + 1 - (k + 1)) ELSE f[p]]
  <2>2. k \in Nat /\ k + 1 \in 0..n
    BY <1>0, <1>2
  <2>3. ASSUME NEW p \in 0..k + 1
        PROVE  g[p] = IF p = 0 THEN o ELSE StopOpenBlock(g[p - 1], n + 1 - p)
    <3>1. CASE p = k + 1
      <4>1. p # 0 /\ g[p] = StopOpenBlock(f[k], n + 1 - p) /\ p - 1 = k
        BY <2>2, <3>1
      <4>2. g[k] = f[k]
        BY <2>2
      <4> QED BY <4>1, <4>2
    <3>2. CASE p # k + 1
      <4>1. p \in 0..k /\ g[p] = f[p]
        BY <2>2, <3>2
      <4>2. p # 0 => p - 1 \in 0..k /\ g[p - 1] = f[p - 1]
        BY <2>2, <4>1
      <4>3. f[p] = IF p = 0 THEN o ELSE StopOpenBlock(f[p - 1], n + 1 - p)
        BY <2>1, <4>1
      <4> QED BY <4>1, <4>2, <4>3
    <3> QED BY <3>1, <3>2
  <2>4. Is(g, k + 1)
    <3>1. g = [p \in 0..k + 1 |-> g[p]]
      OBVIOUS
    <3> HIDE DEF g
    <3> QED BY <2>3, <3>1
  <2> QED BY <2>2, <2>4
<1>3. n \in G
  <2> HIDE DEF G
  <2> QED BY <1>0, <1>1, <1>2, UpTo
<1> QED BY <1>3, Zenon DEF n

LEMMA UnwindBlocksIs ==
    ASSUME NEW o \in Outputs, o.begun, o.api = "messages"
    PROVE  Unwound(o, UnwindBlocks(o), 0)
<1> DEFINE n == Len(o.blocks)
           f == CHOOSE f : f = [p \in 0..n |->
                       IF p = 0 THEN o ELSE StopOpenBlock(f[p - 1], n + 1 - p)]
           p == UnwindBlocks(o)
           G == {m \in 0..n : Unwound(o, f[m], n - m)}
<1>1. p = f[n]
  BY DEF UnwindBlocks
<1>2. n \in Nat /\ DOMAIN o.blocks = 1..n
  BY OutputIs
<1>3. f = [q \in 0..n |-> IF q = 0 THEN o ELSE StopOpenBlock(f[q - 1], n + 1 - q)]
  <2>1. Len(o.blocks) \in Nat
    BY <1>2
  <2> QED BY <2>1, UnwoundIs, Zenon
<1> HIDE DEF f, p
<1>4. 0 \in G
  <2>1. f[0] = o /\ 0 \in 0..n /\ n - 0 = n
    BY <1>2, <1>3
  <2>2. \A b \in DOMAIN o.blocks : b <= n
    BY <1>2
  <2>3. Unwound(o, o, n)
    BY <2>2, FollowsItself DEF Unwound, SameCalls, SameHeader
  <2> QED BY <2>1, <2>3
<1>5. ASSUME NEW k \in 0..n, k # n, k \in G PROVE k + 1 \in G
  <2> DEFINE a == f[k]
             c == f[k + 1]
             i == n - k
  <2>1. /\ k + 1 \in 1..n /\ k + 1 \in 0..n /\ (k + 1) - 1 = k /\ k + 1 # 0
        /\ n + 1 - (k + 1) = i /\ i \in 1..n /\ n - (k + 1) = i - 1
    <3>1. n \in Nat /\ k \in 0..n /\ k # n
      BY <1>2, <1>5
    <3> HIDE DEF n
    <3> QED BY <3>1
  <2>2. c = StopOpenBlock(a, i)
    BY <1>3, <2>1
  <2>3. Unwound(o, a, i)
    BY <1>5
  <2>4. a \in Outputs /\ a.begun /\ a.api = "messages" /\ DOMAIN a.blocks = DOMAIN o.blocks
        /\ i \in DOMAIN a.blocks
    BY <1>2, <2>1, <2>3 DEF Unwound, SameCalls, SameHeader
  <2> HIDE DEF a, c, i
  <2>5. CASE ~a.blocks[i].open
    <3>1. c = a
      BY <2>2, <2>5 DEF StopOpenBlock
    <3>2. \A b \in DOMAIN o.blocks : b <= i /\ b # i => b <= i - 1
      BY <1>2, <2>1
    <3>3. Unwound(o, c, i - 1)
      BY <2>3, <2>4, <2>5, <3>1, <3>2 DEF Unwound
    <3> QED BY <2>1, <3>3 DEF c
  <2>6. CASE a.blocks[i].open
    <3>1. c = StopBlock(a, i)
      BY <2>2, <2>6 DEF StopOpenBlock
    <3>2. ~Malformed(a, i)
      BY <2>4 DEF Malformed
    <3>3. Follows(a, c)
      BY <2>4, <2>6, <3>1, StopFollows
    <3>4. /\ c \in Outputs /\ SameHeader(a, c) /\ c.tools = a.tools /\ c.invalid = a.invalid
          /\ DOMAIN c.blocks = DOMAIN a.blocks /\ ~c.blocks[i].open /\ OthersStay(a, c, i)
      BY <2>4, <3>1, <3>2, StopBlockIs
    <3>5. Follows(o, c)
      BY <2>3, <3>3, FollowsOn DEF Unwound
    <3>6. SameCalls(o, c)
      BY <2>3, <3>4 DEF Unwound, SameCalls, SameHeader
    <3>7. \A b \in DOMAIN o.blocks : b <= i /\ b # i => b <= i - 1
      BY <1>2, <2>1
    <3>8. \A b \in DOMAIN o.blocks : c.blocks[b].open => b <= i - 1
      BY <2>3, <2>4, <3>4, <3>7 DEF Unwound, OthersStay
    <3>9. Unwound(o, c, i - 1)
      BY <2>4, <3>4, <3>5, <3>6, <3>8 DEF Unwound
    <3> QED BY <2>1, <3>9 DEF c
  <2> QED BY <2>5, <2>6
<1>6. n \in G
  <2> HIDE DEF G
  <2> QED BY <1>2, <1>4, <1>5, UpTo
<1>7. n - n = 0
  BY <1>2
<1> QED BY <1>1, <1>6, <1>7 DEF p

\* Nothing is left open but calls that a Responses client does not get.
LEMMA CloseUnclosedIs ==
    ASSUME NEW o, Fine(o)
    PROVE  LET p == CloseUnclosedBlocks(o) IN
           /\ p \in Outputs /\ Follows(o, p) /\ SameHeader(o, p)
           /\ \A b \in DOMAIN p.blocks : p.blocks[b].open => o.api = "responses" /\ IsTool(p, b)
<1> DEFINE p == CloseUnclosedBlocks(o)
<1>1. o \in Outputs /\ o.begun
  BY DEF Fine
<1>2. CASE o.api = "responses"
  <2>1. p = CloseAllBlocks(o)
    BY <1>2 DEF CloseUnclosedBlocks
  <2> HIDE DEF p
  <2>2. Leads(o, p) /\ AllStopped(p)
    BY <2>1, CloseAllBlocksIs DEF Calmed
  <2> QED BY <1>2, <2>2 DEF Leads, Fine, AllStopped, p
<1>3. CASE o.api # "responses"
  <2> DEFINE u == UnwindBlocks(o)
             T == [k \in DOMAIN u.tools |-> [u.tools[k] EXCEPT !.open = FALSE]]
             q == [u EXCEPT !.text = 0, !.think = 0, !.tools = T]
  <2>1. o.api = "messages"
    BY <1>1, <1>3 DEF Outputs, Wires
  <2>2. p = q
    BY <1>3 DEF CloseUnclosedBlocks
  <2>3. Unwound(o, u, 0)
    BY <1>1, <2>1, UnwindBlocksIs
  <2> HIDE DEF u
  <2>4. T \in Seq(ToolRecs)
    <3>1. u.tools \in Seq(ToolRecs)
      BY <2>3 DEF Unwound, Outputs
    <3>2. \A r \in ToolRecs : [r EXCEPT !.open = FALSE] \in ToolRecs
      BY DEF ToolRecs
    <3>3. DOMAIN T = 1..Len(u.tools) /\ Len(u.tools) \in Nat
      BY <3>1
    <3>4. ASSUME NEW k \in 1..Len(u.tools) PROVE T[k] \in ToolRecs
      <4>1. k \in DOMAIN u.tools /\ u.tools[k] \in ToolRecs
        BY <3>1
      <4>2. T[k] = [u.tools[k] EXCEPT !.open = FALSE]
        BY <4>1
      <4> HIDE DEF T
      <4> QED BY <3>2, <4>1, <4>2
    <3>5. T = [k \in 1..Len(u.tools) |-> T[k]]
      BY <3>3
    <3> HIDE DEF T
    <3> QED BY <3>3, <3>4, <3>5
  <2> HIDE DEF T
  <2>5. q \in Outputs /\ SameHeader(u, q) /\ SameStream(u, q)
    BY <2>3, <2>4 DEF Unwound, Outputs, SameHeader, SameStream
  <2> HIDE DEF q, p
  <2>6. Follows(o, q) /\ SameHeader(o, q) /\ q.blocks = u.blocks
    BY <2>3, <2>5, SameStreamFollows, FollowsOn DEF Unwound, SameCalls, SameHeader, SameStream
  <2>7. \A b \in DOMAIN q.blocks : ~q.blocks[b].open
    <3>1. \A b \in DOMAIN o.blocks : ~(b <= 0)
      BY <1>1, OutputIs
    <3> QED BY <2>3, <2>6, <3>1 DEF Unwound
  <2> QED BY <2>2, <2>5, <2>6, <2>7 DEF p
<1> QED BY <1>2, <1>3

(***************************************************************************)
(* Completing an answer.                                                   *)
(***************************************************************************)

LEMMA PrepareCompletionIs ==
    ASSUME NEW o, Fine(o), Sendable(o)
    PROVE  LET p == PrepareCompletion(o) IN
           Leads(o, p) /\ AllStopped(p) /\ DOMAIN p.blocks # {}
<1> DEFINE silent == o.blocks = <<>> \/ (~HasTool(o) /\ o.texts = 0 /\ o.thoughts > 0)
           q == IF silent THEN EmitText(o) ELSE o
           s == FlushTaskArgs(q)
           p == CloseAllBlocks(s)
<1>1. PrepareCompletion(o) = p
  BY DEF PrepareCompletion
<1>2. Leads(o, q) /\ q.tools = o.tools /\ DOMAIN q.blocks # {}
  <2>1. CASE silent
    <3>1. q = EmitText(o)
      BY <2>1
    <3> HIDE DEF q
    <3> QED BY <3>1, EmitTextIs DEF SameCalls
  <2>2. CASE ~silent
    <3>1. q = o /\ o.blocks # <<>> /\ o \in Outputs
      BY <2>2 DEF Fine
    <3>2. DOMAIN o.blocks # {}
      <4>1. o.blocks \in Seq(BlockRecs)
        BY <3>1 DEF Outputs
      <4>2. Len(o.blocks) # 0 /\ Len(o.blocks) \in Nat /\ DOMAIN o.blocks = 1..Len(o.blocks)
        BY <3>1, <4>1
      <4>3. 1 \in 1..Len(o.blocks)
        BY <4>2
      <4> QED BY <4>2, <4>3
    <3> HIDE DEF q
    <3> QED BY <3>1, <3>2, LeadsItself
  <2> QED BY <2>1, <2>2
<1> HIDE DEF q
<1>3. Sent(q, s) /\ Fine(s)
  <2>1. Fine(q) /\ Sendable(q)
    BY <1>2 DEF Leads, Sendable
  <2>2. Sent(q, s)
    BY <2>1, FlushTaskArgsIs
  <2> QED BY <2>2 DEF Sent, Leads
<1> HIDE DEF s
<1>4. Leads(s, p) /\ AllStopped(p) /\ DOMAIN p.blocks = DOMAIN s.blocks
  BY <1>3, CloseAllBlocksIs DEF Calmed
<1> HIDE DEF p
<1>5. Leads(o, p)
  BY <1>2, <1>3, <1>4, LeadsOn DEF Sent
<1> QED BY <1>1, <1>2, <1>3, <1>4, <1>5 DEF Sent

(***************************************************************************)
(* The terminal event.                                                     *)
(***************************************************************************)

\* The events of p, added to those already on their way, end the client's stream with e.
SealedAt(v, pre, p, e, x) ==
    \E w \in Views : Replays(v, pre \o p.new, w) /\ w.end = e /\ Shows(w, p, x)

Sealed(o, p, e) ==
    \A v, pre, x : pre \in Seq(EventRecs) /\ Tracks(v, pre, o, x) => SealedAt(v, pre, p, e, x)

LEMMA SealIs ==
    ASSUME NEW o \in Outputs, NEW p, NEW e \in {"stop", "error"},
           p.new = Append(o.new, Event(e, 0, "", 0)),
           p.blocks = o.blocks, p.api = o.api, p.begun = o.begun,
           e = "error" => o.begun \/ "early pings" \in Quirks,
           e = "stop" => /\ o.begun /\ \A b \in DOMAIN o.blocks : ~o.blocks[b].open
                         /\ DOMAIN o.blocks # {} \/ "empty answers" \in Quirks
    PROVE  Sealed(o, p, e)
<1> DEFINE y == Event(e, 0, "", 0)
<1>1. y \in EventRecs /\ y.e = e
  <2>1. e \in EventNames
    BY Names
  <2> QED BY <2>1, BareIs
<1>2. p.new = Append(o.new, y)
  OBVIOUS
<1> HIDE DEF y
<1>3. ASSUME NEW v, NEW pre, NEW x, pre \in Seq(EventRecs), Tracks(v, pre, o, x)
      PROVE  SealedAt(v, pre, p, e, x)
  <2>1. PICK w \in Views : Replays(v, pre \o o.new, w) /\ Agrees(w, o, x)
    BY <1>3 DEF Tracks
  <2>2. pre \o p.new = Append(pre \o o.new, y) /\ pre \o o.new \in Seq(EventRecs)
    <3>1. o.new \in Seq(EventRecs)
      BY DEF Outputs
    <3>2. pre \o Append(o.new, y) = Append(pre \o o.new, y) /\ pre \o o.new \in Seq(EventRecs)
      BY <1>1, <1>3, <3>1, AppendsToConcat
    <3> QED BY <1>2, <3>2
  <2>3. Legal(w, y)
    BY <1>1, <2>1 DEF Legal, Agrees, Shows, AllClosed, EventNames
  <2> DEFINE u == Got(w, y)
  <2>4. u \in Views /\ Replays(v, pre \o p.new, u)
    BY <1>1, <2>1, <2>2, <2>3, ReplayOneMore
  <2>5. Gains(w, y, u)
    BY <1>1, <2>1, <2>3, GotIs
  <2> HIDE DEF u
  <2>6. u.end = e
    BY <1>1, <2>5 DEF Gains
  <2>7. (u.begun <=> w.begun) /\ DOMAIN u.blocks = DOMAIN w.blocks
    BY <1>1, <2>5 DEF Gains
  <2>8. \A b \in DOMAIN w.blocks :
          /\ u.blocks[b].kind = w.blocks[b].kind /\ u.blocks[b].size = w.blocks[b].size
          /\ u.blocks[b].open <=> w.blocks[b].open
    BY <1>1, <2>5 DEF Gains
  <2>9. Shows(u, p, x)
    BY <2>1, <2>7, <2>8, ZenonT(60) DEF Agrees, Shows, Untold
  <2> QED BY <2>4, <2>6, <2>9 DEF SealedAt
<1> QED BY <1>3 DEF Sealed

LEMMA SealedOn ==
    ASSUME NEW o, NEW p, NEW q, NEW e, Follows(o, p), Sealed(p, q, e) PROVE Sealed(o, q, e)
BY DEF Follows, Sealed

\* Only the flags of the epoch changed.
SameRest(o, p) ==
    /\ p \in Outputs /\ p.api = o.api /\ p.begun = o.begun /\ p.blocks = o.blocks
    /\ p.tools = o.tools /\ p.invalid = o.invalid /\ p.text = o.text /\ p.think = o.think

LEMMA TerminalIs ==
    ASSUME NEW o \in Outputs
    PROVE  LET p == [o EXCEPT !.terminal = TRUE] IN
           SameRest(o, p) /\ p.new = o.new /\ p.reason = o.reason
<1>1. [o EXCEPT !.terminal = TRUE] \in Outputs
  BY DEF Outputs
<1> QED BY <1>1 DEF Outputs, SameRest

LEMMA ReasonIs ==
    ASSUME NEW o \in Outputs, NEW r \in {"", "stop", "context"}
    PROVE  LET p == [o EXCEPT !.reason = r] IN
           SameRest(o, p) /\ p.new = o.new /\ p.reason = r /\ p.terminal = o.terminal
<1>1. [o EXCEPT !.reason = r] \in Outputs
  BY DEF Outputs
<1> QED BY <1>1 DEF Outputs, SameRest

LEMMA AnswerIs ==
    ASSUME NEW o \in Outputs
    PROVE  LET p == [o EXCEPT !.terminal = TRUE, !.reason = "stop"] IN
           SameRest(o, p) /\ p.new = o.new /\ p.reason = "stop"
<1>1. [o EXCEPT !.terminal = TRUE, !.reason = "stop"] \in Outputs
  BY DEF Outputs
<1> QED BY <1>1 DEF Outputs, SameRest

LEMMA QuietIs ==
    ASSUME NEW o \in Outputs
    PROVE  LET p == Quiet(o) IN
           SameRest(o, p) /\ p.new = <<>> /\ p.reason = o.reason /\ p.terminal = o.terminal
<1>1. Quiet(o) \in Outputs
  <2>1. <<>> \in Seq(EventRecs)
    BY EmptySeq
  <2> DEFINE s == <<>>
  <2> HIDE DEF s
  <2>2. ASSUME s \in Seq(EventRecs) PROVE [o EXCEPT !.new = s] \in Outputs
    BY <2>2 DEF Outputs
  <2> QED BY <2>1, <2>2 DEF Quiet, s
<1> QED BY <1>1 DEF Outputs, SameRest, Quiet

LEMMA FineStays == ASSUME NEW o, Fine(o), NEW p, SameRest(o, p) PROVE Fine(p)
BY DEF Fine, SameRest, Coherent, ContentOK, CallsOK, CallOK, Current, IsTool

\* A call without an open block, and no open content: everything is closed.
LEMMA ClosedIs ==
    ASSUME NEW o, Fine(o), o.text = 0, o.think = 0, ~o.invalid,
           \A k \in DOMAIN o.tools : ~o.tools[k].open
    PROVE  Closed(o)
<1>1. ASSUME NEW b \in DOMAIN o.blocks, o.blocks[b].open PROVE FALSE
  <2>1. b # 0
    BY OutputIs DEF Fine
  <2>2. IsTool(o, b)
    BY <1>1, <2>1 DEF Fine, Coherent, ContentOK
  <2>3. PICK k \in DOMAIN o.tools : o.tools[k].started /\ o.tools[k].blk = b
    BY <2>2 DEF Fine, Coherent, CallsOK
  <2> QED BY <1>1, <2>3 DEF Fine, Coherent, CallsOK, CallOK
<1> QED BY <1>1 DEF Closed

(***************************************************************************)
(* Salvaging calls.                                                        *)
(***************************************************************************)

\* The blocks of the calls that were made, with their sizes.
WholeCalls(o) == \A k \in DOMAIN o.tools : o.tools[k].started => o.tools[k].args = Whole

LEMMA WholeCallsAre ==
    ASSUME NEW o, Fine(o), WholeCalls(o)
    PROVE  \A b \in DOMAIN o.blocks : IsTool(o, b) => o.blocks[b].size = Whole
BY DEF Fine, Coherent, CallsOK, CallOK, WholeCalls

OnlyCallsOpen(o) == \A b \in DOMAIN o.blocks : o.blocks[b].open => o.api = "responses" /\ IsTool(o, b)

LEMMA FinishSuccessIs ==
    ASSUME NEW o, Fine(o), ~o.terminal, DOMAIN o.blocks # {}
    PROVE  LET p == FinishSuccess(o) IN
           /\ Fine(p) /\ p.api = o.api /\ p.reason = o.reason
           /\ \/ Sealed(o, p, "error") /\ OnlyCallsOpen(p)
              \/ Sealed(o, p, "stop") /\ Closed(p)
           /\ WholeCalls(o) => WholeCalls(p)
<1> DEFINE c == CloseAllBlocks(o)
           e == IF c.invalid THEN "error" ELSE "stop"
           s == Say(c, Event(e, 0, "", 0))
           p == [s EXCEPT !.terminal = TRUE]
<1>1. FinishSuccess(o) = p
  BY DEF FinishSuccess
<1>2. Calmed(o, c, Len(o.tools)) /\ AllStopped(c)
  BY CloseAllBlocksIs
<1>3. e \in {"stop", "error"} /\ e \in EventNames
  BY Names
<1>a. c.invalid <=> e = "error"
  OBVIOUS
<1>4. c \in Outputs /\ Event(e, 0, "", 0) \in EventRecs
  <2> HIDE DEF c, e
  <2> QED BY <1>2, <1>3, BareIs DEF Calmed, Leads, Fine
<1> HIDE DEF c, e
<1>5. /\ s \in Outputs /\ s.new = Append(c.new, Event(e, 0, "", 0)) /\ SameCalls(c, s)
      /\ s.blocks = c.blocks /\ s.text = c.text /\ s.think = c.think
  BY <1>4, SayIs
<1> HIDE DEF s
<1>6. SameRest(s, p) /\ p.new = s.new /\ p.reason = s.reason
  BY <1>5, TerminalIs
<1> HIDE DEF p
<1>7. Fine(c) /\ Follows(o, c) /\ SameHeader(o, c) /\ DOMAIN c.blocks # {}
  BY <1>2 DEF Calmed, Leads
<1>8. Fine(p)
  <2>1. SameRest(c, p)
    BY <1>5, <1>6 DEF SameRest, SameCalls, SameHeader
  <2> QED BY <1>7, <2>1, FineStays
<1>9. p.api = o.api /\ p.reason = o.reason
  BY <1>5, <1>6, <1>7 DEF SameRest, SameCalls, SameHeader
<1>10. /\ p.new = Append(c.new, Event(e, 0, "", 0)) /\ p.blocks = c.blocks
       /\ p.api = c.api /\ p.begun = c.begun /\ p.tools = c.tools /\ c.begun
  BY <1>5, <1>6, <1>7 DEF SameRest, SameCalls, SameHeader, Fine
<1>11. ASSUME c.invalid PROVE Sealed(o, p, "error") /\ OnlyCallsOpen(p)
  <2>1. e = "error"
    BY <1>11, <1>a
  <2>2. Sealed(c, p, "error")
    BY <1>4, <1>10, <2>1, SealIs
  <2>3. Sealed(o, p, "error")
    BY <1>7, <2>2, SealedOn
  <2>4. OnlyCallsOpen(p)
    BY <1>2, <1>7, <1>10, <1>11 DEF AllStopped, OnlyCallsOpen, Fine, Coherent, IsTool
  <2> QED BY <2>3, <2>4
<1>12. ASSUME ~c.invalid PROVE Sealed(o, p, "stop") /\ Closed(p)
  <2>1. e = "stop"
    BY <1>12, <1>a, <1>3
  <2>2. \A b \in DOMAIN c.blocks : ~c.blocks[b].open
    BY <1>2, <1>12 DEF AllStopped
  <2>3. Sealed(c, p, "stop")
    BY <1>4, <1>7, <1>10, <2>1, <2>2, SealIs
  <2>4. Sealed(o, p, "stop")
    BY <1>7, <2>3, SealedOn
  <2>5. Closed(p)
    BY <1>10, <2>2 DEF Closed
  <2> QED BY <2>4, <2>5
<1>13. ASSUME WholeCalls(o) PROVE WholeCalls(p)
  BY <1>2, <1>10, <1>13 DEF WholeCalls, Calmed
<1> QED BY <1>1, <1>8, <1>9, <1>11, <1>12, <1>13

LEMMA FinishFailureIs ==
    ASSUME NEW o, Fine(o), ~o.terminal
    PROVE  LET p == FinishFailure(o) IN
           p \in Outputs /\ p.api = o.api /\ Sealed(o, p, "error") /\ OnlyCallsOpen(p)
<1> DEFINE c == CloseUnclosedBlocks(o)
           s == Say(c, Event("error", 0, "", 0))
           p == [s EXCEPT !.terminal = TRUE]
<1>1. FinishFailure(o) = p
  BY DEF FinishFailure
<1>2. /\ c \in Outputs /\ Follows(o, c) /\ SameHeader(o, c)
      /\ \A b \in DOMAIN c.blocks : c.blocks[b].open => o.api = "responses" /\ IsTool(c, b)
  BY CloseUnclosedIs
<1>4. Event("error", 0, "", 0) \in EventRecs
  BY Names, BareIs
<1> HIDE DEF c
<1>5. s \in Outputs /\ s.new = Append(c.new, Event("error", 0, "", 0)) /\ SameCalls(c, s)
      /\ s.blocks = c.blocks
  BY <1>2, <1>4, SayIs
<1> HIDE DEF s
<1>6. SameRest(s, p) /\ p.new = s.new
  BY <1>5, TerminalIs
<1> HIDE DEF p
<1>7. /\ p.new = Append(c.new, Event("error", 0, "", 0)) /\ p.blocks = c.blocks
      /\ p.api = c.api /\ p.begun = c.begun /\ c.begun /\ c.api = o.api
  BY <1>2, <1>5, <1>6 DEF SameRest, SameCalls, SameHeader, Fine
<1>8. Sealed(c, p, "error")
  BY <1>2, <1>7, SealIs
<1>9. Sealed(o, p, "error")
  BY <1>2, <1>8, SealedOn
<1>10. OnlyCallsOpen(p)
  BY <1>2, <1>7 DEF OnlyCallsOpen, IsTool
<1> QED BY <1>1, <1>6, <1>7, <1>9, <1>10 DEF SameRest

(***************************************************************************)
(* A chat attempt.                                                         *)
(***************************************************************************)

LEMMA NewOutputIs ==
    ASSUME NEW a \in Wires
    PROVE  LET o == NewOutput(a) IN
           /\ o \in Outputs /\ o.api = a /\ ~o.begun /\ ~o.terminal /\ ~o.invalid
           /\ o.blocks = <<>> /\ o.tools = <<>> /\ o.new = <<>>
           /\ o.text = 0 /\ o.think = 0 /\ o.reason = ""
<1>1. <<>> \in Seq(EventRecs) /\ <<>> \in Seq(BlockRecs) /\ <<>> \in Seq(ToolRecs)
  BY EmptySeq
<1>2. ASSUME NEW x \in Seq(EventRecs), NEW y \in Seq(BlockRecs), NEW z \in Seq(ToolRecs)
      PROVE  [api |-> a, begun |-> FALSE, reason |-> "", text |-> 0, think |-> 0,
              texts |-> 0, thoughts |-> 0, reasoned |-> FALSE, tools |-> z, blocks |-> y,
              invalid |-> FALSE, terminal |-> FALSE, new |-> x] \in Outputs
  BY DEF Outputs
<1>3. NewOutput(a) \in Outputs
  BY <1>1, <1>2 DEF NewOutput
<1> QED BY <1>3 DEF NewOutput

\* An epoch nothing was said of yet, or one that has begun.
Fresh(o) == o = NewOutput(o.api) /\ o.api \in Wires
Epoch(o) == (Fresh(o) \/ Fine(o)) /\ ~o.terminal

Keeps(o, p) ==
    /\ p.api = o.api /\ p.reason = o.reason /\ p.terminal = o.terminal /\ p.tools = o.tools
    /\ p.blocks = o.blocks

LEMMA StartIs ==
    ASSUME NEW o, Fresh(o) \/ Fine(o)
    PROVE  LET p == StartEvents(o) IN Fine(p) /\ Follows(o, p) /\ Keeps(o, p)
<1> DEFINE p == StartEvents(o)
<1>1. CASE o.begun
  <2>1. p = o
    BY <1>1 DEF StartEvents
  <2>2. Fine(o)
    BY <1>1, NewOutputIs DEF Fresh
  <2> QED BY <2>1, <2>2, FollowsItself DEF Keeps
<1>2. CASE ~o.begun
  <2>1. Fresh(o)
    BY <1>2 DEF Fine
  <2>2. o \in Outputs /\ o.blocks = <<>> /\ o.tools = <<>> /\ ~o.invalid /\ o.text = 0 /\ o.think = 0
    BY <2>1, NewOutputIs DEF Fresh
  <2>3. p \in Outputs /\ p.begun /\ Follows(o, p) /\ p = [o EXCEPT !.begun = TRUE, !.new = p.new]
    BY <1>2, <2>2, BeginFollows
  <2> HIDE DEF p
  <2>4. /\ p.api = o.api /\ p.reason = o.reason /\ p.terminal = o.terminal /\ p.tools = o.tools
        /\ p.blocks = o.blocks /\ p.invalid = o.invalid /\ p.text = o.text /\ p.think = o.think
    <3> DEFINE n == p.new
    <3>1. p = [o EXCEPT !.begun = TRUE, !.new = n]
      BY <2>3
    <3> HIDE DEF n
    <3> QED BY <2>2, <3>1 DEF Outputs
  <2>5. DOMAIN p.blocks = {} /\ DOMAIN p.tools = {}
    BY <2>2, <2>4
  <2>6. Fine(p)
    BY <2>2, <2>3, <2>4, <2>5 DEF Fine, Coherent, ContentOK, CallsOK, Current
  <2> QED BY <2>3, <2>4, <2>6 DEF Keeps, p
<1> QED BY <1>1, <1>2

(***************************************************************************)
(* Models that write their calls as text, and models that make them.       *)
(***************************************************************************)

\* The calls of a model that either writes all of its calls as text or makes them all.
Written(o) ==
    \A k \in DOMAIN o.tools :
        /\ o.tools[k].started /\ ~o.tools[k].open /\ o.tools[k].idx = k - 1
        /\ o.tools[k].args = Whole /\ o.tools[k].task = 0
Made(o) == \A k \in DOMAIN o.tools : o.tools[k].started => o.tools[k].open

Styled(o) ==
    /\ Written(o) \/ Made(o)
    /\ "late names" \notin Quirks => \A k \in DOMAIN o.tools : o.tools[k].started

LEMMA StyleStays == ASSUME NEW o, NEW p, p.tools = o.tools, Styled(o) PROVE Styled(p)
BY DEF Styled, Written, Made

LEMMA SendableIs == ASSUME NEW o, Fine(o), Styled(o) PROVE Sendable(o)
BY DEF Sendable, Styled, Written, Made, Fine, Coherent, CallsOK, CallOK

\* What a chunk of the upstream does to the output.
Advances(o, p) == Follows(o, p) /\ Fine(p) /\ Styled(p) /\ ~p.terminal /\ p.api = o.api

\* An output that a chat upstream feeds.
Fed(o) == Epoch(o) /\ Styled(o)

LEMMA BeginIs ==
    ASSUME NEW o, Fed(o)
    PROVE  LET p == StartEvents(o) IN Advances(o, p) /\ Keeps(o, p)
BY StartIs, StyleStays DEF Fed, Epoch, Keeps, Advances

LEMMA AdvancesBy ==
    ASSUME NEW o, NEW p, NEW q, Advances(o, p), Leads(p, q), Styled(q)
    PROVE  Advances(o, q)
BY FollowsOn DEF Advances, Leads, SameHeader

LEMMA FeedTextIs ==
    ASSUME NEW o, Fed(o)
    PROVE  Advances(o, EmitText(StartEvents(o)))
<1> DEFINE p == StartEvents(o)
<1>1. Advances(o, p)
  BY BeginIs
<1> HIDE DEF p
<1>2. Leads(p, EmitText(p)) /\ SameCalls(p, EmitText(p))
  BY <1>1, EmitTextIs DEF Advances
<1>3. Styled(EmitText(p))
  BY <1>1, <1>2, StyleStays DEF Advances, SameCalls
<1>4. Advances(o, EmitText(p))
  BY <1>1, <1>2, <1>3, AdvancesBy
<1> QED BY <1>4 DEF p

LEMMA FeedReasoningIs ==
    ASSUME NEW o, Fed(o), NEW n
    PROVE  Advances(o, NativeReasoning(StartEvents(o), n))
<1> DEFINE p == StartEvents(o)
<1>1. Advances(o, p)
  BY BeginIs
<1> HIDE DEF p
<1> DEFINE q == NativeReasoning(p, n)
<1>2. Leads(p, q) /\ SameCalls(p, q)
  BY <1>1, NativeReasoningIs DEF Advances
<1> HIDE DEF q
<1>3. Styled(q)
  BY <1>1, <1>2, StyleStays DEF Advances, SameCalls
<1>4. Advances(o, q)
  BY <1>1, <1>2, <1>3, AdvancesBy
<1> QED BY <1>4 DEF p, q

LEMMA FeedFinishIs ==
    ASSUME NEW o, Fed(o), NEW r \in {"stop", "context"}
    PROVE  Advances(o, [StartEvents(o) EXCEPT !.reason = r])
<1> DEFINE p == StartEvents(o)
           q == [p EXCEPT !.reason = r]
<1>1. Advances(o, p)
  BY BeginIs
<1> HIDE DEF p
<1>2. SameRest(p, q) /\ q.new = p.new /\ q.terminal = p.terminal
  <2>1. p \in Outputs /\ r \in {"", "stop", "context"}
    BY <1>1 DEF Advances, Fine
  <2> QED BY <2>1, ReasonIs
<1> HIDE DEF q
<1>3. Follows(o, q)
  BY <1>1, <1>2, SameStreamFollows, FollowsOn DEF Advances, SameRest, SameStream
<1>4. Fine(q) /\ Styled(q)
  BY <1>1, <1>2, FineStays, StyleStays DEF Advances, SameRest
<1>5. Advances(o, q)
  BY <1>1, <1>2, <1>3, <1>4 DEF Advances, SameRest
<1> QED BY <1>5 DEF p, q

LEMMA FeedToolCallIs ==
    ASSUME NEW o, Fed(o), ~WritesCalls(o), NEW i \in Nat, NEW named \in BOOLEAN, NEW n \in Nat,
           ~CallStarted(o, i) => named \/ "late names" \in Quirks
    PROVE  Advances(o, ProcessToolCall(CloseContentBlocks(StartEvents(o)), i, named, n))
<1> DEFINE p == StartEvents(o)
           c == CloseContentBlocks(p)
           q == ProcessToolCall(c, i, named, n)
<1>1. Advances(o, p) /\ Keeps(o, p)
  BY BeginIs
<1> HIDE DEF p
<1>2. Leads(p, c) /\ SameCalls(p, c)
  BY <1>1, CloseContentIs DEF Advances
<1> HIDE DEF c
<1>3. c.tools = o.tools /\ Fine(c)
  BY <1>1, <1>2 DEF Keeps, SameCalls, Leads
<1>4. Made(o)
  BY DEF WritesCalls, StartedTools, Made
<1>5. \A k \in Positions(c, i) : c.tools[k].started => c.tools[k].open
  BY <1>3, <1>4 DEF Positions, Made
<1>6. /\ Leads(c, q)
      /\ \A k \in DOMAIN q.tools :
           \/ k \in DOMAIN c.tools /\ q.tools[k] = c.tools[k]
           \/ /\ q.tools[k].started => q.tools[k].open
              /\ named \/ CallStarted(c, i) => q.tools[k].started
  <2>1. /\ Leads(c, q) /\ q.invalid = c.invalid /\ q.text = c.text /\ q.think = c.think
        /\ \A k \in DOMAIN q.tools :
             \/ k \in DOMAIN c.tools /\ q.tools[k] = c.tools[k]
             \/ /\ q.tools[k].idx = i
                /\ q.tools[k].started => q.tools[k].open
                /\ named \/ CallStarted(c, i) => q.tools[k].started
                /\ c.tools = <<>> /\ named /\ n = Whole => q.tools[k].args = Whole
        /\ q.tools # <<>>
    <3>1. Fine(c)
      BY <1>3
    <3>2. \A k \in Positions(c, i) : c.tools[k].started => c.tools[k].open
      BY <1>5
    <3> QED BY ONLY <3>1, <3>2, i \in Nat, named \in BOOLEAN, n \in Nat, ProcessToolCallIs
  <2> HIDE DEF q
  <2> QED BY <2>1
<1> HIDE DEF q
<1>7. Made(q)
  BY <1>3, <1>4, <1>6 DEF Made
<1>8. CallStarted(c, i) <=> CallStarted(o, i)
  BY <1>3 DEF CallStarted, StartedTools
<1>9. "late names" \notin Quirks => \A k \in DOMAIN q.tools : q.tools[k].started
  BY <1>3, <1>6, <1>8 DEF Fed, Styled
<1>10. Styled(q)
  BY <1>7, <1>9 DEF Styled
<1>11. Leads(p, q)
  BY <1>2, <1>6, LeadsOn
<1>12. Advances(o, q)
  BY <1>1, <1>10, <1>11, AdvancesBy
<1> QED BY <1>12 DEF p, c, q

LEMMA WrittenCallIs ==
    ASSUME NEW o, Fine(o), Styled(o), ~MakesCalls(o)
    PROVE  LET p == HeuristicToolUse(o) IN Leads(o, p) /\ Styled(p)
<1> DEFINE p == HeuristicToolUse(o)
           n == Len(o.tools) + 1
<1>1. Len(o.tools) \in Nat /\ DOMAIN o.tools = 1..Len(o.tools)
  BY OutputIs DEF Fine
<1>2. Written(o)
  BY DEF MakesCalls, Styled, Made, Written
<1>3. Positions(o, Len(o.tools)) = {}
  <2>1. \A k \in DOMAIN o.tools : k - 1 # Len(o.tools)
    BY <1>1
  <2> QED BY <1>2, <2>1 DEF Written, Positions
<1>4. /\ Leads(o, p)
      /\ DOMAIN p.tools = DOMAIN o.tools \cup {n}
      /\ \A k \in DOMAIN o.tools : p.tools[k] = o.tools[k]
      /\ p.tools[n].started /\ ~p.tools[n].open /\ p.tools[n].idx = Len(o.tools)
      /\ p.tools[n].args = Whole /\ p.tools[n].task = 0
  BY <1>3, HeuristicToolUseIs
<1> HIDE DEF p
<1>5. n - 1 = Len(o.tools)
  BY <1>1
<1> HIDE DEF n
<1>6. Written(p)
  BY <1>2, <1>4, <1>5 DEF Written
<1> QED BY <1>4, <1>6 DEF Styled, Written, p

LEMMA FeedWrittenCallIs ==
    ASSUME NEW o, Fed(o), ~MakesCalls(o)
    PROVE  Advances(o, HeuristicToolUse(StartEvents(o)))
<1> DEFINE p == StartEvents(o)
<1>1. Advances(o, p) /\ Keeps(o, p)
  BY BeginIs
<1> HIDE DEF p
<1>2. ~MakesCalls(p)
  BY <1>1 DEF MakesCalls, Keeps
<1>3. Leads(p, HeuristicToolUse(p)) /\ Styled(HeuristicToolUse(p))
  BY <1>1, <1>2, WrittenCallIs DEF Advances
<1>4. Advances(o, HeuristicToolUse(p))
  BY <1>1, <1>3, AdvancesBy
<1> QED BY <1>4 DEF p

(***************************************************************************)
(* Midstream recovery.                                                     *)
(***************************************************************************)

\* Only the sizes of the blocks differ.
SameShape(o, p) ==
    /\ p.api = o.api /\ p.begun = o.begun
    /\ DOMAIN p.blocks = DOMAIN o.blocks
    /\ \A b \in DOMAIN o.blocks :
         p.blocks[b].kind = o.blocks[b].kind /\ (p.blocks[b].open <=> o.blocks[b].open)

LEMMA ShapeTracks ==
    ASSUME NEW v, NEW pre, NEW o \in Outputs, NEW p \in Outputs, SameShape(o, p),
           Tracks(v, pre, Quiet(o), FALSE)
    PROVE  Tracks(v, pre, Quiet(p), FALSE)
<1> DEFINE r == Quiet(o)
           s == Quiet(p)
<1>1. SameRest(o, r) /\ r.new = <<>> /\ SameRest(p, s) /\ s.new = <<>>
  BY QuietIs
<1> HIDE DEF r, s
<1>2. \A w \in Views : Agrees(w, r, FALSE) => Agrees(w, s, FALSE)
  BY <1>1, ZenonT(60) DEF Agrees, Shows, SameShape, SameRest
<1>3. s.new = r.new
  BY <1>1
<1>4. Tracks(v, pre, r, FALSE)
  BY DEF r
<1>5. Tracks(v, pre, s, FALSE)
  BY <1>2, <1>3, <1>4, TracksSilently
<1> QED BY <1>5 DEF s

LEMMA ToolDeltaShape ==
    ASSUME NEW o, Fine(o), NEW i \in Nat, Positions(o, i) # {}, Tool(o, i).open,
           NEW n \in Nat \ {0}
    PROVE  SameShape(o, EmitToolDelta(o, i, n))
<1> DEFINE at == Position(o, i)
           b == o.tools[at].blk
           q == [o EXCEPT !.tools[at].args = @ + n]
           g == [q EXCEPT !.blocks[b].size = @ + n]
           p == EmitToolDelta(o, i, n)
<1>1. o \in Outputs /\ at \in DOMAIN o.tools
  BY PositionIs DEF Fine
<1>2. b \in DOMAIN o.blocks
  BY <1>1 DEF Tool, Fine, Coherent, CallsOK, CallOK
<1>3. q \in Outputs /\ q.api = o.api /\ q.begun = o.begun /\ q.blocks = o.blocks
  <2> DEFINE t == o.tools[at]
             r == [t EXCEPT !.args = @ + n]
  <2>1. r \in ToolRecs
    <3>1. t \in ToolRecs /\ t.args \in Nat /\ t.args + n \in Nat
      BY <1>1, ToolIs
    <3> DEFINE m == t.args + n
    <3>2. r = [t EXCEPT !.args = m]
      BY <3>1 DEF ToolRecs
    <3> HIDE DEF t, m
    <3>3. [t EXCEPT !.args = m] \in ToolRecs
      BY <3>1 DEF m, ToolRecs
    <3> QED BY <3>2, <3>3
  <2>2. q = [o EXCEPT !.tools[at] = r]
    BY <1>1 DEF Outputs
  <2> HIDE DEF r, q
  <2>3. [o EXCEPT !.tools[at] = r] \in Outputs /\ SameHeader(o, [o EXCEPT !.tools[at] = r])
        /\ SameStream(o, [o EXCEPT !.tools[at] = r])
    BY <1>1, <2>1, SetToolIs
  <2> QED BY <2>2, <2>3 DEF SameHeader, SameStream
<1> HIDE DEF q, b
<1>4. CASE o.api = "messages"
  <2>1. p = Delta(q, b, n)
    BY <1>4 DEF EmitToolDelta, q, b
  <2>2. /\ SameCalls(q, Delta(q, b, n)) /\ DOMAIN Delta(q, b, n).blocks = DOMAIN q.blocks
        /\ Delta(q, b, n).blocks[b].kind = q.blocks[b].kind
        /\ Delta(q, b, n).blocks[b].open = q.blocks[b].open
        /\ OthersStay(q, Delta(q, b, n), b)
    BY <1>2, <1>3, DeltaIs
  <2> HIDE DEF p
  <2>3. SameShape(o, p)
    BY <1>3, <2>1, <2>2 DEF SameShape, SameCalls, SameHeader, OthersStay
  <2> QED BY <2>3 DEF p
<1>5. CASE o.api # "messages"
  <2> DEFINE x == Event("", b, "tool", 0)
  <2>1. p = Say(g, x)
    BY <1>5 DEF EmitToolDelta, q, b
  <2>2. /\ g \in Outputs /\ SameCalls(q, g) /\ DOMAIN g.blocks = DOMAIN q.blocks
        /\ g.blocks[b].kind = q.blocks[b].kind
        /\ g.blocks[b].open = q.blocks[b].open
        /\ OthersStay(q, g, b)
    <3>1. q \in Outputs /\ b \in DOMAIN q.blocks /\ n \in Nat
      BY <1>2, <1>3
    <3> QED BY ONLY <3>1, SetSizeIs
  <2> HIDE DEF g
  <2>3. x \in EventRecs
    <3>1. b \in Nat /\ "" \in EventNames /\ "tool" \in BlockKinds \cup {""}
      BY <1>1, ToolIs, Names DEF BlockKinds, b
    <3> QED BY <3>1, EventIs
  <2> HIDE DEF x
  <2>4. SameCalls(g, Say(g, x)) /\ Say(g, x).blocks = g.blocks
    BY <2>2, <2>3, SayIs
  <2> HIDE DEF p
  <2>5. SameShape(o, p)
    BY <1>3, <2>1, <2>2, <2>4 DEF SameShape, SameCalls, SameHeader, OthersStay
  <2> QED BY <2>5 DEF p
<1> QED BY <1>4, <1>5

LEMMA FirstBrokenIs ==
    ASSUME Fine(out), Styled(out), HasTool(out), ~CanSalvage(out)
    PROVE  LET t == out.tools[FirstBroken] IN
           /\ FirstBroken \in DOMAIN out.tools /\ t.started /\ t.open /\ t.args # Whole
           /\ t.args \in Nat /\ t.task \in Nat /\ t.idx \in Nat
           /\ Positions(out, t.idx) # {} /\ Position(out, t.idx) = FirstBroken
           /\ Made(out)
<1>1. out \in Outputs /\ DOMAIN out.tools = 1..Len(out.tools)
  BY OutputIs DEF Fine
<1>2. Broken # {} /\ Broken \subseteq Nat
  BY <1>1 DEF CanSalvage, Broken, StartedTools
<1>3. \E m \in Broken : \A k \in Broken : m <= k
  BY <1>2, Least
<1>4. FirstBroken \in Broken
  BY <1>3 DEF FirstBroken
<1> DEFINE k == FirstBroken
<1> HIDE DEF k
<1>5. k \in DOMAIN out.tools /\ out.tools[k].started /\ out.tools[k].args # Whole
  BY <1>4 DEF Broken, StartedTools, k
<1>6. Made(out)
  BY <1>5 DEF Styled, Written
<1>7. out.tools[k].open
  BY <1>5, <1>6 DEF Made
<1>8. out.tools[k].args \in Nat /\ out.tools[k].task \in Nat /\ out.tools[k].idx \in Nat
  BY <1>1, <1>5, ToolIs
<1>9. Positions(out, out.tools[k].idx) # {} /\ Position(out, out.tools[k].idx) = k
  BY <1>5, PositionAt DEF Fine, Coherent
<1> QED BY <1>5, <1>6, <1>7, <1>8, <1>9 DEF k

LEMMA RepairIs ==
    ASSUME Fine(out), Styled(out), HasTool(out), ~CanSalvage(out),
           out.tools[FirstBroken].args + out.tools[FirstBroken].task <= Whole
    PROVE  LET t == out.tools[FirstBroken]
               p == EmitToolDelta(out, t.idx, Whole - t.args)
           IN  Leads(out, p) /\ Styled(p) /\ SameShape(out, p)
<1> DEFINE k == FirstBroken
           t == out.tools[k]
           n == Whole - t.args
           p == EmitToolDelta(out, t.idx, n)
<1> HIDE DEF k
<1>1. /\ k \in DOMAIN out.tools /\ t.started /\ t.open /\ t.args # Whole
      /\ t.args \in Nat /\ t.task \in Nat /\ t.idx \in Nat
      /\ Positions(out, t.idx) # {} /\ Position(out, t.idx) = k
      /\ Made(out)
  BY FirstBrokenIs DEF k
<1>2. n \in Nat \ {0}
  <2>1. t.args + t.task <= Whole
    BY DEF k
  <2> HIDE DEF t
  <2> QED BY <1>1, <2>1 DEF Whole
<1> HIDE DEF n
<1>3. Tool(out, t.idx).open
  BY <1>1 DEF Tool
<1>4. Leads(out, p) /\ Only(out, p, k) /\ Grown(t, p.tools[k], n)
  BY <1>1, <1>2, <1>3, EmitToolDeltaIs
<1>5. SameShape(out, p)
  BY <1>1, <1>2, <1>3, ToolDeltaShape
<1> HIDE DEF p
<1>6. Styled(p)
  BY <1>1, <1>4 DEF Styled, Made, Only, Grown
<1> QED BY <1>4, <1>5, <1>6 DEF p, n, k

Continued(o, think, text, call) ==
    LET r == IF think THEN EmitReasoning(o) ELSE o
        t == IF text THEN EmitText(r) ELSE r
    IN  IF call THEN ProcessToolCall(CloseContentBlocks(t), 0, TRUE, Whole) ELSE t

LEMMA ContinuedIs ==
    ASSUME NEW o, Fine(o), Styled(o), ~HasTool(o),
           NEW think \in BOOLEAN, NEW text \in BOOLEAN, NEW call \in BOOLEAN
    PROVE  LET c == Continued(o, think, text, call) IN
           Leads(o, c) /\ ("late names" \notin Quirks => WholeCalls(c))
<1> DEFINE r == IF think THEN EmitReasoning(o) ELSE o
           t == IF text THEN EmitText(r) ELSE r
           s == CloseContentBlocks(t)
           u == ProcessToolCall(s, 0, TRUE, Whole)
           c == IF call THEN u ELSE t
<1>1. Leads(o, r) /\ r.tools = o.tools
  <2>1. CASE think
    <3>1. Leads(o, EmitReasoning(o)) /\ SameCalls(o, EmitReasoning(o))
      BY EmitReasoningIs
    <3>2. r = EmitReasoning(o)
      BY <2>1
    <3> HIDE DEF r
    <3> QED BY <3>1, <3>2 DEF SameCalls
  <2>2. CASE ~think
    BY <2>2, LeadsItself
  <2> QED BY <2>1, <2>2
<1> HIDE DEF r
<1>2. Leads(r, t) /\ t.tools = r.tools
  <2>0. Fine(r)
    BY <1>1 DEF Leads
  <2>1. CASE text
    <3>1. Leads(r, EmitText(r)) /\ SameCalls(r, EmitText(r))
      BY <2>0, EmitTextIs
    <3>2. t = EmitText(r)
      BY <2>1
    <3> HIDE DEF t
    <3> QED BY <3>1, <3>2 DEF SameCalls
  <2>2. CASE ~text
    BY <2>0, <2>2, LeadsItself
  <2> QED BY <2>1, <2>2
<1> HIDE DEF t
<1>3. Leads(o, t) /\ t.tools = o.tools /\ Fine(t)
  BY <1>1, <1>2, LeadsOn DEF Leads
<1>4. Leads(t, s) /\ SameCalls(t, s)
  BY <1>3, CloseContentIs
<1> HIDE DEF s
<1>5. Fine(s) /\ s.tools = o.tools /\ Leads(o, s)
  BY <1>3, <1>4, LeadsOn DEF Leads, SameCalls
<1>6. \A k \in DOMAIN o.tools : ~o.tools[k].started
  BY DEF HasTool, StartedTools
<1>7. \A k \in Positions(s, 0) : s.tools[k].started => s.tools[k].open
  BY <1>5, <1>6 DEF Positions
<1>8. /\ Leads(s, u) /\ u.invalid = s.invalid /\ u.text = s.text /\ u.think = s.think
      /\ \A k \in DOMAIN u.tools :
           \/ k \in DOMAIN s.tools /\ u.tools[k] = s.tools[k]
           \/ /\ u.tools[k].idx = 0
              /\ u.tools[k].started => u.tools[k].open
              /\ TRUE \/ CallStarted(s, 0) => u.tools[k].started
              /\ s.tools = <<>> /\ TRUE /\ Whole = Whole => u.tools[k].args = Whole
      /\ u.tools # <<>>
  <2>1. Fine(s)
    BY <1>5
  <2>2. 0 \in Nat /\ TRUE \in BOOLEAN /\ Whole \in Nat
    BY DEF Whole
  <2> QED BY ONLY <2>1, <1>7, <2>2, ProcessToolCallIs
<1> HIDE DEF u
<1>9. Leads(o, c)
  BY <1>3, <1>5, <1>8, LeadsOn
<1>10. ASSUME "late names" \notin Quirks PROVE WholeCalls(c)
  <2>1. o.tools = <<>>
    <3>1. DOMAIN o.tools = {}
      BY <1>6, <1>10 DEF Styled
    <3>2. o.tools \in Seq(ToolRecs)
      BY DEF Fine, Outputs
    <3>3. Len(o.tools) = 0
      <4>1. Len(o.tools) \in Nat /\ DOMAIN o.tools = 1..Len(o.tools)
        BY <3>2
      <4>2. 1 \notin 1..Len(o.tools)
        BY <3>1, <4>1
      <4> QED BY <4>1, <4>2
    <3> QED BY <3>2, <3>3, EmptySeq
  <2>2. CASE call
    BY <1>5, <1>8, <2>1, <2>2 DEF WholeCalls
  <2>3. CASE ~call
    BY <1>3, <2>1, <2>3 DEF WholeCalls
  <2> QED BY <2>2, <2>3
<1>11. Continued(o, think, text, call) = c
  BY DEF Continued, r, t, s, u
<1> HIDE DEF c
<1> QED BY <1>9, <1>10, <1>11

(***************************************************************************)
(* A Responses upstream for a Messages client.                             *)
(***************************************************************************)

Moves(o, p) == Follows(o, p) /\ Fine(p) /\ ~p.terminal /\ p.api = o.api

LEMMA MovesOn ==
    ASSUME NEW o, NEW p, NEW q, Moves(o, p), Leads(p, q) PROVE Moves(o, q)
BY FollowsOn DEF Moves, Leads, SameHeader

LEMMA MoveStarts ==
    ASSUME NEW o, Epoch(o)
    PROVE  Moves(o, StartEvents(o)) /\ Keeps(o, StartEvents(o))
BY StartIs DEF Epoch, Moves, Keeps

LEMMA TranslateContentIs ==
    ASSUME NEW o, Epoch(o)
    PROVE  Moves(o, EmitText(StartEvents(o))) /\ Moves(o, EmitReasoning(StartEvents(o)))
<1> DEFINE p == StartEvents(o)
<1>1. Moves(o, p)
  BY MoveStarts
<1> HIDE DEF p
<1>2. Leads(p, EmitText(p)) /\ Leads(p, EmitReasoning(p))
  BY <1>1, EmitTextIs, EmitReasoningIs DEF Moves
<1> QED BY <1>1, <1>2, MovesOn DEF p

LEMMA MoveCloses ==
    ASSUME NEW o, Epoch(o)
    PROVE  LET p == CloseContentBlocks(StartEvents(o)) IN
           Moves(o, p) /\ p.tools = o.tools /\ p.text = 0 /\ p.think = 0
<1> DEFINE p == StartEvents(o)
<1>1. Moves(o, p) /\ Keeps(o, p)
  BY MoveStarts
<1> HIDE DEF p
<1>2. /\ Leads(p, CloseContentBlocks(p)) /\ SameCalls(p, CloseContentBlocks(p))
      /\ CloseContentBlocks(p).text = 0 /\ CloseContentBlocks(p).think = 0
  BY <1>1, CloseContentIs DEF Moves
<1> QED BY <1>1, <1>2, MovesOn DEF p, Keeps, SameCalls

LEMMA HiddenReasoningIs ==
    ASSUME NEW o, Epoch(o)
    PROVE  LET s == StartBlock(CloseContentBlocks(StartEvents(o)), "thinking")
           IN  Moves(o, StopBlock(s, Len(s.blocks)))
<1> DEFINE c == CloseContentBlocks(StartEvents(o))
           s == StartBlock(c, "thinking")
           n == Len(c.blocks) + 1
           p == StopBlock(s, n)
<1>1. Moves(o, c) /\ c.text = 0 /\ c.think = 0
  BY MoveCloses
<1> HIDE DEF c
<1>2. /\ s \in Outputs /\ Follows(c, s) /\ SameCalls(c, s) /\ CallsOK(s)
      /\ s.text = 0 /\ s.think = 0
      /\ DOMAIN s.blocks = DOMAIN c.blocks \cup {n} /\ OthersStay(c, s, n)
      /\ n \notin DOMAIN c.blocks
      /\ s.blocks[n].open /\ s.blocks[n].kind = "thinking" /\ Len(s.blocks) = n
  <2>1. Fine(c) /\ "thinking" \in {"text", "thinking"}
    BY <1>1 DEF Moves
  <2> QED BY <1>1, <2>1, StartContent
<1> HIDE DEF s, n
<1>3. s.begun /\ n \in DOMAIN s.blocks /\ ~Malformed(s, n)
  BY <1>1, <1>2 DEF Moves, Fine, SameCalls, SameHeader, Malformed
<1>4. Follows(s, p)
  BY <1>2, <1>3, StopFollows
<1>5. /\ p \in Outputs /\ SameHeader(s, p) /\ p.tools = s.tools /\ p.text = s.text
      /\ p.think = s.think /\ p.invalid = s.invalid
      /\ DOMAIN p.blocks = DOMAIN s.blocks
      /\ p.blocks[n].kind = s.blocks[n].kind /\ ~p.blocks[n].open /\ OthersStay(s, p, n)
  BY <1>2, <1>3, StopBlockIs
<1> HIDE DEF p
<1>6. CallsOK(p)
  <2>1. ~IsTool(s, n)
    BY <1>2 DEF IsTool
  <2> QED BY <1>2, <1>3, <1>5, <2>1, NoTool
<1>7. ContentOK(p)
  <2>1. \A b \in DOMAIN c.blocks : p.blocks[b] = c.blocks[b]
    BY <1>2, <1>5 DEF OthersStay
  <2>2. \A b \in DOMAIN c.blocks : c.blocks[b].open => IsTool(c, b) \/ b = 0
    BY <1>1 DEF Moves, Fine, Coherent, ContentOK
  <2>3. \A b \in DOMAIN p.blocks : p.blocks[b].open => IsTool(p, b) \/ b = 0
    BY <1>2, <1>5, <2>1, <2>2 DEF IsTool
  <2> QED BY <1>2, <1>5, <2>3 DEF ContentOK, Current
<1>8. Fine(p) /\ SameHeader(c, p)
  BY <1>1, <1>2, <1>5, <1>6, <1>7 DEF Moves, Fine, Coherent, SameCalls, SameHeader
<1>9. Moves(o, p)
  BY <1>1, <1>2, <1>4, <1>8, FollowsOn DEF Moves, SameHeader
<1> QED BY <1>2, <1>9 DEF p, s, c

LEMMA EnsureStartedIs ==
    ASSUME NEW o, Epoch(o), NEW i \in Nat, CallStarted(o, i) => Tool(o, i).open
    PROVE  LET p == EnsureStarted(o, i) IN
           Moves(o, p) /\ Positions(p, i) # {} /\ Tool(p, i).open
<1> DEFINE c == CloseContentBlocks(StartEvents(o))
           e == EnsureTool(c, i)
           p == EnsureStarted(o, i)
<1>1. Moves(o, c) /\ c.tools = o.tools
  BY MoveCloses
<1> HIDE DEF c
<1>2. Leads(c, e) /\ Positions(e, i) # {}
      /\ (Positions(c, i) # {} => e = c)
      /\ (Positions(c, i) = {} => /\ Position(e, i) = Len(c.tools) + 1
                                  /\ e.tools[Len(c.tools) + 1] = NewTool(i))
  BY <1>1, EnsureToolIs DEF Moves
<1> HIDE DEF e
<1>3. p = IF Tool(e, i).started THEN e ELSE StartTool(e, i)
  BY DEF EnsureStarted, e, c
<1> HIDE DEF p
<1>4. Moves(o, e) /\ Fine(e)
  BY <1>1, <1>2, MovesOn DEF Leads
<1>5. CASE Tool(e, i).started
  <2>1. Positions(c, i) # {}
    BY <1>2, <1>5, NewToolIs DEF Tool
  <2>2. e = c
    BY <1>2, <2>1
  <2>3. Positions(o, i) = Positions(c, i) /\ Position(o, i) = Position(c, i) /\ Tool(o, i) = Tool(c, i)
    BY <1>1 DEF Positions, Position, Tool
  <2>4. Position(o, i) \in DOMAIN o.tools /\ o.tools[Position(o, i)].idx = i
    BY <2>1, <2>3, PositionIs
  <2>5. CallStarted(o, i)
    BY <1>5, <2>2, <2>3, <2>4 DEF CallStarted, StartedTools, Tool
  <2>6. Tool(p, i).open /\ p = e
    BY <1>3, <1>5, <2>2, <2>3, <2>5
  <2> QED BY <1>2, <1>4, <2>6 DEF p
<1>6. CASE ~Tool(e, i).started
  <2> DEFINE at == Position(e, i)
  <2>1. p = StartTool(e, i)
    BY <1>3, <1>6
  <2>2. Leads(e, p) /\ Only(e, p, at) /\ at \in DOMAIN e.tools /\ p.tools[at].open
    BY <1>2, <1>4, <1>6, <2>1, StartToolIs
  <2>3. e.tools[at].idx = i
    BY <1>2, PositionIs
  <2> HIDE DEF at
  <2>4. Positions(p, i) # {} /\ Position(p, i) = at
    BY <1>4, <2>2, <2>3, OnlyKeeps DEF Leads
  <2>5. Moves(o, p)
    BY <1>4, <2>2, MovesOn
  <2>6. Positions(p, i) # {} /\ Tool(p, i).open
    BY <2>2, <2>4 DEF Tool
  <2> QED BY <2>5, <2>6 DEF p
<1> QED BY <1>5, <1>6

LEMMA ToolDeltaMoves ==
    ASSUME NEW o, NEW p, Moves(o, p), NEW i \in Nat, Positions(p, i) # {}, Tool(p, i).open,
           NEW n \in Nat \ {0}
    PROVE  LET q == EmitToolDelta(p, i, n) IN Moves(o, q) /\ Positions(q, i) # {}
<1> DEFINE q == EmitToolDelta(p, i, n)
           at == Position(p, i)
<1>1. Leads(p, q) /\ Only(p, q, at) /\ at \in DOMAIN p.tools
  BY EmitToolDeltaIs DEF Moves
<1> HIDE DEF q
<1>2. p.tools[at].idx = i
  BY PositionIs
<1>3. Positions(q, i) # {}
  <2> HIDE DEF at
  <2> QED BY <1>1, <1>2, OnlyKeeps DEF Moves, Leads
<1> QED BY <1>1, <1>3, MovesOn DEF q

LEMMA TranslateCallIs ==
    ASSUME NEW o, Epoch(o), NEW i \in Nat, CallStarted(o, i) => Tool(o, i).open, NEW n \in Nat
    PROVE  LET p == EnsureStarted(o, i) IN Moves(o, IF n = 0 THEN p ELSE EmitToolDelta(p, i, n))
<1> DEFINE p == EnsureStarted(o, i)
<1>1. Moves(o, p) /\ Positions(p, i) # {} /\ Tool(p, i).open
  BY EnsureStartedIs
<1> HIDE DEF p
<1>2. CASE n = 0
  BY <1>1, <1>2 DEF p
<1>3. CASE n # 0
  <2>1. n \in Nat \ {0}
    BY <1>3
  <2>2. Moves(o, EmitToolDelta(p, i, n))
    BY <1>1, <2>1, ToolDeltaMoves
  <2> QED BY <1>3, <2>2 DEF p
<1> QED BY <1>2, <1>3

LEMMA CallDoneIs ==
    ASSUME NEW o, Epoch(o), NEW i \in Nat, CallStarted(o, i) => Tool(o, i).open,
           NEW all \in BOOLEAN
    PROVE  LET p == EnsureStarted(o, i) IN
           Moves(o, StopTool(IF all THEN EmitToolDelta(p, i, Whole) ELSE p, i))
<1> DEFINE p == EnsureStarted(o, i)
           q == IF all THEN EmitToolDelta(p, i, Whole) ELSE p
<1>1. Moves(o, p) /\ Positions(p, i) # {} /\ Tool(p, i).open
  BY EnsureStartedIs
<1> HIDE DEF p
<1>2. Moves(o, q) /\ Positions(q, i) # {}
  <2>1. CASE all
    <3>1. Whole \in Nat \ {0}
      BY DEF Whole
    <3>2. Moves(o, EmitToolDelta(p, i, Whole)) /\ Positions(EmitToolDelta(p, i, Whole), i) # {}
      BY <1>1, <3>1, ToolDeltaMoves
    <3>3. q = EmitToolDelta(p, i, Whole)
      BY <2>1
    <3> HIDE DEF q
    <3> QED BY <3>2, <3>3 DEF q
  <2>2. CASE ~all
    BY <1>1, <2>2
  <2> QED BY <2>1, <2>2
<1> HIDE DEF q
<1>3. Leads(q, StopTool(q, i))
  BY <1>2, StopToolIs DEF Moves
<1>4. Moves(o, StopTool(q, i))
  BY <1>2, <1>3, MovesOn
<1> QED BY <1>4 DEF q, p

\* The blocks of a translated answer when its terminal event arrives.
LEMMA TranslateEndIs ==
    ASSUME NEW o, Epoch(o), o.api = "messages"
    PROVE  LET c == CloseAllBlocks(StartEvents(o))
               p == IF c.blocks = <<>> THEN StopText(EmitText(c)) ELSE c
           IN  Moves(o, p) /\ Closed(p) /\ DOMAIN p.blocks # {}
<1> DEFINE s == StartEvents(o)
           c == CloseAllBlocks(s)
           t == EmitText(c)
           p == IF c.blocks = <<>> THEN StopText(t) ELSE c
<1>1. Moves(o, s)
  BY MoveStarts
<1> HIDE DEF s
<1>2. Calmed(s, c, Len(s.tools))
  BY <1>1, CloseAllBlocksIs DEF Moves
<1>3. Len(s.tools) \in Nat /\ DOMAIN s.tools = 1..Len(s.tools)
  BY <1>1, OutputIs DEF Moves, Fine
<1> HIDE DEF c
<1>4. /\ Leads(s, c) /\ c.text = 0 /\ c.think = 0 /\ Fine(c)
      /\ \A k \in DOMAIN c.tools : ~c.tools[k].open
  BY <1>2, <1>3 DEF Calmed, Leads
<1>5. c.api = "messages" /\ ~c.invalid
  BY <1>1, <1>4 DEF Moves, Leads, SameHeader, Fine, Coherent
<1>6. CASE c.blocks = <<>>
  <2>1. Leads(c, t) /\ SameCalls(c, t) /\ t.think = 0 /\ t.text \in DOMAIN t.blocks /\ Fine(t)
    BY <1>4, EmitTextIs DEF Leads
  <2> HIDE DEF t
  <2>2. /\ Leads(t, StopText(t)) /\ SameCalls(t, StopText(t)) /\ StopText(t).text = 0
        /\ StopText(t).think = t.think /\ DOMAIN StopText(t).blocks = DOMAIN t.blocks
    BY <2>1, StopTextIs
  <2>3. p = StopText(t)
    BY <1>6
  <2> HIDE DEF p
  <2>4. Leads(s, p) /\ Fine(p) /\ DOMAIN p.blocks # {}
    BY <1>4, <2>1, <2>2, <2>3, LeadsOn DEF Leads
  <2>5. ~p.invalid /\ p.text = 0 /\ p.think = 0 /\ \A k \in DOMAIN p.tools : ~p.tools[k].open
    BY <1>4, <1>5, <2>1, <2>2, <2>3 DEF SameCalls
  <2>6. Closed(p)
    BY <2>4, <2>5, ClosedIs
  <2>7. Moves(o, p)
    BY <1>1, <2>4, MovesOn
  <2> QED BY <2>4, <2>6, <2>7 DEF p, t, c, s
<1>7. CASE c.blocks # <<>>
  <2>1. p = c
    BY <1>7
  <2>2. Closed(c)
    BY <1>4, <1>5, ClosedIs
  <2>3. Moves(o, c)
    BY <1>1, <1>4, MovesOn
  <2>4. DOMAIN c.blocks # {}
    <3>1. c.blocks \in Seq(BlockRecs)
      BY <1>4 DEF Fine, Outputs
    <3>2. Len(c.blocks) # 0 /\ Len(c.blocks) \in Nat /\ DOMAIN c.blocks = 1..Len(c.blocks)
      BY <1>7, <3>1, EmptySeq
    <3>3. 1 \in 1..Len(c.blocks)
      BY <3>2
    <3> QED BY <3>2, <3>3
  <2> HIDE DEF p
  <2> QED BY <2>1, <2>2, <2>3, <2>4 DEF p, c, s
<1> QED BY <1>6, <1>7

(***************************************************************************)
(* The terminal event of a native answer.                                  *)
(***************************************************************************)

LEMMA AnswerSealIs ==
    ASSUME NEW o \in Outputs, o.begun, Closed(o),
           DOMAIN o.blocks # {} \/ "empty answers" \in Quirks
    PROVE  LET p == [Say(o, Event("stop", 0, "", 0)) EXCEPT !.terminal = TRUE, !.reason = "stop"] IN
           /\ Sealed(o, p, "stop") /\ p \in Outputs /\ p.api = o.api /\ p.begun
           /\ p.blocks = o.blocks /\ p.reason = "stop"
<1> DEFINE x == Event("stop", 0, "", 0)
           s == Say(o, x)
           p == [s EXCEPT !.terminal = TRUE, !.reason = "stop"]
<1>1. x \in EventRecs
  BY Names, BareIs
<1> HIDE DEF x
<1>2. s \in Outputs /\ s.new = Append(o.new, x) /\ SameCalls(o, s) /\ s.blocks = o.blocks
  BY <1>1, SayIs
<1> HIDE DEF s
<1>3. SameRest(s, p) /\ p.new = s.new /\ p.reason = "stop"
  BY <1>2, AnswerIs
<1> HIDE DEF p
<1>4. /\ p \in Outputs /\ p.blocks = o.blocks /\ p.api = o.api /\ p.begun = o.begun
      /\ p.new = Append(o.new, Event("stop", 0, "", 0))
  BY <1>2, <1>3 DEF SameRest, SameCalls, SameHeader, x
<1>5. \A b \in DOMAIN o.blocks : ~o.blocks[b].open
  BY DEF Closed
<1>6. Sealed(o, p, "stop")
  BY <1>4, <1>5, SealIs
<1> QED BY <1>3, <1>4, <1>6 DEF p, s, x

\* An error that a Responses relay passes on as it is.
LEMMA RelayErrorIs ==
    ASSUME NEW o \in Outputs, o.begun \/ "early pings" \in Quirks
    PROVE  LET p == Say(o, Event("error", 0, "", 0)) IN
           Sealed(o, p, "error") /\ p \in Outputs /\ p.api = o.api
<1> DEFINE x == Event("error", 0, "", 0)
           p == Say(o, x)
<1>1. x \in EventRecs
  BY Names, BareIs
<1> HIDE DEF x
<1>2. p \in Outputs /\ p.new = Append(o.new, x) /\ SameCalls(o, p) /\ p.blocks = o.blocks
  BY <1>1, SayIs
<1> HIDE DEF p
<1>3. /\ p.api = o.api /\ p.begun = o.begun
      /\ p.new = Append(o.new, Event("error", 0, "", 0))
  BY <1>2 DEF SameCalls, SameHeader, x
<1>4. Sealed(o, p, "error")
  BY <1>2, <1>3, SealIs
<1> QED BY <1>2, <1>3, <1>4 DEF p, x

(***************************************************************************)
(* An upstream whose events keep their meaning.                            *)
(***************************************************************************)

SoundCalls(o) ==
    \A b \in DOMAIN o.blocks : IsTool(o, b) /\ ~o.blocks[b].open => o.blocks[b].size \in {0, Whole}

Mirrored(o) ==
    /\ o \in Outputs
    /\ ~o.begun => o.blocks = <<>>
    /\ SoundCalls(o)
    /\ o.reason = "stop" => Closed(o) /\ (o.blocks # <<>> \/ "empty answers" \in Quirks)

Relayed(o, p) == Follows(o, p) /\ Mirrored(p) /\ p.api = o.api

LEMMA RelayBeginIs ==
    ASSUME NEW o, Mirrored(o), ~o.begun
    PROVE  Relayed(o, StartEvents(o)) /\ StartEvents(o).begun
<1> DEFINE p == StartEvents(o)
<1>1. p \in Outputs /\ p.begun /\ Follows(o, p) /\ p = [o EXCEPT !.begun = TRUE, !.new = p.new]
  BY BeginFollows DEF Mirrored
<1> HIDE DEF p
<1>2. p.api = o.api /\ p.blocks = o.blocks /\ p.reason = o.reason
  <2> DEFINE n == p.new
  <2>1. p = [o EXCEPT !.begun = TRUE, !.new = n] /\ o \in Outputs
    BY <1>1 DEF Mirrored
  <2> HIDE DEF n
  <2> QED BY <2>1 DEF Outputs
<1>3. Mirrored(p)
  BY <1>1, <1>2 DEF Mirrored, SoundCalls, IsTool, Closed
<1> QED BY <1>1, <1>2, <1>3 DEF Relayed, p

LEMMA RelayOpenIs ==
    ASSUME NEW o, Mirrored(o), o.begun, o.reason # "stop", NEW kind \in BlockKinds
    PROVE  Relayed(o, StartBlock(o, kind)) /\ StartBlock(o, kind).begun
<1> DEFINE p == StartBlock(o, kind)
           n == Len(o.blocks) + 1
<1>1. o \in Outputs
  BY DEF Mirrored
<1>2. Follows(o, p)
  BY <1>1, StartFollows
<1>3. /\ p \in Outputs /\ SameCalls(o, p)
      /\ DOMAIN p.blocks = DOMAIN o.blocks \cup {n}
      /\ p.blocks[n].open /\ OthersStay(o, p, n)
  BY <1>1, StartBlockIs
<1> HIDE DEF p, n
<1>4. p.begun /\ p.api = o.api /\ p.reason = o.reason
  BY <1>3 DEF SameCalls, SameHeader
<1>5. SoundCalls(p)
  BY <1>3 DEF Mirrored, SoundCalls, IsTool, OthersStay
<1> QED BY <1>2, <1>3, <1>4, <1>5 DEF Relayed, Mirrored, p

LEMMA RelayDeltaIs ==
    ASSUME NEW o, Mirrored(o), o.begun, o.reason # "stop",
           NEW b \in DOMAIN o.blocks, o.blocks[b].open, NEW n \in Nat \ {0}
    PROVE  /\ Relayed(o, Delta(o, b, n)) /\ Delta(o, b, n).begun
           /\ Untold(o, b) => LET p == [o EXCEPT !.blocks[b].size = @ + n] IN
                              Relayed(o, p) /\ p.begun
<1>1. o \in Outputs
  BY DEF Mirrored
<1>2. Relayed(o, Delta(o, b, n)) /\ Delta(o, b, n).begun
  <2> DEFINE p == Delta(o, b, n)
  <2>1. Follows(o, p)
    BY <1>1, DeltaFollows
  <2>2. /\ p \in Outputs /\ SameCalls(o, p) /\ DOMAIN p.blocks = DOMAIN o.blocks
        /\ p.blocks[b].kind = o.blocks[b].kind /\ p.blocks[b].open = o.blocks[b].open
        /\ OthersStay(o, p, b)
    BY <1>1, DeltaIs
  <2> HIDE DEF p
  <2>3. p.begun /\ p.api = o.api /\ p.reason = o.reason
    BY <2>2 DEF SameCalls, SameHeader
  <2>4. SoundCalls(p)
    BY <2>2 DEF Mirrored, SoundCalls, IsTool, OthersStay
  <2> QED BY <2>1, <2>2, <2>3, <2>4 DEF Relayed, Mirrored, p
<1>3. ASSUME Untold(o, b)
      PROVE  LET p == [o EXCEPT !.blocks[b].size = @ + n] IN Relayed(o, p) /\ p.begun
  <2> DEFINE p == [o EXCEPT !.blocks[b].size = @ + n]
  <2>1. /\ p \in Outputs /\ p.new = o.new /\ SameCalls(o, p) /\ DOMAIN p.blocks = DOMAIN o.blocks
        /\ p.blocks[b].kind = o.blocks[b].kind /\ p.blocks[b].open = o.blocks[b].open
        /\ OthersStay(o, p, b)
    <3>1. n \in Nat
      OBVIOUS
    <3> QED BY ONLY <1>1, <3>1, b \in DOMAIN o.blocks, SetSizeIs
  <2> HIDE DEF p
  <2>2. p.begun /\ p.api = o.api /\ p.reason = o.reason
    BY <2>1 DEF SameCalls, SameHeader
  <2>3. Follows(o, p)
    <3>1. p.begun = o.begun
      BY <2>1 DEF SameCalls, SameHeader
    <3> QED BY <1>1, <1>3, <2>1, <2>2, <3>1, HiddenFollows
  <2>4. SoundCalls(p)
    BY <2>1 DEF Mirrored, SoundCalls, IsTool, OthersStay
  <2> QED BY <2>1, <2>2, <2>3, <2>4 DEF Relayed, Mirrored, p
<1> QED BY <1>2, <1>3

LEMMA RelayCloseIs ==
    ASSUME NEW o, Mirrored(o), o.begun, o.reason # "stop",
           NEW b \in DOMAIN o.blocks, o.blocks[b].open,
           IsTool(o, b) => o.blocks[b].size \in {0, Whole}
    PROVE  Relayed(o, StopBlock(o, b)) /\ StopBlock(o, b).begun
<1> DEFINE p == StopBlock(o, b)
<1>1. o \in Outputs
  BY DEF Mirrored
<1>2. ~Malformed(o, b)
  BY DEF Malformed, IsTool
<1>3. Follows(o, p)
  BY <1>1, StopFollows
<1>4. /\ p \in Outputs /\ SameHeader(o, p)
      /\ DOMAIN p.blocks = DOMAIN o.blocks
      /\ p.blocks[b].kind = o.blocks[b].kind /\ p.blocks[b].size = o.blocks[b].size
      /\ OthersStay(o, p, b)
  BY <1>1, <1>2, StopBlockIs
<1> HIDE DEF p
<1>5. p.begun /\ p.api = o.api /\ p.reason = o.reason
  BY <1>4 DEF SameHeader
<1>6. SoundCalls(p)
  BY <1>4 DEF Mirrored, SoundCalls, IsTool, OthersStay
<1> QED BY <1>3, <1>4, <1>5, <1>6 DEF Relayed, Mirrored, p

LEMMA RelayNoteIs ==
    ASSUME NEW o, Mirrored(o), o.begun \/ "early pings" \in Quirks
    PROVE  LET p == Say(o, Event("note", 0, "", 0)) IN
           Relayed(o, p) /\ p.begun = o.begun /\ p.reason = o.reason
<1> DEFINE x == Event("note", 0, "", 0)
           p == Say(o, x)
<1>1. o \in Outputs
  BY DEF Mirrored
<1>2. x \in EventRecs /\ Follows(o, p)
  BY <1>1, SayFollows
<1> HIDE DEF x
<1>3. p \in Outputs /\ SameCalls(o, p) /\ p.blocks = o.blocks
  BY <1>1, <1>2, SayIs
<1> HIDE DEF p
<1>4. p.begun = o.begun /\ p.api = o.api /\ p.reason = o.reason
  BY <1>3 DEF SameCalls, SameHeader
<1>5. Mirrored(p)
  BY <1>3, <1>4 DEF Mirrored, SoundCalls, IsTool, Closed
<1> QED BY <1>2, <1>4, <1>5 DEF Relayed, p, x

LEMMA RelayReasonIs ==
    ASSUME NEW o, Mirrored(o), o.begun, Closed(o), o.blocks # <<>> \/ "empty answers" \in Quirks
    PROVE  LET p == [o EXCEPT !.reason = "stop"] IN Relayed(o, p) /\ p.begun
<1> DEFINE p == [o EXCEPT !.reason = "stop"]
<1>1. o \in Outputs
  BY DEF Mirrored
<1>2. SameRest(o, p) /\ p.new = o.new /\ p.reason = "stop"
  <2>1. "stop" \in {"", "stop", "context"}
    OBVIOUS
  <2> QED BY <1>1, <2>1, ReasonIs
<1> HIDE DEF p
<1>3. Follows(o, p)
  BY <1>2, SameStreamFollows DEF SameRest, SameStream
<1>4. Mirrored(p)
  BY <1>2 DEF Mirrored, SoundCalls, IsTool, Closed, SameRest
<1> QED BY <1>2, <1>3, <1>4 DEF Relayed, SameRest, p

LEMMA RelayedOn ==
    ASSUME NEW o, NEW p, NEW q, Relayed(o, p), Relayed(p, q) PROVE Relayed(o, q)
BY FollowsOn DEF Relayed

(***************************************************************************)
(* The invariant of a provider stream.                                     *)
(***************************************************************************)

\* What the client has before the first chunk.
NoView == [begun |-> FALSE, blocks |-> [b \in {} |-> FALSE], end |-> ""]

\* Where the generator goes on when its attempt is closed.
Place == IF pc = "shut" THEN then ELSE pc

Opening == {"new", "open", "connect"}
Underway == {"read", "cut", "broken", "finish", "recover", "collect"}
Places == Opening \cup Underway \cup {"done", "raised", "gone"}

\* Before an attempt is read nothing is under way.
Starts ==
    Place \in Opening =>
        /\ ~flushed /\ held = <<>>
        /\ Place = "connect" => out = NewOutput(api)

\* While an attempt is read or recovered, what was sent and what waits is its output.
Goes ==
    Place \in Underway =>
        /\ out \in Outputs /\ out.api = api
        /\ Tracks(view, pending \o held, out, TRUE)
        /\ Tracks(view, pending \o held, Quiet(out), FALSE)
        /\ flushed => held = <<>> /\ (out.begun \/ "early pings" \in Quirks)
        /\ Mirrors => Mirrored(out)
        /\ ~Mirrors => Epoch(out) /\ (flushed => out.begun)
        /\ ~Native => Styled(out)

\* Only a chat attempt that has emitted something is finished, continued or repaired.
Recovers ==
    /\ Place = "finish" => ~Native /\ out.begun /\ out.reason = "stop"
    /\ Place \in {"recover", "collect"} => ~Native /\ out.begun /\ DOMAIN out.blocks # {}
    /\ Place = "collect" /\ HasTool(out) => ~CanSalvage(out)

\* The view w shows what was recorded of a complete answer.
Delivered(w) ==
    /\ out \in Outputs /\ out.api = api
    /\ Shows(w, out, TRUE) /\ Closed(out)
    /\ Native => out.reason = "stop"
    /\ transport = "messages" => SoundCalls(out)
    /\ out.reason = "" /\ "late names" \notin Quirks =>
         \A b \in DOMAIN out.blocks : IsTool(out, b) => out.blocks[b].size = Whole

\* The view w shows no open block, except perhaps a malformed call.
Contained(w) ==
    ~Native \/ ResponsesToMessages =>
        \A b \in DOMAIN w.blocks : w.blocks[b].open => api = "responses" /\ w.blocks[b].kind = "tool"

\* A stream that is over leads its client to the end of an answer, or to no end.
Ends ==
    /\ Place = "done" =>
         /\ held = <<>>
         /\ \E w \in Views : /\ Replays(view, pending, w)
                             /\ \/ w.end = "stop" /\ Delivered(w)
                                \/ w.end = "error" /\ Contained(w)
    /\ Place = "raised" =>
         /\ held = <<>>
         /\ \E w \in Views : Replays(view, pending, w) /\ w.end = "" /\ Contained(w)
    /\ Place = "gone" => held = <<>> /\ pending = <<>>

Buffers ==
    /\ api \in Wires /\ view \in Views /\ Place \in Places
    /\ held \in Seq(EventRecs) /\ pending \in Seq(EventRecs)
    /\ ~flushed => pending = <<>> /\ view = NoView

StreamInv == Buffers /\ Starts /\ Goes /\ Recovers /\ Ends

(***************************************************************************)
(* The buffer: what is held back, and what waits to be taken.              *)
(***************************************************************************)

LEMMA NewIs ==
    ASSUME NEW o \in Outputs
    PROVE  o.new \in Seq(EventRecs) /\ o.api \in Wires /\ o.blocks \in Seq(BlockRecs)
BY DEF Outputs

LEMMA HoldIs ==
    ASSUME NEW o \in Outputs, Hold(o), pending = <<>>, held \in Seq(EventRecs),
           flushed => held = <<>>
    PROVE  /\ out' = Quiet(o) /\ held' \in Seq(EventRecs) /\ pending' \in Seq(EventRecs)
           /\ pending' \o held' = (pending \o held) \o o.new
           /\ flushed' => held' = <<>>
           /\ ~flushed' => pending' = <<>> /\ ~flushed
<1>1. o.new \in Seq(EventRecs) /\ <<>> \in Seq(EventRecs)
  BY NewIs, EmptySeq
<1>2. pending \o held = held /\ held \o o.new \in Seq(EventRecs)
  BY <1>1, ConcatEmptySeq, ConcatProperties
<1>3. out' = Quiet(o)
  BY DEF Hold
<1>4. CASE flushed /\ pending' = o.new /\ UNCHANGED bufferVars
  <2>1. held = <<>> /\ held' = <<>> /\ flushed'
    BY <1>4 DEF bufferVars
  <2>2. <<>> \o o.new = o.new /\ o.new \o <<>> = o.new
    BY <1>1, ConcatEmptySeq
  <2> QED BY <1>1, <1>2, <1>3, <1>4, <2>1, <2>2
<1>5. CASE flushed' = TRUE /\ pending' = held \o o.new /\ held' = <<>>
  <2>1. pending' \o held' = pending'
    BY <1>2, <1>5, ConcatEmptySeq
  <2> QED BY <1>1, <1>2, <1>3, <1>5, <2>1
<1>6. CASE ~flushed /\ held' = held \o o.new /\ UNCHANGED <<pending, flushed>>
  <2>1. pending' \o held' = held'
    BY <1>2, <1>6, ConcatEmptySeq
  <2> QED BY <1>1, <1>2, <1>3, <1>6, <2>1
<1> QED BY <1>4, <1>5, <1>6 DEF Hold

LEMMA ReleaseIs ==
    ASSUME NEW o \in Outputs, Release(o), pending = <<>>, held \in Seq(EventRecs)
    PROVE  /\ out' = Quiet(o) /\ held' = <<>> /\ flushed' = TRUE
           /\ pending' \in Seq(EventRecs) /\ pending' = (pending \o held) \o o.new
<1>1. o.new \in Seq(EventRecs)
  BY NewIs
<1>2. pending \o held = held /\ held \o o.new \in Seq(EventRecs)
  BY <1>1, ConcatEmptySeq, ConcatProperties
<1> QED BY <1>2 DEF Release

\* What was emitted goes to the buffer.
LEMMA Settles ==
    ASSUME NEW v, NEW pre \in Seq(EventRecs), NEW o \in Outputs, NEW es,
           es = pre \o o.new, Tracks(v, pre, o, TRUE)
    PROVE  Tracks(v, es, Quiet(o), TRUE) /\ Tracks(v, es, Quiet(Quiet(o)), FALSE)
<1>1. PICK w \in Views : Replays(v, es, w) /\ Agrees(w, o, TRUE)
  BY DEF Tracks
<1>2. es \in Seq(EventRecs)
  BY NewIs, ConcatProperties
<1>3. /\ Quiet(o).new = <<>> /\ Quiet(o).begun = o.begun /\ Quiet(o).blocks = o.blocks
      /\ Quiet(o).api = o.api /\ Quiet(o) \in Outputs
  BY QuietIs DEF SameRest
<1>4. /\ Quiet(Quiet(o)).new = <<>> /\ Quiet(Quiet(o)).begun = o.begun
      /\ Quiet(Quiet(o)).blocks = o.blocks /\ Quiet(Quiet(o)).api = o.api
  BY <1>3, QuietIs DEF SameRest
<1>5. es \o <<>> = es
  BY <1>2, ConcatEmptySeq
<1>6. Agrees(w, Quiet(o), TRUE)
  BY <1>1, <1>3 DEF Agrees, Shows, Untold
<1>7. Agrees(w, Quiet(Quiet(o)), FALSE)
  BY <1>1, <1>4 DEF Agrees, Shows, Untold
<1> QED BY <1>1, <1>3, <1>4, <1>5, <1>6, <1>7 DEF Tracks

\* The first of the waiting events is taken.
LEMMA TakesFirst ==
    ASSUME NEW a \in Seq(EventRecs), NEW b \in Seq(EventRecs), a # <<>>
    PROVE  a \o b # <<>> /\ Head(a \o b) = Head(a) /\ Tail(a \o b) = Tail(a) \o b
<1>1. Len(a) \in Nat \ {0} /\ Len(b) \in Nat
  OBVIOUS
<1>2. /\ a \o b \in Seq(EventRecs) /\ Len(a \o b) = Len(a) + Len(b)
      /\ \A i \in 1..Len(a) + Len(b) : (a \o b)[i] = IF i <= Len(a) THEN a[i] ELSE b[i - Len(a)]
  BY ConcatProperties
<1>3. a \o b # <<>>
  BY <1>1, <1>2
<1>4. Head(a \o b) = Head(a)
  <2>1. (a \o b)[1] = a[1]
    BY <1>1, <1>2
  <2> QED BY <1>2, <1>3, <2>1
<1>5. /\ Tail(a) \in Seq(EventRecs) /\ Len(Tail(a)) = Len(a) - 1
      /\ \A i \in 1..Len(a) - 1 : Tail(a)[i] = a[i + 1]
  BY HeadTailProperties
<1>6. /\ Tail(a \o b) \in Seq(EventRecs) /\ Len(Tail(a \o b)) = Len(a) + Len(b) - 1
      /\ \A i \in 1..Len(a) + Len(b) - 1 : Tail(a \o b)[i] = (a \o b)[i + 1]
  BY <1>2, <1>3, HeadTailProperties
<1>7. /\ Tail(a) \o b \in Seq(EventRecs) /\ Len(Tail(a) \o b) = Len(a) - 1 + Len(b)
      /\ \A i \in 1..Len(a) - 1 + Len(b) :
            (Tail(a) \o b)[i] = IF i <= Len(a) - 1 THEN Tail(a)[i] ELSE b[i - (Len(a) - 1)]
  BY <1>5, ConcatProperties
<1>8. \A i \in 1..Len(a) + Len(b) - 1 : Tail(a \o b)[i] = (Tail(a) \o b)[i]
  <2> SUFFICES ASSUME NEW i \in 1..Len(a) + Len(b) - 1 PROVE Tail(a \o b)[i] = (Tail(a) \o b)[i]
    OBVIOUS
  <2>1. i + 1 \in 1..Len(a) + Len(b) /\ i \in 1..Len(a) - 1 + Len(b)
    BY <1>1
  <2>2. Tail(a \o b)[i] = IF i + 1 <= Len(a) THEN a[i + 1] ELSE b[i + 1 - Len(a)]
    BY <1>2, <1>6, <2>1
  <2>3. (Tail(a) \o b)[i] = IF i <= Len(a) - 1 THEN Tail(a)[i] ELSE b[i - (Len(a) - 1)]
    BY <1>7, <2>1
  <2>4. i + 1 - Len(a) = i - (Len(a) - 1) /\ (i + 1 <= Len(a) <=> i <= Len(a) - 1)
    BY <1>1
  <2>5. i <= Len(a) - 1 => Tail(a)[i] = a[i + 1]
    BY <1>1, <1>5
  <2> QED BY <2>2, <2>3, <2>4, <2>5
<1>9. Len(Tail(a \o b)) = Len(Tail(a) \o b)
  BY <1>1, <1>6, <1>7
<1>10. Tail(a \o b) = Tail(a) \o b
  <2> DEFINE s == Tail(a \o b)
             t == Tail(a) \o b
  <2>1. s \in Seq(EventRecs) /\ t \in Seq(EventRecs) /\ Len(s) = Len(t)
    BY <1>6, <1>7, <1>9
  <2>2. \A i \in 1..Len(s) : s[i] = t[i]
    BY <1>6, <1>8
  <2> HIDE DEF s, t
  <2>3. s = t
    BY <2>1, <2>2, SeqEqual
  <2> QED BY <2>3 DEF s, t
<1> QED BY <1>3, <1>4, <1>10

LEMMA TracksAfterTaking ==
    ASSUME NEW v, NEW o \in Outputs, NEW x, NEW a \in Seq(EventRecs), NEW b \in Seq(EventRecs),
           a # <<>>, Tracks(v, a \o b, o, x)
    PROVE  /\ v \in Views /\ Legal(v, Head(a)) /\ Head(a) \in EventRecs
           /\ Got(v, Head(a)) \in Views /\ Tracks(Got(v, Head(a)), Tail(a) \o b, o, x)
<1>1. PICK w \in Views : Replays(v, (a \o b) \o o.new, w) /\ Agrees(w, o, x)
  BY DEF Tracks
<1> DEFINE ab == a \o b
           all == ab \o o.new
<1>2. o.new \in Seq(EventRecs) /\ ab \in Seq(EventRecs) /\ all \in Seq(EventRecs)
  BY NewIs, ConcatProperties
<1>3. ab # <<>> /\ Head(ab) = Head(a) /\ Tail(ab) = Tail(a) \o b
  BY TakesFirst
<1> HIDE DEF ab
<1>4. all # <<>> /\ Head(all) = Head(ab) /\ Tail(all) = Tail(ab) \o o.new
  BY <1>2, <1>3, TakesFirst
<1>5. Replays(v, all, w)
  BY <1>1 DEF ab
<1> HIDE DEF all
<1>6. /\ v \in Views /\ Legal(v, Head(all)) /\ Head(all) \in EventRecs
      /\ Got(v, Head(all)) \in Views /\ Replays(Got(v, Head(all)), Tail(all), w)
  BY <1>2, <1>4, <1>5, ReplayTheFirst
<1> QED BY <1>1, <1>3, <1>4, <1>6 DEF Tracks

(***************************************************************************)
(* The ways a stream goes on: it reads more, starts over, ends or raises.  *)
(***************************************************************************)

LEMMA QuietStays ==
    ASSUME NEW o \in Outputs
    PROVE  /\ Quiet(o) \in Outputs /\ Quiet(o).api = o.api /\ Quiet(o).begun = o.begun
           /\ Quiet(o).blocks = o.blocks /\ Quiet(o).reason = o.reason /\ Quiet(o).tools = o.tools
           /\ Fine(o) => Fine(Quiet(o))
           /\ Fine(o) /\ ~o.terminal => Epoch(Quiet(o))
           /\ Mirrored(o) => Mirrored(Quiet(o))
           /\ Styled(o) => Styled(Quiet(o))
           /\ Closed(o) => Closed(Quiet(o))
           /\ SoundCalls(o) => SoundCalls(Quiet(o))
           /\ \A w, x : Shows(w, o, x) => Shows(w, Quiet(o), x)
<1>1. SameRest(o, Quiet(o)) /\ Quiet(o).reason = o.reason /\ Quiet(o).terminal = o.terminal
  BY QuietIs
<1>2. /\ Quiet(o) \in Outputs /\ Quiet(o).api = o.api /\ Quiet(o).begun = o.begun
      /\ Quiet(o).blocks = o.blocks /\ Quiet(o).tools = o.tools
  BY <1>1 DEF SameRest
<1>3. Fine(o) => Fine(Quiet(o))
  BY <1>1, FineStays
<1>4. Fine(o) /\ ~o.terminal => Epoch(Quiet(o))
  BY <1>1, <1>3 DEF Epoch
<1>5. SoundCalls(o) => SoundCalls(Quiet(o))
  BY <1>2 DEF SoundCalls, IsTool
<1>6. Closed(o) => Closed(Quiet(o))
  BY <1>2 DEF Closed
<1>7. Mirrored(o) => Mirrored(Quiet(o))
  BY <1>1, <1>2, <1>5, <1>6 DEF Mirrored
<1>8. Styled(o) => Styled(Quiet(o))
  BY <1>2, StyleStays
<1>9. \A w, x : Shows(w, o, x) => Shows(w, Quiet(o), x)
  BY <1>2 DEF Shows, Untold
<1> QED BY <1>1, <1>2, <1>3, <1>4, <1>5, <1>6, <1>7, <1>8, <1>9

Apart == UNCHANGED <<view, api, transport>>

LEMMA ApartIs ==
    ASSUME Apart
    PROVE  /\ view' = view /\ api' = api /\ transport' = transport
           /\ Mirrors' <=> Mirrors
           /\ Native' <=> Native
           /\ ResponsesToMessages' <=> ResponsesToMessages
BY DEF Apart, Mirrors, Native, ResponsesToMessages

LEMMA PlacesDiffer ==
    /\ \A x \in Opening : x \notin Underway /\ x \notin {"done", "raised", "gone"}
    /\ \A x \in Underway : x \notin Opening /\ x \notin {"done", "raised", "gone"}
    /\ \A x \in {"done", "raised", "gone"} : x \notin Opening /\ x \notin Underway
                                             /\ x \notin {"finish", "recover", "collect"}
    /\ \A x \in Opening : x \notin {"finish", "recover", "collect"}
BY DEF Opening, Underway

\* An attempt is read on, or its answer is complete.
LEMMA Feeds ==
    ASSUME StreamInv, Place = "read", pending = <<>>, Apart,
           NEW o \in Outputs, Hold(o), Follows(out, o), o.api = api,
           Mirrors => Mirrored(o) /\ (o.begun \/ "early pings" \in Quirks),
           ~Mirrors => Fine(o) /\ ~o.terminal,
           ~Native => Styled(o),
           Place' = "read" \/ (Place' = "finish" /\ ~Native /\ o.reason = "stop")
    PROVE  StreamInv'
<1>1. /\ view' = view /\ api' = api
      /\ Mirrors' <=> Mirrors
      /\ Native' <=> Native
  BY ApartIs
<1>2. Place \in Underway /\ Place' \in Underway /\ Place' \in Places
  BY DEF Underway, Places
<1>3. /\ Tracks(view, pending \o held, out, TRUE) /\ (flushed => held = <<>>)
      /\ held \in Seq(EventRecs) /\ pending \in Seq(EventRecs) /\ api \in Wires /\ view \in Views
      /\ ~flushed => view = NoView
  BY <1>2 DEF StreamInv, Goes, Buffers
<1>4. /\ out' = Quiet(o) /\ held' \in Seq(EventRecs) /\ pending' \in Seq(EventRecs)
      /\ pending' \o held' = (pending \o held) \o o.new
      /\ flushed' => held' = <<>>
      /\ ~flushed' => pending' = <<>> /\ ~flushed
  BY <1>3, HoldIs
<1>5. pending \o held \in Seq(EventRecs)
  BY <1>3, ConcatProperties
<1>6. Tracks(view, pending \o held, o, TRUE)
  BY <1>3, <1>5 DEF Follows
<1>7. Tracks(view, pending' \o held', Quiet(o), TRUE) /\ Tracks(view, pending' \o held', Quiet(Quiet(o)), FALSE)
  BY <1>4, <1>5, <1>6, Settles
<1>8. Buffers'
  BY <1>1, <1>2, <1>3, <1>4 DEF Buffers
<1>9. Starts' /\ Ends'
  BY <1>2, PlacesDiffer DEF Starts, Ends
<1>10. ~Mirrors => o.begun
  BY DEF Fine
<1>11. Goes'
  <2>1. Quiet(o) \in Outputs /\ Quiet(o).api = api /\ Quiet(o).begun = o.begun
    BY QuietStays
  <2>2. Mirrors => Mirrored(Quiet(o))
    BY QuietStays
  <2>3. ~Mirrors => Epoch(Quiet(o))
    BY QuietStays
  <2>4. ~Native => Styled(Quiet(o))
    BY QuietStays
  <2> QED BY <1>1, <1>4, <1>7, <1>10, <2>1, <2>2, <2>3, <2>4 DEF Goes
<1>12. Recovers'
  <2>1. (~Native => Quiet(o).begun) /\ Quiet(o).reason = o.reason
    BY <1>10, QuietStays DEF Mirrors
  <2> QED BY <1>1, <1>4, <2>1 DEF Recovers
<1> QED BY <1>8, <1>9, <1>11, <1>12 DEF StreamInv

\* The generator goes elsewhere with what it has.
LEMMA GoesOn ==
    ASSUME StreamInv, Place \in Underway, Place' \in Underway, Apart, Recovers',
           UNCHANGED <<out, bufferVars, pending>>
    PROVE  StreamInv'
<1>1. /\ view' = view /\ api' = api
      /\ Mirrors' <=> Mirrors
      /\ Native' <=> Native
  BY ApartIs
<1>2. out' = out /\ held' = held /\ flushed' = flushed /\ pending' = pending
  BY DEF bufferVars
<1>3. Buffers'
  BY <1>1, <1>2 DEF StreamInv, Buffers, Places
<1>4. Starts' /\ Ends'
  BY PlacesDiffer DEF Starts, Ends
<1>5. Goes'
  BY <1>1, <1>2 DEF StreamInv, Goes
<1> QED BY <1>3, <1>4, <1>5 DEF StreamInv

\* Nothing was sent, and what waited is dropped.
LEMMA Drops ==
    ASSUME StreamInv, Place' \in {"open", "raised"}, Apart, ~flushed, held' = <<>>,
           UNCHANGED <<flushed, pending>>
    PROVE  StreamInv'
<1>1. view' = view /\ api' = api
  BY ApartIs
<1>2. pending = <<>> /\ view = NoView /\ view \in Views /\ api \in Wires
  BY DEF StreamInv, Buffers
<1>3. Buffers'
  BY <1>1, <1>2, EmptySeq DEF Buffers, Places, Opening
<1>4. Starts' /\ Goes' /\ Recovers'
  BY DEF Starts, Goes, Recovers, Opening, Underway
<1>5. Ends'
  <2>1. Replays(view, <<>>, view)
    BY <1>2, NothingToReplay
  <2>2. view.end = "" /\ DOMAIN view.blocks = {}
    BY <1>2 DEF NoView
  <2>3. Contained(view)'
    BY <1>1, <2>2 DEF Contained
  <2> QED BY <1>1, <1>2, <2>1, <2>2, <2>3 DEF Ends
<1> QED BY <1>3, <1>4, <1>5 DEF StreamInv

\* The answer p is complete.
Answers(p) ==
    /\ SealedAt(view, pending \o held, p, "stop", TRUE) /\ Closed(p)
    /\ Native => p.reason = "stop"
    /\ transport = "messages" => SoundCalls(p)
    /\ p.reason = "" /\ "late names" \notin Quirks =>
         \A b \in DOMAIN p.blocks : IsTool(p, b) => p.blocks[b].size = Whole

\* The failure is told.
Breaks(p) ==
    /\ SealedAt(view, pending \o held, p, "error", FALSE)
    /\ ~Native \/ ResponsesToMessages => OnlyCallsOpen(p)

LEMMA ShowsContained ==
    ASSUME NEW p, NEW w, NEW x, Shows(w, p, x), p.api = api,
           ~Native \/ ResponsesToMessages => OnlyCallsOpen(p)
    PROVE  Contained(w)
BY DEF Contained, Shows, OnlyCallsOpen, IsTool

LEMMA Seals ==
    ASSUME StreamInv, pending = <<>>, Place' = "done", Apart,
           NEW p \in Outputs, Release(p), p.api = api, Answers(p) \/ Breaks(p)
    PROVE  StreamInv'
<1>1. /\ view' = view /\ api' = api /\ transport' = transport
      /\ Native' <=> Native
      /\ ResponsesToMessages' <=> ResponsesToMessages
  BY ApartIs
<1>2. held \in Seq(EventRecs) /\ view \in Views /\ api \in Wires
  BY DEF StreamInv, Buffers
<1>3. /\ out' = Quiet(p) /\ held' = <<>> /\ flushed' = TRUE
      /\ pending' \in Seq(EventRecs) /\ pending' = (pending \o held) \o p.new
  BY <1>2, ReleaseIs
<1>4. Buffers'
  BY <1>1, <1>2, <1>3, EmptySeq DEF Buffers, Places
<1>5. Starts' /\ Goes' /\ Recovers'
  BY DEF Starts, Goes, Recovers, Opening, Underway
<1>6. ASSUME Answers(p)
      PROVE  \E w \in Views : Replays(view, pending', w) /\ w.end = "stop" /\ Delivered(w)'
  <2>1. PICK w \in Views : Replays(view, pending', w) /\ w.end = "stop" /\ Shows(w, p, TRUE)
    BY <1>3, <1>6 DEF Answers, SealedAt
  <2>2. /\ Quiet(p) \in Outputs /\ Quiet(p).api = p.api /\ Quiet(p).blocks = p.blocks
        /\ Quiet(p).reason = p.reason /\ Closed(Quiet(p)) /\ Shows(w, Quiet(p), TRUE)
        /\ SoundCalls(p) => SoundCalls(Quiet(p))
    BY <1>6, <2>1, QuietStays DEF Answers
  <2>3. Delivered(w)'
    BY <1>1, <1>3, <1>6, <2>2 DEF Delivered, Answers, IsTool
  <2> QED BY <2>1, <2>3
<1>7. ASSUME Breaks(p)
      PROVE  \E w \in Views : Replays(view, pending', w) /\ w.end = "error" /\ Contained(w)'
  <2>1. PICK w \in Views : Replays(view, pending', w) /\ w.end = "error" /\ Shows(w, p, FALSE)
    BY <1>3, <1>7 DEF Breaks, SealedAt
  <2>2. Contained(w)
    BY <1>7, <2>1, ShowsContained DEF Breaks
  <2>3. Contained(w)'
    BY <1>1, <2>2 DEF Contained
  <2> QED BY <2>1, <2>3
<1>8. Ends'
  BY <1>1, <1>3, <1>6, <1>7 DEF Ends
<1> QED BY <1>4, <1>5, <1>8 DEF StreamInv

\* The blocks are closed, or left alone, and the failure is raised.
LEMMA RaisesClosed ==
    ASSUME StreamInv, pending = <<>>, Place' = "raised", Apart,
           NEW p \in Outputs, Release(p), p.api = api,
           Tracks(view, pending \o held, p, FALSE),
           ~Native \/ ResponsesToMessages => OnlyCallsOpen(p)
    PROVE  StreamInv'
<1>1. /\ view' = view /\ api' = api
      /\ Native' <=> Native
      /\ ResponsesToMessages' <=> ResponsesToMessages
  BY ApartIs
<1>2. held \in Seq(EventRecs) /\ view \in Views /\ api \in Wires
  BY DEF StreamInv, Buffers
<1>3. /\ held' = <<>> /\ flushed' = TRUE
      /\ pending' \in Seq(EventRecs) /\ pending' = (pending \o held) \o p.new
  BY <1>2, ReleaseIs
<1>4. Buffers'
  BY <1>1, <1>2, <1>3, EmptySeq DEF Buffers, Places
<1>5. Starts' /\ Goes' /\ Recovers'
  BY DEF Starts, Goes, Recovers, Opening, Underway
<1>6. PICK w \in Views : Replays(view, pending', w) /\ w.end = "" /\ Shows(w, p, FALSE)
  BY <1>3 DEF Tracks, Agrees
<1>7. Contained(w)'
  <2>1. Contained(w)
    BY <1>6, ShowsContained
  <2> QED BY <1>1, <2>1 DEF Contained
<1>8. Ends'
  BY <1>1, <1>3, <1>6, <1>7 DEF Ends
<1> QED BY <1>4, <1>5, <1>8 DEF StreamInv

LEMMA RaisesAsIs ==
    ASSUME StreamInv, Place \in Underway, pending = <<>>, flushed, Place' = "raised", Apart,
           UNCHANGED <<out, bufferVars, pending>>, Native, ~ResponsesToMessages
    PROVE  StreamInv'
<1>1. /\ view' = view /\ api' = api
      /\ Native' <=> Native
      /\ ResponsesToMessages' <=> ResponsesToMessages
  BY ApartIs
<1>2. held' = held /\ flushed' = flushed /\ pending' = pending
  BY DEF bufferVars
<1>3. /\ api \in Wires /\ view \in Views /\ held = <<>> /\ out \in Outputs
      /\ Tracks(view, pending \o held, Quiet(out), FALSE)
  BY DEF StreamInv, Buffers, Goes
<1>4. Buffers'
  BY <1>1, <1>2, <1>3, EmptySeq DEF Buffers, Places
<1>5. Starts' /\ Goes' /\ Recovers'
  BY DEF Starts, Goes, Recovers, Opening, Underway
<1>6. PICK w \in Views : Replays(view, <<>>, w) /\ w.end = ""
  <2>1. Quiet(out).new = <<>>
    BY <1>3, QuietIs
  <2>2. (pending \o held) \o Quiet(out).new = <<>>
    <3>1. <<>> \o <<>> = <<>>
      BY EmptySeq, ConcatEmptySeq
    <3> QED BY <1>3, <2>1, <3>1
  <2> QED BY <1>3, <2>2 DEF Tracks, Agrees
<1>7. Ends'
  BY <1>1, <1>2, <1>3, <1>6 DEF Ends, Contained
<1> QED BY <1>4, <1>5, <1>7 DEF StreamInv

(***************************************************************************)
(* A chat attempt is read.                                                 *)
(***************************************************************************)

\* A chat attempt that is read, and one that is recovered.
LEMMA ChatReads ==
    ASSUME StreamInv, Place \in Underway, ~Native
    PROVE  /\ out \in Outputs /\ out.api = api /\ Epoch(out) /\ Styled(out) /\ Fed(out) /\ ~Mirrors
           /\ ~out.terminal /\ held \in Seq(EventRecs) /\ pending \in Seq(EventRecs)
           /\ pending \o held \in Seq(EventRecs)
           /\ Tracks(view, pending \o held, out, TRUE)
           /\ Tracks(view, pending \o held, Quiet(out), FALSE)
           /\ out.begun => Fine(out)
<1>1. ~Mirrors
  BY DEF Mirrors
<1>2. out \in Outputs /\ out.api = api /\ Epoch(out) /\ Styled(out)
  BY <1>1 DEF StreamInv, Goes
<1>3. held \in Seq(EventRecs) /\ pending \in Seq(EventRecs)
  BY DEF StreamInv, Buffers
<1>4. pending \o held \in Seq(EventRecs)
  BY <1>3, ConcatProperties
<1>5. out.begun => Fine(out)
  <2>1. Fresh(out) => ~out.begun
    BY NewOutputIs DEF Fresh
  <2> QED BY <1>2, <2>1 DEF Epoch
<1> QED BY <1>1, <1>2, <1>3, <1>4, <1>5 DEF StreamInv, Goes, Fed, Epoch

LEMMA FineIsOutput == ASSUME NEW o, Fine(o) PROVE o \in Outputs /\ o.begun
BY DEF Fine

LEMMA ChatFeeds ==
    ASSUME StreamInv, pc = "read", pending = <<>>, ~Native, Apart, NEW o, Hold(o), Advances(out, o),
           Place' = "read" \/ (Place' = "finish" /\ o.reason = "stop")
    PROVE  StreamInv'
<1>1. Place = "read" /\ Place \in Underway
  BY DEF Place, Underway
<1>2. ~Mirrors /\ out.api = api
  BY <1>1, ChatReads
<1>3. o \in Outputs /\ Follows(out, o) /\ Fine(o) /\ Styled(o) /\ ~o.terminal /\ o.api = api
  BY <1>2, FineIsOutput DEF Advances
<1> QED BY <1>1, <1>2, <1>3, Feeds

LEMMA CallIndices == ToolIndices \subseteq Nat /\ 0..Whole \subseteq Nat /\ Whole \in Nat \ {0}
<1>1. ToolIndices \subseteq Nat
  BY DEF ToolIndices
<1>2. Whole \in Nat \ {0}
  BY DEF Whole
<1> QED BY <1>1, <1>2

LEMMA ChatReadSteps ==
    ASSUME StreamInv, "mixed calls" \notin Quirks, ~Native, Apart
    PROVE  /\ FeedText => StreamInv'
           /\ \A n : FeedReasoning(n) => StreamInv'
           /\ \A i \in ToolIndices, named \in BOOLEAN, n \in 0..Whole :
                FeedToolCall(i, named, n) => StreamInv'
           /\ FeedWrittenCall => StreamInv'
           /\ \A r \in {"stop", "context"} : FeedFinish(r) => StreamInv'
<1>1. ASSUME NEW o, Feed(o)
      PROVE  /\ pc = "read" /\ pending = <<>> /\ Hold(o) /\ Place' = "read" /\ Fed(out)
             /\ Place \in Underway
  <2>1. pc = "read" /\ pending = <<>> /\ Hold(o) /\ pc' = pc
    BY <1>1 DEF Feed, Runs
  <2>2. Place \in Underway /\ Place' = "read"
    BY <2>1 DEF Place, Underway
  <2> QED BY <2>1, <2>2, ChatReads
<1>2. ASSUME FeedText PROVE StreamInv'
  <2>1. Feed(EmitText(StartEvents(out)))
    BY <1>2 DEF FeedText
  <2>2. Advances(out, EmitText(StartEvents(out)))
    BY <1>1, <2>1, FeedTextIs
  <2> QED BY <1>1, <2>1, <2>2, ChatFeeds
<1>3. ASSUME NEW n, FeedReasoning(n) PROVE StreamInv'
  <2>1. Feed(NativeReasoning(StartEvents(out), n))
    BY <1>3 DEF FeedReasoning
  <2>2. Advances(out, NativeReasoning(StartEvents(out), n))
    BY <1>1, <2>1, FeedReasoningIs
  <2> QED BY <1>1, <2>1, <2>2, ChatFeeds
<1>4. ASSUME NEW i \in ToolIndices, NEW named \in BOOLEAN, NEW n \in 0..Whole,
             FeedToolCall(i, named, n)
      PROVE  StreamInv'
  <2>1. /\ Feed(ProcessToolCall(CloseContentBlocks(StartEvents(out)), i, named, n))
        /\ ~WritesCalls(out) /\ (~CallStarted(out, i) => named \/ "late names" \in Quirks)
    BY <1>4 DEF FeedToolCall, MayMakeCalls
  <2>2. i \in Nat /\ n \in Nat
    BY CallIndices
  <2>3. Advances(out, ProcessToolCall(CloseContentBlocks(StartEvents(out)), i, named, n))
    BY <1>1, <2>1, <2>2, FeedToolCallIs
  <2> QED BY <1>1, <2>1, <2>3, ChatFeeds
<1>5. ASSUME FeedWrittenCall PROVE StreamInv'
  <2>1. Feed(HeuristicToolUse(StartEvents(out))) /\ ~MakesCalls(out)
    BY <1>5 DEF FeedWrittenCall, MayWriteCalls
  <2>2. Advances(out, HeuristicToolUse(StartEvents(out)))
    BY <1>1, <2>1, FeedWrittenCallIs
  <2> QED BY <1>1, <2>1, <2>2, ChatFeeds
<1>6. ASSUME NEW r \in {"stop", "context"}, FeedFinish(r) PROVE StreamInv'
  <2>1. Feed([StartEvents(out) EXCEPT !.reason = r])
    BY <1>6 DEF FeedFinish
  <2>2. Advances(out, [StartEvents(out) EXCEPT !.reason = r])
    BY <1>1, <2>1, FeedFinishIs
  <2> QED BY <1>1, <2>1, <2>2, ChatFeeds
<1> QED BY <1>2, <1>3, <1>4, <1>5, <1>6

LEMMA EndsProperlyKeeps ==
    ASSUME StreamInv, "mixed calls" \notin Quirks, ~Native, Apart, EndsProperly
    PROVE  StreamInv'
<1>1. /\ pc = "read" /\ pending = <<>> /\ pc' = "shut" /\ then' = "finish" /\ out.reason = "stop"
      /\ \/ Hold(out)
         \/ Hold(EmitText(out))
         \/ MayWriteCalls /\ Hold(HeuristicToolUse(out))
  BY DEF EndsProperly, Runs
<1>2. Place \in Underway /\ Place' = "finish"
  BY <1>1 DEF Place, Underway
<1>3. Fed(out) /\ out \in Outputs /\ Epoch(out) /\ Styled(out) /\ ~out.terminal
  BY <1>2, ChatReads
<1>4. Fine(out)
  <2>1. Fresh(out) => out.reason = ""
    BY NewOutputIs DEF Fresh
  <2> QED BY <1>1, <1>3, <2>1 DEF Epoch
<1>5. ASSUME NEW o, Leads(out, o), Styled(o) PROVE Advances(out, o) /\ o.reason = "stop"
  <2>1. o.terminal = out.terminal /\ o.api = out.api /\ o.reason = "stop"
    BY <1>1, <1>5 DEF Leads, SameHeader
  <2> QED BY <1>3, <1>5, <2>1 DEF Leads, Advances
<1>6. CASE Hold(out)
  <2>1. Advances(out, out) /\ out.reason = "stop"
    BY <1>3, <1>4, <1>5, LeadsItself
  <2> QED BY <1>1, <1>2, <1>6, <2>1, ChatFeeds
<1>7. CASE Hold(EmitText(out))
  <2>1. Leads(out, EmitText(out)) /\ SameCalls(out, EmitText(out))
    BY <1>4, EmitTextIs
  <2>2. Styled(EmitText(out))
    BY <1>3, <2>1, StyleStays DEF SameCalls
  <2>3. Advances(out, EmitText(out)) /\ EmitText(out).reason = "stop"
    BY <1>5, <2>1, <2>2
  <2> QED BY <1>1, <1>2, <1>7, <2>3, ChatFeeds
<1>8. CASE MayWriteCalls /\ Hold(HeuristicToolUse(out))
  <2>1. ~MakesCalls(out)
    BY <1>8 DEF MayWriteCalls
  <2>2. Leads(out, HeuristicToolUse(out)) /\ Styled(HeuristicToolUse(out))
    BY <1>3, <1>4, <2>1, WrittenCallIs
  <2>3. Advances(out, HeuristicToolUse(out)) /\ HeuristicToolUse(out).reason = "stop"
    BY <1>5, <2>2
  <2> QED BY <1>1, <1>2, <1>8, <2>3, ChatFeeds
<1> QED BY <1>1, <1>6, <1>7, <1>8

(***************************************************************************)
(* Opening an attempt, and losing it.                                      *)
(***************************************************************************)

LEMMA Unmoved ==
    ASSUME StreamInv, Place' = Place, Apart, UNCHANGED <<out, bufferVars, pending>>
    PROVE  StreamInv'
<1>1. /\ view' = view /\ api' = api /\ transport' = transport
      /\ Mirrors' <=> Mirrors
      /\ Native' <=> Native
      /\ ResponsesToMessages' <=> ResponsesToMessages
  BY ApartIs
<1>2. out' = out /\ held' = held /\ flushed' = flushed /\ pending' = pending
  BY DEF bufferVars
<1>3. Buffers'
  BY <1>1, <1>2 DEF StreamInv, Buffers
<1>4. Starts' /\ Recovers'
  BY <1>1, <1>2 DEF StreamInv, Starts, Recovers
<1>5. Goes'
  BY <1>1, <1>2 DEF StreamInv, Goes
<1>6. \A w : (Delivered(w) => Delivered(w)') /\ (Contained(w) => Contained(w)')
  BY <1>1, <1>2 DEF Delivered, Contained
<1>7. Ends'
  <2>1. Ends
    BY DEF StreamInv
  <2> QED BY <1>1, <1>2, <1>6, <2>1 DEF Ends
<1> QED BY <1>3, <1>4, <1>5, <1>7 DEF StreamInv

\* An attempt is opened, or lost before anything was read.
LEMMA Opens ==
    ASSUME StreamInv, Place \in Opening, Place' \in Opening, Apart, UNCHANGED <<bufferVars, pending>>,
           Place' = "connect" => out' = NewOutput(api)
    PROVE  StreamInv'
<1>1. view' = view /\ api' = api
  BY ApartIs
<1>2. held' = held /\ flushed' = flushed /\ pending' = pending
  BY DEF bufferVars
<1>3. Buffers'
  BY <1>1, <1>2 DEF StreamInv, Buffers, Places
<1>4. Starts'
  BY <1>1, <1>2 DEF StreamInv, Starts
<1>5. Goes' /\ Recovers' /\ Ends'
  BY PlacesDiffer DEF Goes, Recovers, Ends
<1> QED BY <1>3, <1>4, <1>5 DEF StreamInv

LEMMA NewOutputGoes ==
    ASSUME api \in Wires, NoView \in Views
    PROVE  LET o == NewOutput(api) IN
           /\ o \in Outputs /\ o.api = api
           /\ Tracks(NoView, <<>> \o <<>>, o, TRUE) /\ Tracks(NoView, <<>> \o <<>>, Quiet(o), FALSE)
           /\ Mirrored(o) /\ Epoch(o) /\ Styled(o)
<1> DEFINE o == NewOutput(api)
<1>1. /\ o \in Outputs /\ o.api = api /\ ~o.begun /\ ~o.terminal /\ ~o.invalid
      /\ o.blocks = <<>> /\ o.tools = <<>> /\ o.new = <<>> /\ o.reason = ""
  BY NewOutputIs
<1>2. o = NewOutput(o.api)
  BY <1>1
<1> HIDE DEF o
<1>3. /\ Quiet(o).new = <<>> /\ ~Quiet(o).begun /\ Quiet(o).blocks = <<>>
  BY <1>1, QuietIs DEF SameRest
<1>4. (<<>> \o <<>>) \o <<>> = <<>>
  BY EmptySeq, ConcatEmptySeq
<1>5. Replays(NoView, <<>>, NoView)
  BY NothingToReplay
<1>6. DOMAIN <<>> = {} /\ NoView.end = "" /\ ~NoView.begun /\ DOMAIN NoView.blocks = {}
  <2>1. DOMAIN <<>> = {}
    OBVIOUS
  <2> QED BY <2>1 DEF NoView
<1>7. Agrees(NoView, o, TRUE) /\ Agrees(NoView, Quiet(o), FALSE)
  BY <1>1, <1>3, <1>6 DEF Agrees, Shows
<1>8. Tracks(NoView, <<>> \o <<>>, o, TRUE)
  BY <1>1, <1>4, <1>5, <1>7 DEF Tracks
<1>9. Tracks(NoView, <<>> \o <<>>, Quiet(o), FALSE)
  BY <1>3, <1>4, <1>5, <1>7 DEF Tracks
<1>10. Mirrored(o)
  BY <1>1, <1>6 DEF Mirrored, SoundCalls
<1>11. Epoch(o)
  BY <1>1, <1>2 DEF Epoch, Fresh
<1>12. Styled(o)
  BY <1>1, <1>6 DEF Styled, Written
<1> QED BY <1>1, <1>8, <1>9, <1>10, <1>11, <1>12 DEF o

LEMMA SharedSteps ==
    ASSUME StreamInv, Apart
    PROVE  /\ OpenAttempt => StreamInv'
           /\ Connected => StreamInv'
           /\ ConnectRetries => StreamInv'
           /\ ConnectFails => StreamInv'
           /\ StreamIsCut => StreamInv'
           /\ StreamFails => StreamInv'
           /\ Shut => StreamInv'
<1>1. ASSUME OpenAttempt PROVE StreamInv'
  <2>1. pc \in {"new", "open"} /\ pc' = "connect" /\ out' = NewOutput(api)
    BY <1>1 DEF OpenAttempt, Runs
  <2>2. Place \in Opening /\ Place' \in Opening
    BY <2>1 DEF Place, Opening
  <2> QED BY <1>1, <2>1, <2>2, Opens DEF OpenAttempt
<1>2. ASSUME Connected PROVE StreamInv'
  <2>1. /\ pc = "connect" /\ pending = <<>> /\ pc' = "read" /\ out' = out /\ held' = held
        /\ flushed' = flushed /\ pending' = pending
    BY <1>2 DEF Connected, Runs, Goto, bufferVars
  <2>2. Place = "connect" /\ Place' = "read" /\ Place \in Opening
    BY <2>1 DEF Place, Opening
  <2>3. ~flushed /\ held = <<>> /\ out = NewOutput(api) /\ view = NoView /\ api \in Wires /\ view \in Views
    BY <2>2 DEF StreamInv, Starts, Buffers
  <2>4. /\ view' = view /\ api' = api
        /\ Mirrors' <=> Mirrors
        /\ Native' <=> Native
    BY ApartIs
  <2>5. Buffers'
    BY <2>1, <2>2, <2>3, <2>4, EmptySeq DEF Buffers, Places, Underway
  <2>6. Starts' /\ Recovers' /\ Ends'
    BY <2>2 DEF Starts, Recovers, Ends, Opening
  <2>7. /\ out \in Outputs /\ out.api = api
        /\ Tracks(view, <<>> \o <<>>, out, TRUE) /\ Tracks(view, <<>> \o <<>>, Quiet(out), FALSE)
        /\ Mirrored(out) /\ Epoch(out) /\ Styled(out)
    BY <2>3, NewOutputGoes
  <2>8. Goes'
    BY <2>1, <2>3, <2>4, <2>7 DEF Goes
  <2> QED BY <2>5, <2>6, <2>8 DEF StreamInv
<1>3. ASSUME ConnectRetries PROVE StreamInv'
  <2>1. pc = "connect" /\ pc' = "open" /\ UNCHANGED <<bufferVars, pending>>
    BY <1>3 DEF ConnectRetries, Runs, Goto
  <2>2. Place \in Opening /\ Place' \in Opening /\ Place' # "connect"
    BY <2>1 DEF Place, Opening
  <2> QED BY <2>1, <2>2, Opens
<1>4. ASSUME ConnectFails PROVE StreamInv'
  <2>1. pc = "connect" /\ pc' = "raised" /\ held' = held /\ UNCHANGED <<flushed, pending>>
    BY <1>4 DEF ConnectFails, Runs, Goto, bufferVars
  <2>2. Place \in Opening /\ Place' = "raised"
    BY <2>1 DEF Place, Opening
  <2>3. ~flushed /\ held' = <<>>
    BY <2>1, <2>2 DEF StreamInv, Starts
  <2> QED BY <2>1, <2>2, <2>3, Drops
<1>5. ASSUME StreamIsCut \/ StreamFails PROVE StreamInv'
  <2>1. pc = "read" /\ pc' \in {"cut", "broken"} /\ UNCHANGED <<out, bufferVars, pending>>
    BY <1>5 DEF StreamIsCut, StreamFails, Runs, Goto
  <2>2. Place \in Underway /\ Place' \in {"cut", "broken"} /\ Place' \in Underway
    BY <2>1 DEF Place, Underway
  <2>3. Recovers'
    BY <2>2 DEF Recovers
  <2> QED BY <2>1, <2>2, <2>3, GoesOn
<1>6. ASSUME Shut PROVE StreamInv'
  <2>1. pc = "shut" /\ pc' = then /\ then' = then /\ UNCHANGED <<out, bufferVars, pending>>
    BY <1>6 DEF Shut, Runs, Goto
  <2>2. Place = then /\ then \in Places
    BY <2>1 DEF Place, StreamInv, Buffers
  <2>3. Place' = then
    BY <2>1 DEF Place
  <2> QED BY <2>1, <2>2, <2>3, Unmoved
<1> QED BY <1>1, <1>2, <1>3, <1>4, <1>5, <1>6

(***************************************************************************)
(* A chat attempt is finished, salvaged, continued, repaired or given up.  *)
(***************************************************************************)

LEMMA HasBlocks == ASSUME NEW o \in Outputs, o.blocks # <<>> PROVE DOMAIN o.blocks # {}
<1> DEFINE s == o.blocks
<1>1. s \in Seq(BlockRecs)
  BY NewIs
<1> HIDE DEF s
<1>2. s # <<>> => DOMAIN s # {}
  <2>1. Len(s) \in Nat /\ DOMAIN s = 1..Len(s) /\ (Len(s) = 0 => s = <<>>)
    BY <1>1
  <2>2. Len(s) # 0 => 1 \in 1..Len(s)
    BY <2>1
  <2> QED BY <2>1, <2>2
<1> QED BY <1>2 DEF s

LEMMA MadeIsFine ==
    ASSUME NEW o, Epoch(o), o.begun \/ o.blocks # <<>> \/ HasTool(o)
    PROVE  Fine(o)
<1>1. Fresh(o) => ~o.begun /\ o.blocks = <<>> /\ o.tools = <<>>
  BY NewOutputIs DEF Fresh
<1>2. o.tools = <<>> => ~HasTool(o)
  <2>1. DOMAIN <<>> = {}
    OBVIOUS
  <2> QED BY <2>1 DEF HasTool, StartedTools
<1> QED BY <1>1, <1>2 DEF Epoch

\* The end of an answer that may be complete.
LEMMA FinishAnswers ==
    ASSUME StreamInv, Place \in Underway, ~Native, NEW o, Leads(out, o), DOMAIN o.blocks # {},
           out.reason = "" /\ "late names" \notin Quirks => WholeCalls(o)
    PROVE  LET p == FinishSuccess(o) IN
           p \in Outputs /\ p.api = api /\ (Answers(p) \/ Breaks(p))
<1> DEFINE p == FinishSuccess(o)
<1>1. /\ ~out.terminal /\ out.api = api /\ pending \o held \in Seq(EventRecs)
      /\ Tracks(view, pending \o held, out, TRUE)
  BY ChatReads
<1>2. Fine(o) /\ Follows(out, o) /\ ~o.terminal /\ o.api = api /\ o.reason = out.reason
  BY <1>1 DEF Leads, SameHeader
<1>3. /\ Fine(p) /\ p.api = o.api /\ p.reason = o.reason
      /\ \/ Sealed(o, p, "error") /\ OnlyCallsOpen(p)
         \/ Sealed(o, p, "stop") /\ Closed(p)
      /\ WholeCalls(o) => WholeCalls(p)
  BY <1>2, FinishSuccessIs
<1> HIDE DEF p
<1>4. p \in Outputs /\ p.api = api
  BY <1>2, <1>3, FineIsOutput
<1>5. CASE Sealed(o, p, "error") /\ OnlyCallsOpen(p)
  <2>1. Tracks(view, pending \o held, Quiet(out), FALSE)
    BY ChatReads
  <2>2. Tracks(view, pending \o held, o, TRUE)
    BY <1>1, <1>2 DEF Follows
  <2>3. SealedAt(view, pending \o held, p, "error", TRUE)
    BY <1>1, <1>5, <2>2 DEF Sealed
  <2>4. SealedAt(view, pending \o held, p, "error", FALSE)
    BY <2>3 DEF SealedAt, Shows
  <2> QED BY <1>4, <1>5, <2>4 DEF Breaks, p
<1>6. CASE Sealed(o, p, "stop") /\ Closed(p)
  <2>1. Tracks(view, pending \o held, o, TRUE)
    BY <1>1, <1>2 DEF Follows
  <2>2. SealedAt(view, pending \o held, p, "stop", TRUE)
    BY <1>1, <1>6, <2>1 DEF Sealed
  <2>3. p.reason = "" /\ "late names" \notin Quirks =>
           \A b \in DOMAIN p.blocks : IsTool(p, b) => p.blocks[b].size = Whole
    BY <1>2, <1>3, WholeCallsAre
  <2>4. transport # "messages"
    BY DEF Native
  <2> QED BY <1>4, <1>6, <2>2, <2>3, <2>4 DEF Answers, p
<1> QED BY <1>3, <1>5, <1>6

LEMMA FinishKeeps ==
    ASSUME StreamInv, ~Native, Apart, Finish
    PROVE  StreamInv'
<1> DEFINE o == PrepareCompletion(out)
<1>1. pc = "finish" /\ pending = <<>> /\ pc' = "done" /\ Release(FinishSuccess(o))
  BY DEF Finish, Runs
<1>2. Place \in Underway /\ Place = "finish" /\ Place' = "done"
  BY <1>1 DEF Place, Underway
<1>3. out.begun /\ out.reason = "stop"
  BY <1>2 DEF StreamInv, Recovers
<1>4. Fine(out) /\ Styled(out)
  BY <1>2, <1>3, ChatReads
<1>5. Leads(out, o) /\ DOMAIN o.blocks # {}
  BY <1>4, SendableIs, PrepareCompletionIs
<1> HIDE DEF o
<1>6. LET p == FinishSuccess(o) IN p \in Outputs /\ p.api = api /\ (Answers(p) \/ Breaks(p))
  BY <1>2, <1>3, <1>5, FinishAnswers
<1> QED BY <1>1, <1>2, <1>6, Seals

LEMMA WholeIfSalvageable ==
    ASSUME NEW o, CanSalvage(o)
    PROVE  WholeCalls(o)
BY DEF CanSalvage, WholeCalls, StartedTools

LEMMA SalvageKeeps ==
    ASSUME StreamInv, ~Native, Apart, SalvageCalls
    PROVE  StreamInv'
<1>1. /\ pc = "recover" /\ pending = <<>> /\ pc' = "done" /\ Release(FinishSuccess(out))
      /\ CanSalvage(out)
  BY DEF SalvageCalls, RecoveryEnds, Runs
<1>2. Place \in Underway /\ Place = "recover" /\ Place' = "done"
  BY <1>1 DEF Place, Underway
<1>3. out.begun /\ DOMAIN out.blocks # {}
  BY <1>2 DEF StreamInv, Recovers
<1>4. Fine(out)
  BY <1>2, <1>3, ChatReads
<1>5. Leads(out, out) /\ WholeCalls(out)
  BY <1>1, <1>4, LeadsItself, WholeIfSalvageable
<1>6. LET p == FinishSuccess(out) IN p \in Outputs /\ p.api = api /\ (Answers(p) \/ Breaks(p))
  BY <1>2, <1>3, <1>5, FinishAnswers
<1> QED BY <1>1, <1>2, <1>6, Seals

LEMMA ContinuationKeeps ==
    ASSUME StreamInv, ~Native, Apart, ContinuationArrives
    PROVE  StreamInv'
<1>1. PICK think \in BOOLEAN, text \in BOOLEAN, call \in BOOLEAN :
        RecoveryEnds(Continued(out, think, text, call))
  BY DEF ContinuationArrives, Continued
<1> DEFINE o == Continued(out, think, text, call)
<1>2. pc = "collect" /\ pending = <<>> /\ ~HasTool(out)
  BY DEF ContinuationArrives, Runs
<1>3. pc' = "done" /\ Release(FinishSuccess(o))
  BY <1>1 DEF RecoveryEnds
<1>4. Place \in Underway /\ Place = "collect" /\ Place' = "done"
  BY <1>2, <1>3 DEF Place, Underway
<1>5. out.begun /\ DOMAIN out.blocks # {}
  BY <1>4 DEF StreamInv, Recovers
<1>6. Fine(out) /\ Styled(out)
  BY <1>4, <1>5, ChatReads
<1>7. Leads(out, o) /\ ("late names" \notin Quirks => WholeCalls(o))
  BY <1>2, <1>6, ContinuedIs
<1> HIDE DEF o
<1>8. DOMAIN o.blocks # {}
  BY <1>5, <1>7 DEF Leads
<1>9. LET p == FinishSuccess(o) IN p \in Outputs /\ p.api = api /\ (Answers(p) \/ Breaks(p))
  BY <1>4, <1>7, <1>8, FinishAnswers
<1> QED BY <1>2, <1>3, <1>4, <1>9, Seals

\* The failure of a chat attempt.
LEMMA FinalErrorKeeps ==
    ASSUME StreamInv, Place \in Underway, ~Native, pending = <<>>, Apart, FinalError
    PROVE  StreamInv'
<1> DEFINE kept == flushed \/ (held # <<>> /\ Salvageable)
<1>1. pc' = "shut" /\ Place' = then'
  BY DEF FinalError, Place
<1>2. /\ out \in Outputs /\ Epoch(out) /\ ~out.terminal /\ out.api = api /\ ~Mirrors
      /\ pending \o held \in Seq(EventRecs)
      /\ Tracks(view, pending \o held, Quiet(out), FALSE)
  BY ChatReads
<1>3. /\ Quiet(out) \in Outputs /\ Quiet(out).api = api /\ ~Quiet(out).terminal
      /\ Fine(out) => Fine(Quiet(out))
  BY <1>2, QuietIs, FineStays DEF SameRest
<1>4. ASSUME kept PROVE Fine(Quiet(out))
  <2>1. flushed => out.begun
    BY <1>2 DEF StreamInv, Goes
  <2>2. Salvageable => HasTool(out)
    BY DEF Salvageable, CanSalvage
  <2> QED BY <1>2, <1>3, <1>4, <2>1, <2>2, MadeIsFine
<1>5. CASE ~kept /\ then' = "raised" /\ held' = <<>> /\ UNCHANGED <<flushed, pending>>
  BY <1>1, <1>5, Drops
<1>6. CASE kept /\ then' = "done" /\ Release(FinishFailure(Quiet(out)))
  <2> DEFINE p == FinishFailure(Quiet(out))
  <2>1. p \in Outputs /\ p.api = Quiet(out).api /\ Sealed(Quiet(out), p, "error") /\ OnlyCallsOpen(p)
    BY <1>3, <1>4, <1>6, FinishFailureIs
  <2> HIDE DEF p
  <2>2. Breaks(p)
    BY <1>2, <2>1 DEF Sealed, Breaks
  <2> QED BY <1>1, <1>3, <1>6, <2>1, <2>2, Seals DEF p
<1>7. CASE kept /\ then' = "raised" /\ Release(CloseUnclosedBlocks(Quiet(out)))
  <2> DEFINE p == CloseUnclosedBlocks(Quiet(out))
  <2>1. /\ p \in Outputs /\ Follows(Quiet(out), p) /\ SameHeader(Quiet(out), p)
        /\ \A b \in DOMAIN p.blocks : p.blocks[b].open => Quiet(out).api = "responses" /\ IsTool(p, b)
    BY <1>3, <1>4, <1>7, CloseUnclosedIs
  <2> HIDE DEF p
  <2>2. p.api = api /\ OnlyCallsOpen(p)
    BY <1>3, <2>1 DEF SameHeader, OnlyCallsOpen
  <2>3. Tracks(view, pending \o held, p, FALSE)
    BY <1>2, <2>1 DEF Follows
  <2> QED BY <1>1, <1>7, <2>1, <2>2, <2>3, RaisesClosed DEF p
<1> QED BY <1>5, <1>6, <1>7 DEF FinalError

LEMMA RepairKeeps ==
    ASSUME StreamInv, ~Native, Apart, RepairArrives
    PROVE  StreamInv'
<1> DEFINE t == out.tools[FirstBroken]
           p == EmitToolDelta(out, t.idx, Whole - t.args)
<1>1. /\ pc = "collect" /\ pending = <<>> /\ HasTool(out) /\ t.args + t.task <= Whole
      /\ out' = p /\ pc' = "recover" /\ held' = held /\ flushed' = flushed /\ pending' = pending
  BY DEF RepairArrives, Runs, bufferVars
<1>2. Place \in Underway /\ Place = "collect" /\ Place' = "recover"
  BY <1>1 DEF Place, Underway
<1>3. out.begun /\ DOMAIN out.blocks # {} /\ ~CanSalvage(out)
  BY <1>1, <1>2 DEF StreamInv, Recovers
<1>4. /\ Fine(out) /\ Styled(out) /\ ~out.terminal /\ out.api = api /\ ~Mirrors /\ out \in Outputs
      /\ pending \o held \in Seq(EventRecs)
      /\ Tracks(view, pending \o held, out, TRUE)
      /\ Tracks(view, pending \o held, Quiet(out), FALSE)
  BY <1>2, <1>3, ChatReads
<1>5. Leads(out, p) /\ Styled(p) /\ SameShape(out, p)
  BY <1>1, <1>3, <1>4, RepairIs
<1> HIDE DEF p, t
<1>6. Fine(p) /\ Follows(out, p) /\ p.api = api /\ ~p.terminal /\ DOMAIN p.blocks # {}
  BY <1>3, <1>4, <1>5 DEF Leads, SameHeader
<1>7. p \in Outputs /\ p.begun
  BY <1>6, FineIsOutput
<1>8. Tracks(view, pending \o held, p, TRUE)
  BY <1>4, <1>6 DEF Follows
<1>9. Tracks(view, pending \o held, Quiet(p), FALSE)
  BY <1>4, <1>5, <1>7, ShapeTracks
<1>10. view' = view /\ api' = api /\ (Mirrors' <=> Mirrors) /\ (Native' <=> Native)
  BY ApartIs
<1>11. Buffers'
  BY <1>1, <1>2, <1>10 DEF StreamInv, Buffers, Places, Underway
<1>12. Starts' /\ Ends'
  BY <1>2 DEF Starts, Ends, Opening
<1>13. flushed => held = <<>>
  BY <1>2 DEF StreamInv, Goes
<1>14. Goes'
  BY <1>1, <1>4, <1>5, <1>6, <1>7, <1>8, <1>9, <1>10, <1>13 DEF Goes, Epoch
<1>15. Recovers'
  BY <1>1, <1>2, <1>6, <1>7, <1>10 DEF Recovers
<1> QED BY <1>11, <1>12, <1>14, <1>15 DEF StreamInv

LEMMA StartsOver ==
    ASSUME StreamInv, StartOver, ~flushed, Apart
    PROVE  StreamInv'
<1>1. Place' = "open" /\ held' = <<>> /\ UNCHANGED <<flushed, pending>>
  BY DEF StartOver, Place
<1> QED BY <1>1, Drops

LEMMA ChatRecoverySteps ==
    ASSUME StreamInv, ~Native, Apart
    PROVE  /\ EarlyRetry => StreamInv'
           /\ CorrectReasoning => StreamInv'
           /\ MidstreamRecovery => StreamInv'
           /\ GivesUp => StreamInv'
           /\ AskUpstream => StreamInv'
           /\ CannotAsk => StreamInv'
           /\ CollectRetries => StreamInv'
           /\ CollectFails => StreamInv'
<1>1. ASSUME EarlyRetry PROVE StreamInv'
  BY <1>1, StartsOver DEF EarlyRetry, RetriesEarly
<1>2. ASSUME CorrectReasoning PROVE StreamInv'
  BY <1>2, StartsOver DEF CorrectReasoning, CorrectRequest
<1>3. ASSUME MidstreamRecovery PROVE StreamInv'
  <2>1. /\ pc = "cut" /\ Emitted /\ pc' = "shut" /\ then' = "recover"
        /\ UNCHANGED <<out, bufferVars, pending>>
    BY <1>3 DEF MidstreamRecovery, RecoversMidstream, Runs
  <2>2. Place \in Underway /\ Place' \in Underway /\ Place' = "recover"
    BY <2>1 DEF Place, Underway
  <2>3. Epoch(out) /\ out \in Outputs
    BY <2>2, ChatReads
  <2>4. out.begun /\ DOMAIN out.blocks # {}
    BY <2>1, <2>3, MadeIsFine, FineIsOutput, HasBlocks DEF Emitted
  <2>5. Recovers'
    BY <2>1, <2>2, <2>4, ApartIs DEF Recovers
  <2> QED BY <2>1, <2>2, <2>5, GoesOn
<1>4. ASSUME GivesUp PROVE StreamInv'
  <2>1. pc \in {"cut", "broken"} /\ pending = <<>> /\ FinalError
    BY <1>4 DEF GivesUp, Runs
  <2>2. Place \in Underway
    BY <2>1 DEF Place, Underway
  <2> QED BY <2>1, <2>2, FinalErrorKeeps
<1>5. ASSUME AskUpstream PROVE StreamInv'
  <2>1. /\ pc = "recover" /\ NeedsUpstream /\ pc' = "collect"
        /\ UNCHANGED <<out, bufferVars, pending>>
    BY <1>5 DEF AskUpstream, Runs, Goto
  <2>2. Place = "recover" /\ Place \in Underway /\ Place' \in Underway /\ Place' = "collect"
    BY <2>1 DEF Place, Underway
  <2>3. out.begun /\ DOMAIN out.blocks # {} /\ (HasTool(out) => ~CanSalvage(out))
    BY <2>1, <2>2 DEF StreamInv, Recovers, NeedsUpstream
  <2>4. Recovers'
    BY <2>1, <2>2, <2>3, ApartIs DEF Recovers
  <2> QED BY <2>1, <2>2, <2>4, GoesOn
<1>6. ASSUME CannotAsk PROVE StreamInv'
  <2>1. pc = "recover" /\ pending = <<>> /\ FinalError
    BY <1>6 DEF CannotAsk, Runs
  <2>2. Place \in Underway
    BY <2>1 DEF Place, Underway
  <2> QED BY <2>1, <2>2, FinalErrorKeeps
<1>7. ASSUME CollectRetries PROVE StreamInv'
  <2>1. pc = "collect" /\ pc' = "recover" /\ UNCHANGED <<out, bufferVars, pending>>
    BY <1>7 DEF CollectRetries, Runs, Goto
  <2>2. Place = "collect" /\ Place \in Underway /\ Place' \in Underway /\ Place' = "recover"
    BY <2>1 DEF Place, Underway
  <2>3. out.begun /\ DOMAIN out.blocks # {}
    BY <2>2 DEF StreamInv, Recovers
  <2>4. Recovers'
    BY <2>1, <2>2, <2>3, ApartIs DEF Recovers
  <2> QED BY <2>1, <2>2, <2>4, GoesOn
<1>8. ASSUME CollectFails PROVE StreamInv'
  <2>1. pc = "collect" /\ pending = <<>> /\ FinalError
    BY <1>8 DEF CollectFails, Runs
  <2>2. Place \in Underway
    BY <2>1 DEF Place, Underway
  <2> QED BY <2>1, <2>2, FinalErrorKeeps
<1> QED BY <1>1, <1>2, <1>3, <1>4, <1>5, <1>6, <1>7, <1>8

LEMMA ChatKeeps ==
    ASSUME StreamInv, "mixed calls" \notin Quirks, ~Native, Apart, UpstreamStep \/ Work
    PROVE  StreamInv'
<1>1. CASE OpenAttempt \/ Connected \/ ConnectRetries \/ ConnectFails \/ StreamIsCut \/ StreamFails
  BY <1>1, SharedSteps
<1>2. CASE FeedText \/ FeedWrittenCall
  BY <1>2, ChatReadSteps
<1>3. CASE \E n \in {0, 1} : FeedReasoning(n)
  BY <1>3, ChatReadSteps
<1>4. CASE \E i \in ToolIndices, named \in BOOLEAN, n \in 0..Whole : FeedToolCall(i, named, n)
  BY <1>4, ChatReadSteps
<1>5. CASE \E r \in {"stop", "context"} : FeedFinish(r)
  BY <1>5, ChatReadSteps
<1>6. CASE EndsProperly
  BY <1>6, EndsProperlyKeeps
<1>7. CASE CorrectReasoning \/ AskUpstream \/ CollectRetries \/ CollectFails \/ EarlyRetry
           \/ MidstreamRecovery \/ GivesUp \/ CannotAsk
  BY <1>7, ChatRecoverySteps
<1>8. CASE RepairArrives
  BY <1>8, RepairKeeps
<1>9. CASE ContinuationArrives
  BY <1>9, ContinuationKeeps
<1>10. CASE Finish
  BY <1>10, FinishKeeps
<1>11. CASE SalvageCalls
  BY <1>11, SalvageKeeps
<1> QED
  BY <1>1, <1>2, <1>3, <1>4, <1>5, <1>6, <1>7, <1>8, <1>9, <1>10, <1>11 DEF UpstreamStep, Work

(***************************************************************************)
(* Native attempts.                                                        *)
(***************************************************************************)

\* An attempt whose events keep their meaning.
LEMMA MirrorReads ==
    ASSUME StreamInv, Place \in Underway, Mirrors
    PROVE  /\ Mirrored(out) /\ out.api = api /\ Native /\ ~ResponsesToMessages /\ out \in Outputs
           /\ pending \o held \in Seq(EventRecs)
           /\ Tracks(view, pending \o held, out, TRUE)
           /\ Tracks(view, pending \o held, Quiet(out), FALSE)
<1>1. held \in Seq(EventRecs) /\ pending \in Seq(EventRecs)
  BY DEF StreamInv, Buffers
<1>2. pending \o held \in Seq(EventRecs)
  BY <1>1, ConcatProperties
<1> QED BY <1>2 DEF StreamInv, Goes, Mirrors

\* One whose events are translated.
LEMMA TranslationReads ==
    ASSUME StreamInv, Place \in Underway, ResponsesToMessages
    PROVE  /\ Epoch(out) /\ out.api = "messages" /\ api = "messages" /\ Native /\ ~Mirrors
           /\ out \in Outputs /\ transport # "messages"
           /\ pending \o held \in Seq(EventRecs)
           /\ Tracks(view, pending \o held, out, TRUE)
           /\ Tracks(view, pending \o held, Quiet(out), FALSE)
           /\ flushed => Fine(out)
<1>1. held \in Seq(EventRecs) /\ pending \in Seq(EventRecs)
  BY DEF StreamInv, Buffers
<1>2. pending \o held \in Seq(EventRecs)
  BY <1>1, ConcatProperties
<1>3. ~Mirrors /\ Native /\ api = "messages" /\ transport = "responses"
  BY DEF ResponsesToMessages, Mirrors, Native
<1>4. Epoch(out) /\ (flushed => out.begun)
  BY <1>3 DEF StreamInv, Goes
<1>5. flushed => Fine(out)
  BY <1>4, MadeIsFine
<1> QED BY <1>2, <1>3, <1>4, <1>5 DEF StreamInv, Goes

LEMMA MirrorFeeds ==
    ASSUME StreamInv, Mirrors, Apart, NEW o, NEW n, Relay(o, n), Relayed(out, o),
           o.begun \/ "early pings" \in Quirks
    PROVE  StreamInv'
<1>1. pc = "read" /\ pending = <<>> /\ Hold(o) /\ pc' = "read"
  BY DEF Relay, Runs
<1>2. Place = "read" /\ Place \in Underway /\ Place' = "read"
  BY <1>1 DEF Place, Underway
<1>3. out.api = api /\ Native
  BY <1>2, MirrorReads
<1>4. Follows(out, o) /\ Mirrored(o) /\ o \in Outputs /\ o.api = api
  BY <1>3 DEF Relayed, Mirrored
<1> QED BY <1>1, <1>2, <1>3, <1>4, Feeds

LEMMA TranslationFeeds ==
    ASSUME StreamInv, ResponsesToMessages, Apart, NEW o, Hold(o), Moves(out, o),
           pc = "read", pc' = "read", pending = <<>>
    PROVE  StreamInv'
<1>2. Place = "read" /\ Place \in Underway /\ Place' = "read"
  BY DEF Place, Underway
<1>3. out.api = api /\ Native /\ ~Mirrors
  BY <1>2, TranslationReads
<1>4. Follows(out, o) /\ Fine(o) /\ ~o.terminal /\ o \in Outputs /\ o.api = api
  BY <1>3, FineIsOutput DEF Moves
<1> QED BY <1>2, <1>3, <1>4, Feeds

LEMMA RelaySteps ==
    ASSUME StreamInv, Apart
    PROVE  /\ RelayBegin => StreamInv'
           /\ \A kind \in BlockKinds : RelayOpen(kind) => StreamInv'
           /\ \A b \in DOMAIN out.blocks, n \in 1..Whole : RelayDelta(b, n) => StreamInv'
           /\ \A b \in DOMAIN out.blocks : RelayClose(b) => StreamInv'
           /\ RelayNote => StreamInv'
           /\ RelayReason => StreamInv'
<1>1. ASSUME NEW o, NEW n, Relay(o, n), Mirrors PROVE Mirrored(out) /\ out.api = api
  <2>1. pc = "read"
    BY <1>1 DEF Relay, Runs
  <2>2. Place \in Underway
    BY <2>1 DEF Place, Underway
  <2> QED BY <1>1, <2>2, MirrorReads
<1>2. ASSUME Going PROVE Mirrors /\ out.begun /\ out.reason = ""
  BY <1>2 DEF Going
<1>3. ASSUME RelayBegin PROVE StreamInv'
  <2>1. Mirrors /\ ~out.begun /\ Relay(StartEvents(out), 0)
    BY <1>3 DEF RelayBegin
  <2>2. Relayed(out, StartEvents(out)) /\ StartEvents(out).begun
    BY <1>1, <2>1, RelayBeginIs
  <2> QED BY <2>1, <2>2, MirrorFeeds
<1>4. ASSUME NEW kind \in BlockKinds, RelayOpen(kind) PROVE StreamInv'
  <2>1. Going /\ Relay(StartBlock(out, kind), 1)
    BY <1>4 DEF RelayOpen
  <2>2. Relayed(out, StartBlock(out, kind)) /\ StartBlock(out, kind).begun
    BY <1>1, <1>2, <2>1, RelayOpenIs
  <2> QED BY <1>2, <2>1, <2>2, MirrorFeeds
<1>5. ASSUME NEW b \in DOMAIN out.blocks, NEW n \in 1..Whole, RelayDelta(b, n) PROVE StreamInv'
  <2>1. n \in Nat \ {0}
    BY CallIndices
  <2> DEFINE p == [out EXCEPT !.blocks[b].size = @ + n]
  <2>2. Going /\ out.blocks[b].open
    BY <1>5 DEF RelayDelta
  <2>3. CASE MessagesToResponses /\ out.blocks[b].kind = "tool" /\ Relay(p, 1)
    <3>1. Untold(out, b)
      <4>1. out.api = "responses"
        BY <1>1, <1>2, <2>2, <2>3 DEF MessagesToResponses
      <4> QED BY <2>2, <2>3, <4>1 DEF Untold
    <3>2. Relayed(out, p) /\ p.begun
      BY <1>1, <1>2, <2>1, <2>2, <2>3, <3>1, RelayDeltaIs
    <3> HIDE DEF p
    <3> QED BY <1>2, <2>2, <2>3, <3>2, MirrorFeeds
  <2>4. CASE Relay(Delta(out, b, n), 1)
    <3>1. Relayed(out, Delta(out, b, n)) /\ Delta(out, b, n).begun
      BY <1>1, <1>2, <2>1, <2>2, <2>4, RelayDeltaIs
    <3> QED BY <1>2, <2>2, <2>4, <3>1, MirrorFeeds
  <2> QED BY <1>5, <2>3, <2>4 DEF RelayDelta
<1>6. ASSUME NEW b \in DOMAIN out.blocks, RelayClose(b) PROVE StreamInv'
  <2>1. Going /\ out.blocks[b].open /\ Sound(b) /\ Relay(StopBlock(out, b), 0)
    BY <1>6 DEF RelayClose
  <2>2. IsTool(out, b) => out.blocks[b].size \in {0, Whole}
    BY <2>1 DEF Sound, IsTool
  <2>3. Relayed(out, StopBlock(out, b)) /\ StopBlock(out, b).begun
    BY <1>1, <1>2, <2>1, <2>2, RelayCloseIs
  <2> QED BY <1>2, <2>1, <2>3, MirrorFeeds
<1>7. ASSUME RelayNote PROVE StreamInv'
  <2> DEFINE p == Say(out, Event("note", 0, "", 0))
  <2>1. /\ Native /\ (out.begun \/ (Verbatim /\ "early pings" \in Quirks))
        /\ \/ Verbatim /\ Relay(p, 1)
           \/ ~Verbatim /\ Relay(out, 1)
    BY <1>7 DEF RelayNote
  <2>2. CASE Verbatim /\ Relay(p, 1)
    <3>1. Mirrors
      BY <2>1, <2>2 DEF Mirrors, Verbatim, ResponsesToMessages
    <3>2. Relayed(out, p) /\ p.begun = out.begun
      BY <1>1, <2>1, <2>2, <3>1, RelayNoteIs
    <3> HIDE DEF p
    <3> QED BY <2>1, <2>2, <3>1, <3>2, MirrorFeeds
  <2>3. CASE ~Verbatim /\ Relay(out, 1) /\ Mirrors
    <3>1. Relayed(out, out)
      BY <1>1, <2>3, FollowsItself DEF Relayed
    <3> QED BY <2>1, <2>3, <3>1, MirrorFeeds
  <2>4. CASE ~Verbatim /\ Relay(out, 1) /\ ~Mirrors
    <3>1. ResponsesToMessages
      BY <2>1, <2>4 DEF Mirrors
    <3>2. pc = "read" /\ pending = <<>> /\ Hold(out) /\ pc' = "read"
      BY <2>4 DEF Relay, Runs
    <3>3. Place \in Underway
      BY <3>2 DEF Place, Underway
    <3>4. Epoch(out) /\ out.begun
      BY <2>1, <2>4, <3>1, <3>3, TranslationReads
    <3>5. Moves(out, out)
      BY <3>4, MadeIsFine, FollowsItself DEF Moves, Epoch
    <3> QED BY <3>1, <3>2, <3>5, TranslationFeeds
  <2> QED BY <2>1, <2>2, <2>3, <2>4
<1>8. ASSUME RelayReason PROVE StreamInv'
  <2> DEFINE o == [out EXCEPT !.reason = "stop"]
             p == Say(o, Event("note", 0, "", 0))
  <2>1. Going /\ Complete /\ (Relay(p, 0) \/ Relay(o, 0))
    BY <1>8 DEF RelayReason
  <2>2. Relayed(out, o) /\ o.begun
    BY <1>1, <1>2, <2>1, RelayReasonIs DEF Complete
  <2> HIDE DEF o
  <2>3. Mirrored(o)
    BY <2>2 DEF Relayed
  <2>4. Relayed(o, p) /\ p.begun = o.begun
    BY <2>2, <2>3, RelayNoteIs
  <2>5. Relayed(out, p) /\ p.begun
    BY <2>2, <2>4, RelayedOn
  <2> HIDE DEF p
  <2> QED BY <1>2, <2>1, <2>2, <2>5, MirrorFeeds
<1> QED BY <1>3, <1>4, <1>5, <1>6, <1>7, <1>8

LEMMA AnswerKeeps ==
    ASSUME StreamInv, Apart, NEW o, AnswerEnds(o), o \in Outputs, o.begun, Closed(o),
           DOMAIN o.blocks # {} \/ "empty answers" \in Quirks, Follows(out, o), o.api = api,
           transport = "messages" => SoundCalls(o)
    PROVE  StreamInv'
<1> DEFINE p == [Say(o, Event("stop", 0, "", 0)) EXCEPT !.terminal = TRUE, !.reason = "stop"]
<1>1. pc = "read" /\ pending = <<>> /\ Release(p) /\ pc' = "shut" /\ then' = "done"
  BY DEF AnswerEnds, Runs
<1>2. Place \in Underway /\ Place' = "done"
  BY <1>1 DEF Place, Underway
<1>3. Tracks(view, pending \o held, out, TRUE) /\ pending \o held \in Seq(EventRecs)
  BY <1>2, ConcatProperties DEF StreamInv, Goes, Buffers
<1>4. /\ Sealed(o, p, "stop") /\ p \in Outputs /\ p.api = o.api /\ p.begun
      /\ p.blocks = o.blocks /\ p.reason = "stop"
  BY AnswerSealIs
<1> HIDE DEF p
<1>5. SealedAt(view, pending \o held, p, "stop", TRUE)
  BY <1>3, <1>4 DEF Follows, Sealed
<1>6. Closed(p) /\ (transport = "messages" => SoundCalls(p))
  BY <1>4 DEF Closed, SoundCalls, IsTool
<1>7. Answers(p)
  BY <1>4, <1>5, <1>6 DEF Answers
<1> QED BY <1>1, <1>2, <1>4, <1>7, Seals

LEMMA RelayStopKeeps == ASSUME StreamInv, Apart, RelayStop PROVE StreamInv'
<1>1. /\ Mirrors /\ out.begun /\ AnswerEnds(out)
      /\ out.reason = "stop" \/ Complete
  BY DEF RelayStop
<1>2. Place \in Underway
  BY <1>1 DEF AnswerEnds, Runs, Place, Underway
<1>3. Mirrored(out) /\ out.api = api /\ out \in Outputs
  BY <1>1, <1>2, MirrorReads
<1>4. Closed(out) /\ (out.blocks # <<>> \/ "empty answers" \in Quirks) /\ SoundCalls(out)
  BY <1>1, <1>3 DEF Mirrored, Complete
<1>5. DOMAIN out.blocks # {} \/ "empty answers" \in Quirks
  BY <1>3, <1>4, HasBlocks
<1>6. Follows(out, out)
  BY FollowsItself
<1> QED BY <1>1, <1>3, <1>4, <1>5, <1>6, AnswerKeeps

LEMMA TranslateSteps ==
    ASSUME StreamInv, Apart
    PROVE  /\ TranslateText => StreamInv'
           /\ TranslateReasoning => StreamInv'
           /\ TranslateHiddenReasoning => StreamInv'
           /\ \A i \in ToolIndices, n \in 0..Whole : TranslateCall(i, n) => StreamInv'
           /\ \A i \in ToolIndices : TranslateCallDone(i) => StreamInv'
           /\ TranslateEnd => StreamInv'
<1>1. ASSUME Translates
      PROVE  ResponsesToMessages /\ pc = "read" /\ pending = <<>> /\ Epoch(out) /\ out.api = "messages"
             /\ api = "messages" /\ transport # "messages" /\ Place \in Underway
  <2>1. ResponsesToMessages /\ pc = "read" /\ pending = <<>>
    BY <1>1 DEF Translates, Runs
  <2>2. Place \in Underway
    BY <2>1 DEF Place, Underway
  <2> QED BY <2>1, <2>2, TranslationReads
<1>2. ASSUME NEW o, Translate(o) PROVE Translates /\ Hold(o) /\ pc' = pc
  BY <1>2 DEF Translate, Relay
<1>3. ASSUME NEW o, Translate(o), Moves(out, o) PROVE StreamInv'
  <2>1. Translates /\ Hold(o) /\ pc' = pc
    BY <1>2, <1>3
  <2> QED BY <1>1, <1>3, <2>1, TranslationFeeds
<1>4. ASSUME TranslateText \/ TranslateReasoning PROVE StreamInv'
  <2>1. Translates
    BY <1>2, <1>4 DEF TranslateText, TranslateReasoning
  <2>2. Moves(out, EmitText(StartEvents(out))) /\ Moves(out, EmitReasoning(StartEvents(out)))
    BY <1>1, <2>1, TranslateContentIs
  <2> QED BY <1>3, <1>4, <2>2 DEF TranslateText, TranslateReasoning
<1>5. ASSUME TranslateHiddenReasoning PROVE StreamInv'
  <2> DEFINE s == StartBlock(CloseContentBlocks(StartEvents(out)), "thinking")
             p == StopBlock(s, Len(s.blocks))
  <2>1. Translate(p)
    BY <1>5 DEF TranslateHiddenReasoning
  <2>2. Moves(out, p)
    <3>1. Epoch(out)
      BY <1>1, <1>2, <2>1
    <3> QED BY <3>1, HiddenReasoningIs
  <2> HIDE DEF p
  <2> QED BY <1>3, <2>1, <2>2
<1>6. ASSUME NEW i \in ToolIndices, NEW n \in 0..Whole, TranslateCall(i, n) PROVE StreamInv'
  <2> DEFINE o == EnsureStarted(out, i)
             p == IF n = 0 THEN o ELSE EmitToolDelta(o, i, n)
  <2>1. Translate(p) /\ Translates /\ (CallStarted(out, i) => Tool(out, i).open)
    BY <1>6 DEF TranslateCall, MayCall
  <2>2. i \in Nat /\ n \in Nat
    BY CallIndices
  <2>3. Moves(out, p)
    <3>1. Epoch(out)
      BY <1>1, <2>1
    <3> QED BY <2>1, <2>2, <3>1, TranslateCallIs
  <2> HIDE DEF p
  <2> QED BY <1>3, <2>1, <2>3
<1>7. ASSUME NEW i \in ToolIndices, TranslateCallDone(i) PROVE StreamInv'
  <2> DEFINE o == EnsureStarted(out, i)
             p(all) == StopTool(IF all THEN EmitToolDelta(o, i, Whole) ELSE o, i)
  <2>1. Translates /\ (CallStarted(out, i) => Tool(out, i).open)
    BY <1>7 DEF TranslateCallDone, MayCall
  <2>2. PICK all \in BOOLEAN : Translate(p(all))
    BY <1>7 DEF TranslateCallDone
  <2>3. i \in Nat
    BY CallIndices
  <2>4. Moves(out, p(all))
    <3>1. Epoch(out)
      BY <1>1, <2>1
    <3> QED BY <2>1, <2>3, <3>1, CallDoneIs
  <2> HIDE DEF p
  <2> QED BY <1>3, <2>2, <2>4
<1>8. ASSUME TranslateEnd PROVE StreamInv'
  <2> DEFINE c == CloseAllBlocks(StartEvents(out))
             p == IF c.blocks = <<>> THEN StopText(EmitText(c)) ELSE c
  <2>1. Translates /\ AnswerEnds(p)
    BY <1>8 DEF TranslateEnd
  <2>2. Epoch(out) /\ out.api = "messages" /\ api = "messages" /\ transport # "messages"
    BY <1>1, <2>1
  <2>3. Moves(out, p) /\ Closed(p) /\ DOMAIN p.blocks # {}
    BY <2>2, TranslateEndIs
  <2> HIDE DEF p
  <2>4. p \in Outputs /\ p.begun /\ Follows(out, p) /\ p.api = api
    BY <2>2, <2>3, FineIsOutput DEF Moves
  <2> QED BY <2>1, <2>2, <2>3, <2>4, AnswerKeeps
<1> QED BY <1>4, <1>5, <1>6, <1>7, <1>8

LEMMA RelayGivesUpKeeps ==
    ASSUME StreamInv, Apart, RelayGivesUp
    PROVE  StreamInv'
<1>1. /\ Native /\ pc \in {"cut", "broken"} /\ pending = <<>> /\ pc' = "shut"
      /\ IF flushed THEN RelayFailure
         ELSE then' = "raised" /\ held' = <<>> /\ UNCHANGED <<out, flushed, pending>>
  BY DEF RelayGivesUp, Runs
<1>2. Place \in Underway /\ Place' = then'
  BY <1>1 DEF Place, Underway
<1>3. /\ out \in Outputs /\ out.api = api /\ pending \o held \in Seq(EventRecs)
      /\ Tracks(view, pending \o held, Quiet(out), FALSE)
      /\ flushed => out.begun \/ "early pings" \in Quirks
  BY <1>2, ConcatProperties DEF StreamInv, Goes, Buffers
<1>4. /\ Quiet(out) \in Outputs /\ Quiet(out).api = api /\ Quiet(out).begun = out.begun
      /\ Fine(out) => Fine(Quiet(out))
  BY <1>3, QuietStays
<1>5. CASE ~flushed
  BY <1>1, <1>2, <1>5, Drops
<1>6. CASE flushed /\ api = "responses" /\ then' = "done" /\ Release(Say(Quiet(out), Event("error", 0, "", 0)))
  <2> DEFINE p == Say(Quiet(out), Event("error", 0, "", 0))
  <2>1. Sealed(Quiet(out), p, "error") /\ p \in Outputs /\ p.api = Quiet(out).api
    BY <1>3, <1>4, <1>6, RelayErrorIs
  <2> HIDE DEF p
  <2>2. Breaks(p)
    BY <1>1, <1>3, <1>6, <2>1 DEF Breaks, Sealed, ResponsesToMessages
  <2> QED BY <1>1, <1>2, <1>4, <1>6, <2>1, <2>2, Seals DEF p
<1>7. CASE flushed /\ ResponsesToMessages /\ then' = "raised" /\ Release(CloseUnclosedBlocks(Quiet(out)))
  <2> DEFINE p == CloseUnclosedBlocks(Quiet(out))
  <2>1. Fine(Quiet(out))
    BY <1>2, <1>4, <1>7, TranslationReads
  <2>2. /\ p \in Outputs /\ Follows(Quiet(out), p) /\ SameHeader(Quiet(out), p)
        /\ \A b \in DOMAIN p.blocks : p.blocks[b].open => Quiet(out).api = "responses" /\ IsTool(p, b)
    BY <2>1, CloseUnclosedIs
  <2> HIDE DEF p
  <2>3. p.api = api /\ OnlyCallsOpen(p)
    BY <1>4, <2>2 DEF SameHeader, OnlyCallsOpen
  <2>4. Tracks(view, pending \o held, p, FALSE)
    BY <1>3, <2>2 DEF Follows
  <2> QED BY <1>1, <1>2, <1>7, <2>2, <2>3, <2>4, RaisesClosed DEF p
<1>8. CASE flushed /\ transport = "messages" /\ api = "messages" /\ then' = "raised"
           /\ UNCHANGED <<out, bufferVars, pending>>
  <2>1. ~ResponsesToMessages
    BY <1>8 DEF ResponsesToMessages
  <2> QED BY <1>1, <1>2, <1>8, <2>1, RaisesAsIs
<1> QED BY <1>1, <1>5, <1>6, <1>7, <1>8 DEF RelayFailure

LEMMA NativeKeeps ==
    ASSUME StreamInv, Apart, NativeStep \/ NativeWork
    PROVE  StreamInv'
<1>1. CASE OpenAttempt \/ Connected \/ ConnectRetries \/ ConnectFails \/ StreamIsCut \/ StreamFails
  BY <1>1, SharedSteps
<1>2. CASE RelayBegin \/ RelayNote \/ RelayReason
  BY <1>2, RelaySteps
<1>3. CASE \E kind \in BlockKinds : RelayOpen(kind)
  BY <1>3, RelaySteps
<1>4. CASE \E b \in DOMAIN out.blocks, n \in 1..Whole : RelayDelta(b, n)
  BY <1>4, RelaySteps
<1>5. CASE \E b \in DOMAIN out.blocks : RelayClose(b)
  BY <1>5, RelaySteps
<1>6. CASE RelayStop
  BY <1>6, RelayStopKeeps
<1>7. CASE TranslateText \/ TranslateReasoning \/ TranslateHiddenReasoning \/ TranslateEnd
  BY <1>7, TranslateSteps
<1>8. CASE \E i \in ToolIndices, n \in 0..Whole : TranslateCall(i, n)
  BY <1>8, TranslateSteps
<1>9. CASE \E i \in ToolIndices : TranslateCallDone(i)
  BY <1>9, TranslateSteps
<1>10. CASE RelayCorrects \/ RelayRetries
  BY <1>10, StartsOver DEF RelayCorrects, RelayRetries, CorrectRequest
<1>11. CASE RelayGivesUp
  BY <1>11, RelayGivesUpKeeps
<1> QED
  BY <1>1, <1>2, <1>3, <1>4, <1>5, <1>6, <1>7, <1>8, <1>9, <1>10, <1>11
     DEF NativeStep, NativeWork

LEMMA ChatApiStays == ASSUME UpstreamStep \/ Work PROVE api' = api
<1>1. CASE OpenAttempt \/ Connected \/ ConnectRetries \/ ConnectFails \/ StreamIsCut \/ StreamFails
  BY <1>1 DEF OpenAttempt, Connected, ConnectRetries, ConnectFails, StreamIsCut, StreamFails, Goto
<1>2. CASE FeedText \/ FeedWrittenCall
  BY <1>2 DEF FeedText, FeedWrittenCall, Feed
<1>3. CASE \E n \in {0, 1} : FeedReasoning(n)
  BY <1>3 DEF FeedReasoning, Feed
<1>4. CASE \E i \in ToolIndices, named \in BOOLEAN, n \in 0..Whole : FeedToolCall(i, named, n)
  BY <1>4 DEF FeedToolCall, Feed
<1>5. CASE \E r \in {"stop", "context"} : FeedFinish(r)
  BY <1>5 DEF FeedFinish, Feed
<1>6. CASE EndsProperly \/ Finish \/ MidstreamRecovery
  BY <1>6 DEF EndsProperly, Finish, MidstreamRecovery
<1>7. CASE CorrectReasoning \/ EarlyRetry
  BY <1>7 DEF CorrectReasoning, CorrectRequest, EarlyRetry, StartOver
<1>8. CASE AskUpstream \/ CollectRetries
  BY <1>8 DEF AskUpstream, CollectRetries, Goto
<1>9. CASE CollectFails \/ GivesUp \/ CannotAsk
  BY <1>9 DEF CollectFails, GivesUp, CannotAsk
<1>10. CASE RepairArrives
  BY <1>10 DEF RepairArrives
<1>11. CASE ContinuationArrives \/ SalvageCalls
  BY <1>11 DEF ContinuationArrives, SalvageCalls, RecoveryEnds
<1> QED
  BY <1>1, <1>2, <1>3, <1>4, <1>5, <1>6, <1>7, <1>8, <1>9, <1>10, <1>11 DEF UpstreamStep, Work

LEMMA NativeApiStays == ASSUME NativeStep \/ NativeWork PROVE api' = api
<1> USE DEF Relay
<1>1. CASE OpenAttempt \/ Connected \/ ConnectRetries \/ ConnectFails \/ StreamIsCut \/ StreamFails
  BY <1>1 DEF OpenAttempt, Connected, ConnectRetries, ConnectFails, StreamIsCut, StreamFails, Goto
<1>2. CASE RelayBegin \/ RelayNote \/ RelayReason
  BY <1>2 DEF RelayBegin, RelayNote, RelayReason
<1>3. CASE \E kind \in BlockKinds : RelayOpen(kind)
  BY <1>3 DEF RelayOpen
<1>4. CASE \E b \in DOMAIN out.blocks, n \in 1..Whole : RelayDelta(b, n)
  BY <1>4 DEF RelayDelta
<1>5. CASE \E b \in DOMAIN out.blocks : RelayClose(b)
  BY <1>5 DEF RelayClose
<1>6. CASE RelayStop \/ TranslateEnd
  BY <1>6 DEF RelayStop, TranslateEnd, AnswerEnds
<1>7. CASE TranslateText \/ TranslateReasoning \/ TranslateHiddenReasoning
  BY <1>7 DEF TranslateText, TranslateReasoning, TranslateHiddenReasoning, Translate
<1>8. CASE \E i \in ToolIndices, n \in 0..Whole : TranslateCall(i, n)
  BY <1>8 DEF TranslateCall, Translate
<1>9. CASE \E i \in ToolIndices : TranslateCallDone(i)
  BY <1>9 DEF TranslateCallDone, Translate
<1>10. CASE RelayCorrects \/ RelayRetries
  BY <1>10 DEF RelayCorrects, RelayRetries, CorrectRequest, StartOver
<1>11. CASE RelayGivesUp
  BY <1>11 DEF RelayGivesUp
<1> QED
  BY <1>1, <1>2, <1>3, <1>4, <1>5, <1>6, <1>7, <1>8, <1>9, <1>10, <1>11
     DEF NativeStep, NativeWork

LEMMA StreamKeeps ==
    ASSUME StreamInv, "mixed calls" \notin Quirks, StreamStep \/ StreamWork, UNCHANGED view
    PROVE  StreamInv'
<1>1. transport' = transport
  BY DEF StreamStep, StreamWork
<1>2. CASE Shut
  <2>1. Apart
    BY <1>1, <1>2 DEF Shut, Goto, Apart
  <2> QED BY <1>2, <2>1, SharedSteps
<1>3. CASE ~Native /\ (UpstreamStep \/ Work)
  <2>1. Apart
    BY <1>1, <1>3, ChatApiStays DEF Apart
  <2> QED BY <1>3, <2>1, ChatKeeps
<1>4. CASE Native /\ (NativeStep \/ NativeWork)
  <2>1. Apart
    BY <1>1, <1>4, NativeApiStays DEF Apart
  <2> QED BY <1>4, <2>1, NativeKeeps
<1> QED BY <1>2, <1>3, <1>4 DEF StreamStep, StreamWork

(***************************************************************************)
(* The client takes what waits, or leaves.                                 *)
(***************************************************************************)

LEMMA NoViewIs ==
    /\ NoView.end = "" /\ ~NoView.begun /\ DOMAIN NoView.blocks = {}
    /\ NoView \in Views
<1>1. NoView.end = "" /\ ~NoView.begun /\ DOMAIN NoView.blocks = {}
  BY DEF NoView
<1>2. [b \in {} |-> FALSE] \in SomeBlocks
  <2>1. [b \in {} |-> FALSE] \in [{} -> BlockRecs]
    OBVIOUS
  <2>2. {} \in SUBSET Nat
    OBVIOUS
  <2> QED BY <2>1, <2>2 DEF SomeBlocks
<1> QED BY <1>1, <1>2 DEF Views, NoView

\* Once the terminal event was received nothing waits behind it.
LEMMA AtTheEnd ==
    ASSUME StreamInv, view.end # ""
    PROVE  /\ pending = <<>> /\ Place \in {"done", "gone"}
           /\ Place = "done" => \/ view.end = "stop" /\ Delivered(view)
                                \/ view.end = "error" /\ Contained(view)
<1>1. view \in Views /\ held \in Seq(EventRecs) /\ pending \in Seq(EventRecs) /\ Place \in Places
  BY DEF StreamInv, Buffers
<1>2. CASE Place \in Opening
  <2>1. view = NoView
    BY <1>2 DEF StreamInv, Starts, Buffers
  <2> QED BY <2>1, NoViewIs
<1>3. CASE Place \in Underway
  <2>1. out \in Outputs /\ Tracks(view, pending \o held, out, TRUE)
    BY <1>3 DEF StreamInv, Goes
  <2> DEFINE es == (pending \o held) \o out.new
  <2>2. es \in Seq(EventRecs)
    BY <1>1, <2>1, NewIs, ConcatProperties
  <2>3. PICK w \in Views : Replays(view, es, w) /\ w.end = ""
    BY <2>1 DEF Tracks, Agrees
  <2> HIDE DEF es
  <2>4. w = view
    BY <1>1, <2>2, <2>3, NothingAfterTheEnd
  <2> QED BY <2>3, <2>4
<1>4. CASE Place = "raised"
  <2>1. PICK w \in Views : Replays(view, pending, w) /\ w.end = ""
    BY <1>4 DEF StreamInv, Ends
  <2>2. w = view
    BY <1>1, <2>1, NothingAfterTheEnd
  <2> QED BY <2>1, <2>2
<1>5. CASE Place = "done"
  <2>1. PICK w \in Views : /\ Replays(view, pending, w)
                           /\ \/ w.end = "stop" /\ Delivered(w)
                              \/ w.end = "error" /\ Contained(w)
    BY <1>5 DEF StreamInv, Ends
  <2>2. w = view /\ pending = <<>>
    BY <1>1, <2>1, NothingAfterTheEnd
  <2> QED BY <1>5, <2>1, <2>2
<1>6. CASE Place = "gone"
  BY <1>6 DEF StreamInv, Ends
<1> QED BY <1>1, <1>2, <1>3, <1>4, <1>5, <1>6 DEF Places

LEMMA AtTheFailure ==
    ASSUME StreamInv, pc = "raised", pending = <<>>
    PROVE  view.end = "" /\ Contained(view)
<1>1. Place = "raised" /\ view \in Views
  BY DEF Place, StreamInv, Buffers
<1>2. PICK w \in Views : Replays(view, pending, w) /\ w.end = "" /\ Contained(w)
  BY <1>1 DEF StreamInv, Ends
<1>3. w = view
  BY <1>1, <1>2, NothingToReplay
<1> QED BY <1>2, <1>3

LEMMA TakeKeeps ==
    ASSUME StreamInv, Take, transport' = transport, view' = Got(view, Head(pending))
    PROVE  /\ StreamInv' /\ view \in Views /\ Head(pending) \in EventRecs
           /\ Legal(view, Head(pending)) /\ Place' # "gone"
<1> DEFINE x == Head(pending)
<1>1. /\ pending # <<>> /\ pending' = Tail(pending) /\ pc' = pc /\ then' = then /\ out' = out
      /\ held' = held /\ flushed' = flushed /\ api' = api
  BY DEF Take, bufferVars
<1>2. Place' = Place
  BY <1>1 DEF Place
<1>3. /\ view \in Views /\ held \in Seq(EventRecs) /\ pending \in Seq(EventRecs) /\ Place \in Places
      /\ flushed /\ api \in Wires
  BY <1>1 DEF StreamInv, Buffers
<1>4. /\ Mirrors' <=> Mirrors
      /\ Native' <=> Native
      /\ ResponsesToMessages' <=> ResponsesToMessages
  BY <1>1 DEF Mirrors, Native, ResponsesToMessages
<1>5. \A w : (Delivered(w) => Delivered(w)') /\ (Contained(w) => Contained(w)')
  BY <1>1, <1>4 DEF Delivered, Contained
<1>6. Place \notin Opening /\ Place # "gone"
  BY <1>1, <1>3 DEF StreamInv, Starts, Ends
<1>7. pending' \in Seq(EventRecs)
  BY <1>1, <1>3, HeadTailProperties
<1>8. Starts' /\ Recovers'
  BY <1>1, <1>2, <1>4 DEF StreamInv, Starts, Recovers
<1>9. CASE Place \in Underway
  <2>1. /\ out \in Outputs /\ Tracks(view, pending \o held, out, TRUE)
        /\ Tracks(view, pending \o held, Quiet(out), FALSE)
    BY <1>9 DEF StreamInv, Goes
  <2>2. Quiet(out) \in Outputs
    BY <2>1, QuietStays
  <2>3. /\ Legal(view, x) /\ x \in EventRecs /\ Got(view, x) \in Views
        /\ Tracks(Got(view, x), Tail(pending) \o held, out, TRUE)
    BY <1>1, <1>3, <2>1, TracksAfterTaking
  <2>4. Tracks(Got(view, x), Tail(pending) \o held, Quiet(out), FALSE)
    BY <1>1, <1>3, <2>1, <2>2, TracksAfterTaking
  <2>5. Buffers'
    BY <1>1, <1>2, <1>3, <1>7, <2>3 DEF Buffers
  <2>6. Goes'
    BY <1>1, <1>2, <1>4, <1>9, <2>3, <2>4 DEF StreamInv, Goes
  <2>7. Ends'
    BY <1>2, <1>9, PlacesDiffer DEF Ends
  <2> QED BY <1>2, <1>3, <1>6, <1>8, <2>3, <2>5, <2>6, <2>7 DEF StreamInv
<1>10. CASE Place \in {"done", "raised"}
  <2>1. /\ held = <<>>
        /\ \E w \in Views :
             /\ Replays(view, pending, w)
             /\ Place = "done" => \/ w.end = "stop" /\ Delivered(w)
                                  \/ w.end = "error" /\ Contained(w)
             /\ Place = "raised" => w.end = "" /\ Contained(w)
    BY <1>10 DEF StreamInv, Ends
  <2>2. PICK w \in Views :
             /\ Replays(view, pending, w)
             /\ Place = "done" => \/ w.end = "stop" /\ Delivered(w)
                                  \/ w.end = "error" /\ Contained(w)
             /\ Place = "raised" => w.end = "" /\ Contained(w)
    BY <2>1
  <2>3. /\ Legal(view, x) /\ x \in EventRecs /\ Got(view, x) \in Views
        /\ Replays(Got(view, x), Tail(pending), w)
    BY <1>1, <1>3, <2>2, ReplayTheFirst
  <2>4. Buffers'
    BY <1>1, <1>2, <1>3, <1>7, <2>3 DEF Buffers
  <2>5. Goes'
    BY <1>2, <1>10, PlacesDiffer DEF Goes
  <2>6. Ends'
    BY <1>1, <1>2, <1>5, <1>10, <2>1, <2>2, <2>3 DEF Ends
  <2> QED BY <1>2, <1>3, <1>6, <1>8, <2>3, <2>4, <2>5, <2>6 DEF StreamInv
<1> QED BY <1>3, <1>6, <1>9, <1>10 DEF Places

LEMMA AbandonKeeps ==
    ASSUME StreamInv, Abandon, transport' = transport, view' = view
    PROVE  StreamInv' /\ Place' = "gone" /\ pc' # "done" /\ api' = api
<1>1. pending' = <<>> /\ held' = <<>> /\ Place' = "gone" /\ pc' # "done" /\ api' = api /\ flushed' = flushed
  BY DEF Abandon, Place
<1>2. Buffers'
  BY <1>1, EmptySeq DEF StreamInv, Buffers, Places
<1>3. Starts' /\ Goes' /\ Recovers' /\ Ends'
  BY <1>1 DEF Starts, Goes, Recovers, Ends, Opening, Underway
<1> QED BY <1>1, <1>2, <1>3 DEF StreamInv

LEMMA NextStreamKeeps ==
    ASSUME api \in Wires, view = NoView, NextStream, view' = view
    PROVE  StreamInv'
<1>1. pending' = <<>> /\ held' = <<>> /\ Place' = "new" /\ api' = api /\ ~flushed'
  BY DEF NextStream, StreamRestarts, Place
<1>2. Buffers'
  BY <1>1, EmptySeq, NoViewIs DEF Buffers, Places, Opening
<1>3. Starts' /\ Goes' /\ Recovers' /\ Ends'
  BY <1>1 DEF Starts, Goes, Recovers, Ends, Opening, Underway
<1> QED BY <1>2, <1>3 DEF StreamInv

LEMMA StreamStarts == ASSUME Init PROVE StreamInv
<1>1. /\ api \in Wires /\ Place = "new" /\ view = NoView /\ held = <<>> /\ pending = <<>> /\ ~flushed
  BY DEF Init, StreamInit, ChatInit, Place, Wires, NoView
<1>2. Buffers
  BY <1>1, EmptySeq, NoViewIs DEF Buffers, Places, Opening
<1>3. Starts /\ Goes /\ Recovers /\ Ends
  BY <1>1 DEF Starts, Goes, Recovers, Ends, Opening, Underway
<1> QED BY <1>2, <1>3 DEF StreamInv

LEMMA StreamIsThere ==
    ASSUME StreamInv, UNCHANGED <<streamVars, view>>
    PROVE  StreamInv'
<1>1. Apart /\ Place' = Place /\ UNCHANGED <<out, bufferVars, pending>>
  BY DEF streamVars, chatVars, Apart, Place, bufferVars
<1> QED BY <1>1, Unmoved

(***************************************************************************)
(* The client and its request.                                             *)
(***************************************************************************)

\* What the executor knows of its client and of the stream it reads.
Commitment ==
    /\ ~committed => view = NoView
    /\ committed => view.begun \/ "early pings" \in Quirks
    /\ stage = "open" => ~committed
    /\ stage # "over" => response = IF committed THEN "streaming" ELSE "waiting"

Ending ==
    /\ stage \in {"open", "read", "handed"} => ~failed
    /\ stage = "close" /\ verdict = "" => pending = <<>> /\ pc = IF failed THEN "raised" ELSE "done"

\* What the client was left with.
Outcome ==
    /\ view.end = "error" /\ (stage # "over" \/ verdict # "timeout") => Contained(view)
    /\ view.end = "stop" /\ pc = "done" => view \in Views /\ Delivered(view)

\* The deadline does not pass after the terminal event.
InTime ==
    "slow close" \notin Quirks
        /\ ((stage = "read" /\ late) \/ (stage = "close" /\ verdict = "timeout"))
      => view.end = ""

StreamHolds == stage # "over" => StreamInv

ClientInv == StreamHolds /\ Commitment /\ Ending /\ Outcome /\ InTime

\* A view that has ended is accounted for.
Accounted ==
    view.end # "" =>
       /\ pending = <<>> /\ Place \in {"done", "gone"}
       /\ Place = "done" => \/ view.end = "stop" /\ Delivered(view)
                            \/ view.end = "error" /\ Contained(view)

LEMMA EndIsAccounted == StreamInv => Accounted
BY AtTheEnd DEF Accounted

LEMMA EndIsAccountedNext == (StreamInv => Accounted)'
BY EndIsAccounted, PTL

\* As long as the view stays, what it shows stays what it was.
LEMMA OutcomeStays ==
    ASSUME StreamInv', Outcome, UNCHANGED <<view, api, transport>>, stage # "over"
    PROVE  Outcome'
<1>1. Contained(view) => Contained(view)'
  BY DEF Contained, Native, ResponsesToMessages
<1>2. Accounted'
  BY EndIsAccountedNext
<1>3. view'.end = "stop" /\ pc' = "done" => view' \in Views /\ Delivered(view)'
  <2>1. pc' = "done" => Place' = "done"
    BY DEF Place
  <2>2. view' \in Views
    BY DEF StreamInv, Buffers
  <2> QED BY <1>2, <2>1, <2>2 DEF Accounted
<1> QED BY <1>1, <1>3 DEF Outcome

LEMMA StreamApart == ASSUME StreamStep \/ StreamWork PROVE UNCHANGED <<api, transport>>
<1>1. transport' = transport
  BY DEF StreamStep, StreamWork
<1>2. CASE Shut
  BY <1>1, <1>2 DEF Shut, Goto
<1>3. CASE UpstreamStep \/ Work
  BY <1>1, <1>3, ChatApiStays
<1>4. CASE NativeStep \/ NativeWork
  BY <1>1, <1>4, NativeApiStays
<1> QED BY <1>2, <1>3, <1>4 DEF StreamStep, StreamWork

\* Nothing is shown yet.
LEMMA NothingShown == ASSUME view' = NoView PROVE Outcome' /\ InTime'
BY NoViewIs DEF Outcome, InTime

\* A step of the provider stream.
LEMMA ProviderStep ==
    ASSUME ClientInv, StreamInv', UNCHANGED <<executorVars, apiVars, api, transport>>,
           stage # "over",
           stage = "close" => pending' = pending /\ pc = "shut"
    PROVE  ClientInv'
<1>1. /\ stage' = stage /\ committed' = committed /\ failed' = failed /\ late' = late
      /\ verdict' = verdict /\ view' = view /\ response' = response
  BY DEF executorVars, apiVars
<1>2. Commitment' /\ InTime'
  BY <1>1 DEF ClientInv, Commitment, InTime
<1>3. Ending'
  BY <1>1 DEF ClientInv, Ending
<1>4. Outcome'
  BY <1>1, OutcomeStays DEF ClientInv
<1>5. StreamHolds'
  BY DEF StreamHolds
<1> QED BY <1>2, <1>3, <1>4, <1>5 DEF ClientInv

LEMMA TakeChunkStep ==
    ASSUME ClientInv, TakeChunk
    PROVE  ClientInv'
<1> DEFINE x == Head(pending)
<1>1. /\ stage = "read" /\ stage' = "handed" /\ committed' = TRUE /\ failed' = failed
      /\ Take /\ transport' = transport /\ x.e # "" /\ view' = Received(view, x)
      /\ response' = "streaming"
  BY DEF TakeChunk, ReadChunk, Reading
<1>2. view' = Got(view, x) /\ StreamInv
  BY <1>1 DEF Got, ClientInv, StreamHolds
<1>3. StreamInv' /\ view \in Views /\ x \in EventRecs /\ Legal(view, x) /\ Place' # "gone"
  BY <1>1, <1>2, TakeKeeps
<1>4. Gains(view, x, view')
  BY <1>2, <1>3, GotIs
<1> HIDE DEF x
<1>5. Commitment'
  <2>1. view'.begun \/ "early pings" \in Quirks
    BY <1>1, <1>3, <1>4 DEF Gains, Legal, EventNames
  <2> QED BY <1>1, <2>1 DEF Commitment
<1>6. Ending' /\ InTime' /\ StreamHolds'
  BY <1>1, <1>3 DEF ClientInv, Ending, InTime, StreamHolds
<1>7. Outcome'
  <2>1. Accounted'
    BY <1>3, EndIsAccountedNext
  <2>2. pc' = "done" => Place' = "done"
    BY DEF Place
  <2>3. view' \in Views
    BY <1>3 DEF StreamInv, Buffers
  <2> QED BY <1>3, <2>1, <2>2, <2>3 DEF Accounted, Outcome
<1> QED BY <1>5, <1>6, <1>7 DEF ClientInv

LEMMA EndedIs ==
    ASSUME NEW v \in Views
    PROVE  LET w == Ended(v, "error") IN
           /\ w.blocks = v.blocks /\ w.begun = v.begun
           /\ w.end = IF v.end = "" THEN "error" ELSE "twice"
BY DEF Ended, Views

\* The end of a candidate, and of the request if no other is tried.
LEMMA CloseStep ==
    ASSUME ExecutorInv, ClientInv, Close
    PROVE  ClientInv'
<1>1. /\ stage = "close" /\ pending = <<>> /\ CloseCandidate /\ Respond
      /\ UNCHANGED streamVars
  BY DEF Close, Finished, CloseCandidate
<1>2. /\ UNCHANGED <<api, transport>> /\ pc' = pc
      /\ \A w : (Contained(w) => Contained(w)') /\ (Delivered(w) => Delivered(w)')
  <2>1. api' = api /\ transport' = transport /\ pc' = pc /\ out' = out
    BY <1>1 DEF streamVars, chatVars
  <2> QED BY <2>1 DEF Contained, Delivered, Native, ResponsesToMessages
<1>3. StreamInv /\ Commitment /\ Ending /\ Outcome /\ InTime
  BY <1>1 DEF ClientInv, StreamHolds
<1>4. view \in Views
  BY <1>3 DEF StreamInv, Buffers
<1>5. ASSUME stage' = "over", committed' = committed,
             view' = view \/ (committed /\ view' = Ended(view, "error")), Outcome'
      PROVE  ClientInv'
  <2>1. committed' => view'.begun \/ "early pings" \in Quirks
    BY <1>3, <1>4, <1>5, EndedIs, ZenonT(60) DEF Commitment
  <2>2. Commitment'
    BY <1>3, <1>5, <2>1 DEF Commitment
  <2> QED BY <1>5, <2>2 DEF ClientInv, StreamHolds, Ending, InTime
<1>6. response = IF committed THEN "streaming" ELSE "waiting"
  BY <1>1, <1>3 DEF Commitment
<1>7. CASE EndWith(verdict) /\ verdict = "cancelled"
  <2>1. stage' = "over" /\ verdict' = "cancelled" /\ committed' = committed /\ view' = view
    BY <1>1, <1>7 DEF EndWith, Respond
  <2>2. Outcome'
    BY <1>1, <1>2, <1>3, <2>1 DEF Outcome
  <2> QED BY <1>5, <2>1, <2>2
<1>8. CASE EndWith(verdict) /\ verdict = "timeout"
  <2>1. /\ stage' = "over" /\ verdict' = "timeout" /\ committed' = committed
        /\ view' = view \/ (committed /\ view' = Ended(view, "error"))
    BY <1>1, <1>6, <1>8 DEF EndWith, Respond
  <2>2. view'.end = "stop" => view' = view
    BY <1>4, <2>1, EndedIs
  <2>3. Outcome'
    BY <1>2, <1>3, <2>1, <2>2 DEF Outcome
  <2> QED BY <1>5, <2>1, <2>3
<1>9. CASE verdict = "" /\ ~failed /\ EndWith("completed")
  <2>1. stage' = "over" /\ verdict' = "completed" /\ committed' = committed /\ view' = view
    BY <1>1, <1>9 DEF EndWith, Respond
  <2>2. Outcome'
    BY <1>1, <1>2, <1>3, <2>1 DEF Outcome
  <2> QED BY <1>5, <2>1, <2>2
<1>10. CASE verdict = "" /\ failed /\ FallBack
  <2>1. /\ stage' = "open" /\ ~committed /\ committed' = FALSE /\ failed' = FALSE
        /\ view' = view /\ response' = response
    BY <1>1, <1>10 DEF FallBack, Respond
  <2>2. view = NoView
    BY <1>3, <2>1 DEF Commitment
  <2>3. Outcome' /\ InTime'
    BY <2>1, <2>2, NothingShown
  <2>4. Commitment' /\ Ending'
    BY <1>6, <2>1, <2>2 DEF Commitment, Ending
  <2>5. StreamInv'
    BY <1>1, <1>3, <2>1, StreamIsThere
  <2> QED BY <2>3, <2>4, <2>5 DEF ClientInv, StreamHolds
<1>11. CASE verdict = "" /\ failed /\ EndWith("failed")
  <2>1. /\ stage' = "over" /\ verdict' = "failed" /\ committed' = committed
        /\ view' = view \/ (committed /\ view' = Ended(view, "error"))
    BY <1>1, <1>6, <1>11 DEF EndWith, Respond
  <2>2. pc = "raised"
    BY <1>1, <1>3, <1>11 DEF Ending
  <2>3. view.end = "" /\ Contained(view)
    BY <1>1, <1>3, <2>2, AtTheFailure
  <2>4. view'.blocks = view.blocks /\ view'.end # "stop"
    BY <1>4, <2>1, <2>3, EndedIs
  <2>5. Contained(view)'
    BY <1>2, <2>3, <2>4 DEF Contained
  <2>6. Outcome'
    BY <2>4, <2>5 DEF Outcome
  <2> QED BY <1>5, <2>1, <2>6
<1>12. verdict # "" => verdict \in {"timeout", "cancelled"}
  BY <1>1 DEF ExecutorInv, Verdicts
<1> QED
  BY <1>1, <1>7, <1>8, <1>9, <1>10, <1>11, <1>12 DEF CloseCandidate, FailOrFallBack

LEMMA DisconnectStep ==
    ASSUME ClientInv, Disconnect
    PROVE  ClientInv'
<1>1. /\ stage # "over" /\ stage' \in {"over", "close"} /\ verdict' = "cancelled"
      /\ committed' = committed /\ Abandon /\ transport' = transport /\ Respond
  BY DEF Disconnect, Cancel
<1>2. view' = view /\ (stage' # "over" => response' = response)
  BY <1>1 DEF Respond
<1>3. StreamInv
  BY <1>1 DEF ClientInv, StreamHolds
<1>4. StreamInv' /\ pc' # "done" /\ api' = api
  BY <1>1, <1>2, <1>3, AbandonKeeps
<1>5. Outcome'
  <2>1. Contained(view) => Contained(view)'
    BY <1>1, <1>2, <1>4 DEF Contained, Native, ResponsesToMessages
  <2> QED BY <1>1, <1>2, <1>4, <2>1 DEF ClientInv, Outcome
<1>6. Commitment' /\ Ending' /\ InTime' /\ StreamHolds'
  BY <1>1, <1>2, <1>4 DEF ClientInv, Commitment, Ending, InTime, StreamHolds
<1> QED BY <1>5, <1>6 DEF ClientInv

LEMMA ClientStep ==
    ASSUME ExecutorInv, ClientInv, "mixed calls" \notin Quirks, [Next]_vars
    PROVE  ClientInv'
<1>1. CASE Open
  <2>1. /\ stage = "open" /\ stage' = "read" /\ committed' = committed /\ failed' = failed
        /\ view' = view /\ response' = response
        /\ UNCHANGED streamVars \/ NextStream
    BY <1>1 DEF Open, OpenCandidate, apiVars
  <2>2. StreamInv /\ ~committed /\ view = NoView /\ ~failed /\ response = "waiting"
    BY <2>1 DEF ClientInv, StreamHolds, Commitment, Ending
  <2>3. StreamInv'
    <3>1. CASE UNCHANGED streamVars
      BY <2>1, <2>2, <3>1, StreamIsThere
    <3>2. CASE NextStream
      BY <2>1, <2>2, <3>2, NextStreamKeeps DEF StreamInv, Buffers
    <3> QED BY <2>1, <3>1, <3>2
  <2>4. Outcome' /\ InTime'
    BY <2>1, <2>2, NothingShown
  <2>5. Commitment' /\ Ending' /\ StreamHolds'
    BY <2>1, <2>2, <2>3 DEF Commitment, Ending, StreamHolds
  <2> QED BY <2>4, <2>5 DEF ClientInv
<1>2. CASE Refuse
  <2>1. /\ stage = "open" /\ UNCHANGED streamVars /\ Respond
        /\ FallBack \/ EndWith("failed")
    BY <1>2 DEF Refuse, CandidateRefused, OpenRaises, FailOrFallBack
  <2>2. StreamInv /\ ~committed /\ view = NoView /\ ~failed /\ response = "waiting"
    BY <2>1 DEF ClientInv, StreamHolds, Commitment, Ending
  <2>3. ~committed' /\ view' = view
    <3>1. CASE FallBack
      BY <2>1, <3>1 DEF FallBack, Respond
    <3>2. CASE EndWith("failed")
      <4>1. stage' = "over" /\ verdict' = "failed" /\ committed' = committed
        BY <3>2 DEF EndWith
      <4>2. view' = view
        BY <2>1, <2>2, <4>1 DEF Respond
      <4> QED BY <2>2, <4>1, <4>2
    <3> QED BY <2>1, <3>1, <3>2
  <2>4. stage' # "over" => stage' = "open" /\ ~failed' /\ response' = response
    BY <2>1 DEF FallBack, EndWith, Respond
  <2>5. stage' \in {"open", "over"}
    BY <2>1 DEF FallBack, EndWith
  <2>6. StreamInv'
    BY <2>1, <2>2, <2>3, StreamIsThere
  <2>7. Outcome' /\ InTime'
    BY <2>2, <2>3, NothingShown
  <2>8. Commitment' /\ Ending' /\ StreamHolds'
    BY <2>2, <2>3, <2>4, <2>5, <2>6 DEF Commitment, Ending, StreamHolds
  <2> QED BY <2>7, <2>8 DEF ClientInv
<1>3. CASE Provide \/ ProviderWorks
  <2>1. /\ stage = "read" /\ (StreamStep \/ StreamWork) /\ UNCHANGED <<executorVars, apiVars>>
        /\ view' = view
    BY <1>3 DEF Provide, ProviderWorks, Reading, apiVars
  <2>2. StreamInv'
    BY <2>1, StreamKeeps DEF ClientInv, StreamHolds
  <2>3. UNCHANGED <<api, transport>>
    BY <2>1, StreamApart
  <2> QED BY <2>1, <2>2, <2>3, ProviderStep
<1>4. CASE FinishCleanup
  <2>1. /\ stage = "close" /\ Shut /\ UNCHANGED <<executorVars, apiVars, transport>> /\ view' = view
    BY <1>4 DEF FinishCleanup, apiVars
  <2>2. pending' = pending /\ pc = "shut" /\ api' = api
    BY <2>1 DEF Shut, Goto, Runs
  <2>3. StreamInv /\ Apart
    BY <2>1, <2>2 DEF ClientInv, StreamHolds, Apart
  <2>4. StreamInv'
    BY <2>1, <2>3, SharedSteps
  <2> QED BY <2>1, <2>2, <2>4, ProviderStep
<1>5. CASE TakeEmpty
  <2>1. /\ stage = "read" /\ Take /\ Head(pending).e = "" /\ view' = view /\ transport' = transport
        /\ UNCHANGED <<executorVars, apiVars>>
    BY <1>5 DEF TakeEmpty, ReadEmpty, Reading, apiVars
  <2>2. view' = Got(view, Head(pending)) /\ StreamInv /\ api' = api
    BY <2>1 DEF Got, ClientInv, StreamHolds, Take
  <2>3. StreamInv'
    BY <2>1, <2>2, TakeKeeps
  <2> QED BY <2>1, <2>2, <2>3, ProviderStep
<1>6. CASE TakeChunk
  BY <1>6, TakeChunkStep
<1>7. CASE AskForMore \/ StreamReturns \/ StreamRaises \/ Late
  <2>1. /\ stage # "over" /\ stage' # "over" /\ committed' = committed /\ verdict' = verdict
        /\ UNCHANGED streamVars /\ view' = view /\ response' = response
        /\ stage' = "open" => stage = "open"
        /\ stage' \in {"open", "read", "handed"} =>
              failed' = failed /\ stage \in {"open", "read", "handed"}
    BY <1>7 DEF AskForMore, StreamReturns, StreamRaises, Late, Resume, ReadEnd, ReadFailure,
       Reading, DeadlinePasses, apiVars
  <2>2. StreamInv /\ StreamInv'
    BY <2>1, StreamIsThere DEF ClientInv, StreamHolds
  <2>3. UNCHANGED <<view, api, transport>>
    BY <2>1 DEF streamVars, chatVars
  <2>4. Outcome'
    BY <2>1, <2>2, <2>3, OutcomeStays DEF ClientInv
  <2>5. Commitment' /\ StreamHolds'
    BY <2>1, <2>2 DEF ClientInv, Commitment, StreamHolds
  <2>6. pending' = pending /\ pc' = pc
    BY <2>1 DEF streamVars, chatVars
  <2>7. Ending'
    <3>1. ASSUME stage' = "close", verdict' = ""
          PROVE  pending' = <<>> /\ pc' = IF failed' THEN "raised" ELSE "done"
      <4>1. CASE StreamReturns
        BY <2>6, <4>1 DEF StreamReturns, Returned, Runs, ReadEnd, Reading, ClientInv, Ending
      <4>2. CASE StreamRaises
        BY <2>6, <4>2 DEF StreamRaises, Raised, Runs, ReadFailure
      <4>3. CASE AskForMore \/ Late
        BY <3>1, <4>3 DEF AskForMore, Resume, Late, DeadlinePasses
      <4> QED BY <1>7, <4>1, <4>2, <4>3
    <3>2. stage' \in {"open", "read", "handed"} => ~failed'
      BY <2>1 DEF ClientInv, Ending
    <3> QED BY <3>1, <3>2 DEF Ending
  <2>8. InTime'
    <3>1. CASE AskForMore
      BY <3>1 DEF AskForMore, Resume, InTime
    <3>2. CASE StreamReturns \/ StreamRaises
      <4>1. stage = "read" /\ stage' = "close"
        BY <3>2 DEF StreamReturns, StreamRaises, ReadEnd, ReadFailure, Reading
      <4>2. verdict' = ""
        BY <2>1, <4>1 DEF ExecutorInv, Verdicts
      <4> QED BY <4>1, <4>2 DEF InTime
    <3>3. CASE Late
      <4>1. stage' = stage /\ stage \in {"open", "read"} /\ (stage = "read" => Awaits)
        BY <3>3 DEF Late, DeadlinePasses
      <4>2. ASSUME Awaits, "slow close" \notin Quirks PROVE view.end = ""
        <5>1. Place \notin {"done", "gone"}
          BY <4>2 DEF Awaits, Place
        <5> QED BY <2>2, <5>1, AtTheEnd
      <4> QED BY <2>1, <4>1, <4>2 DEF InTime
    <3> QED BY <1>7, <3>1, <3>2, <3>3
  <2> QED BY <2>4, <2>5, <2>7, <2>8 DEF ClientInv
<1>8. CASE StopReading
  <2>1. /\ stage = "read" /\ late /\ stage' = "close" /\ verdict' = "timeout" /\ view' = view
        /\ Abandon /\ transport' = transport /\ committed' = committed /\ response' = response
    BY <1>8 DEF StopReading, TimesOut, apiVars
  <2>2. StreamInv
    BY <2>1 DEF ClientInv, StreamHolds
  <2>3. StreamInv' /\ api' = api
    BY <2>1, <2>2, AbandonKeeps
  <2>4. Outcome'
    BY <2>1, <2>3, OutcomeStays DEF ClientInv
  <2>5. Commitment' /\ Ending' /\ InTime' /\ StreamHolds'
    BY <2>1, <2>3 DEF ClientInv, Commitment, Ending, InTime, StreamHolds
  <2> QED BY <2>4, <2>5 DEF ClientInv
<1>9. CASE Close
  BY <1>9, CloseStep
<1>10. CASE Disconnect
  BY <1>10, DisconnectStep
<1>11. CASE ReleaseLease \/ UNCHANGED vars
  <2>1. UNCHANGED <<executorVars, streamVars, view, response>>
    BY <1>11 DEF ReleaseLease, vars, apiVars
  <2>2. StreamHolds'
    <3>1. stage' = stage /\ view' = view
      BY <2>1 DEF executorVars
    <3> QED BY <2>1, <3>1, StreamIsThere DEF ClientInv, StreamHolds
  <2>3. /\ stage' = stage /\ committed' = committed /\ failed' = failed /\ late' = late
        /\ verdict' = verdict /\ view' = view /\ response' = response /\ pc' = pc
        /\ pending' = pending /\ out' = out /\ api' = api /\ transport' = transport
    BY <2>1 DEF executorVars, streamVars, chatVars
  <2>4. Commitment' /\ Ending' /\ InTime'
    BY <2>3 DEF ClientInv, Commitment, Ending, InTime
  <2>5. Outcome'
    BY <2>3 DEF ClientInv, Outcome, Contained, Delivered, Native, ResponsesToMessages
  <2> QED BY <2>2, <2>4, <2>5 DEF ClientInv
<1> QED
  BY <1>1, <1>2, <1>3, <1>4, <1>5, <1>6, <1>7, <1>8, <1>9, <1>10, <1>11 DEF Next

LEMMA ClientStarts == ASSUME Init PROVE ClientInv
<1>1. StreamInv /\ view = NoView
  BY StreamStarts DEF Init, NoView
<1>2. /\ stage = "open" /\ ~committed /\ ~failed /\ response = "waiting"
  BY DEF Init, ExecutorInit
<1>3. Commitment /\ Ending /\ StreamHolds
  BY <1>1, <1>2 DEF Commitment, Ending, StreamHolds
<1>4. Outcome /\ InTime
  BY <1>1, NoViewIs DEF Outcome, InTime
<1> QED BY <1>3, <1>4 DEF ClientInv

(***************************************************************************)
(* What the client is left with.                                           *)
(***************************************************************************)

LEMMA ClientInvStep ==
    "mixed calls" \notin Quirks /\ ExecutorInv /\ ClientInv /\ [Next]_vars => ClientInv'
BY ClientStep

LEMMA ClientInvStarts == Init => ClientInv
BY ClientStarts

LEMMA ClientInvariant == ASSUME "mixed calls" \notin Quirks PROVE Spec => []ClientInv
<1>1. ExecutorInv /\ ClientInv /\ [Next]_vars => ClientInv'
  BY ClientInvStep
<1> QED BY <1>1, ClientInvStarts, RequestKeepsExecutorInv, PTL DEF Spec

\* Blocks are known by their parts.
LEMMA SameBlock ==
    ASSUME NEW r \in BlockRecs, NEW s \in BlockRecs,
           r.kind = s.kind, r.open = s.open, r.size = s.size
    PROVE  r = s
BY DEF BlockRecs

LEMMA AllIsRecorded ==
    ASSUME ClientInv, view.end = "stop", pc = "done"
    PROVE  view.blocks = [b \in DOMAIN out.blocks |-> out.blocks[b]]
<1>1. view \in Views /\ out \in Outputs /\ Shows(view, out, TRUE) /\ Closed(out)
  BY DEF ClientInv, Outcome, Delivered
<1>2. PICK S \in SUBSET Nat : view.blocks \in [S -> BlockRecs]
  BY <1>1 DEF Views, SomeBlocks
<1>3. out.blocks \in Seq(BlockRecs) /\ DOMAIN out.blocks = 1..Len(out.blocks)
  BY <1>1, NewIs
<1> DEFINE there == view.blocks
           recorded == out.blocks
<1>4. DOMAIN there = S /\ S = DOMAIN recorded
  BY <1>1, <1>2 DEF Shows
<1>5. \A b \in DOMAIN recorded : there[b] = recorded[b]
  <2> SUFFICES ASSUME NEW b \in DOMAIN recorded PROVE there[b] = recorded[b]
    OBVIOUS
  <2>1. there[b] \in BlockRecs
    BY <1>2, <1>4
  <2>2. recorded[b] \in BlockRecs
    BY <1>3
  <2>3. there[b].open \in BOOLEAN /\ recorded[b].open \in BOOLEAN
    BY <2>1, <2>2 DEF BlockRecs
  <2>4. /\ there[b].kind = recorded[b].kind /\ there[b].open = recorded[b].open
        /\ there[b].size = recorded[b].size
    BY <1>1, <2>3 DEF Shows, Untold, Closed
  <2> HIDE DEF there, recorded
  <2> QED BY <2>1, <2>2, <2>4, SameBlock
<1>6. there = [b \in S |-> there[b]]
  BY <1>2
<1> QED BY <1>4, <1>5, <1>6

\* What the provider's emitter recorded when a request ends is what its client was sent:
\* nothing is lost in the hold-back buffer or between two attempts, and nothing is sent
\* that is not in the record from which recovery goes on.  Upstreams that write some
\* calls as text and make others are excluded: two of their calls may get one index.
THEOREM RecordedIsDelivered ==
    ASSUME "mixed calls" \notin Quirks PROVE Spec => []DeliveredIsRecorded
<1>1. ClientInv => DeliveredIsRecorded
  BY AllIsRecorded DEF DeliveredIsRecorded
<1> QED BY <1>1, ClientInvariant, PTL

LEMMA CallsAreWhole ==
    ASSUME ClientInv, "late names" \notin Quirks
    PROVE  SalvagedCallsAreWhole
<1> SUFFICES ASSUME view.end = "stop", pc = "done", NEW b \in DOMAIN view.blocks,
                    view.blocks[b].kind = "tool"
             PROVE  /\ out.reason = "" => view.blocks[b].size = Whole
                    /\ transport = "messages" => view.blocks[b].size \in {0, Whole}
  BY DEF SalvagedCallsAreWhole
<1>1. view \in Views /\ Delivered(view)
  BY DEF ClientInv, Outcome
<1>2. Shows(view, out, TRUE) /\ Closed(out)
  BY <1>1 DEF Delivered
<1>3. /\ b \in DOMAIN out.blocks /\ IsTool(out, b) /\ ~out.blocks[b].open
      /\ view.blocks[b].size = out.blocks[b].size
  BY <1>2 DEF Shows, Closed, IsTool, Untold
<1> QED BY <1>1, <1>3 DEF Delivered, SoundCalls

LEMMA BlocksAreClosed == ASSUME ClientInv PROVE FailureClosesBlocks
BY DEF ClientInv, Outcome, Contained, FailureClosesBlocks

\* CutOffsAreContained, with the exceptions its comments name, for every upstream that
\* neither names a call after its arguments nor mixes written with native calls: a stream
\* that recovers as if it were complete has whole calls, and a provider's failure closes
\* the blocks unless the stream is native Messages or verbatim, the deadline has passed
\* or the block is a malformed Responses call.
THEOREM CutOffsLeaveNoHalves ==
    ASSUME {"mixed calls", "late names"} \cap Quirks = {}
    PROVE  Spec => []CutOffsAreContained
<1>1. ClientInv => CutOffsAreContained
  BY CallsAreWhole, BlocksAreClosed DEF CutOffsAreContained
<1>2. Spec => []ClientInv
  BY ClientInvariant
<1> QED BY <1>1, <1>2, PTL

(***************************************************************************)
(* The stream contract.                                                    *)
(***************************************************************************)

\* Views are known by their parts.
LEMMA PartsOf ==
    ASSUME NEW v \in Views, NEW B, NEW w, w = [v EXCEPT !.blocks = B]
    PROVE  w.begun = v.begun /\ w.blocks = B /\ w.end = v.end
BY DEF Views

LEMMA SumIsMore ==
    ASSUME NEW m \in Nat, NEW n \in Nat, NEW s, s = m + n, n > 0
    PROVE  s \in Nat /\ s > m
OBVIOUS

\* A live stream ends in an error, be it complete or not.
EndsInError ==
    /\ Contract!Live
    /\ view'.end = "error"
    /\ UNCHANGED <<view.begun, view.blocks>>

\* An error is one of the contract or one of those that CutOff names: the blocks that
\* FailureClosesBlocks does not close are CutOff's.
LEMMA ErrorsAreNamed ==
    ASSUME EndsInError, FailureClosesBlocks', UNCHANGED <<transport, api>>
    PROVE  Contract!Next \/ CutOff
<1>1. /\ Contract!Live /\ view'.end = "error"
      /\ view'.begun = view.begun /\ view'.blocks = view.blocks
  BY DEF EndsInError
<1>2. transport' = transport /\ api' = api
  OBVIOUS
<1>3. CASE \/ verdict' = "timeout"
           \/ Native /\ ~ResponsesToMessages
           \/ Contract!Started = {}
  BY <1>1, <1>3 DEF CutOff
<1>4. CASE /\ verdict' # "timeout"
           /\ ~Native \/ ResponsesToMessages
           /\ Contract!Started # {}
  <2>1. \A b \in Contract!OpenBlocks : api = "responses" /\ view.blocks[b].kind = "tool"
    BY <1>1, <1>2, <1>4
       DEF FailureClosesBlocks, Native, ResponsesToMessages, Contract!OpenBlocks, Contract!Started
  <2>2. CASE Contract!OpenBlocks = {}
    BY <1>1, <1>4, <2>2 DEF Contract!Next, Contract!Fail, Contract!Complete
  <2>3. CASE Contract!OpenBlocks # {}
    BY <1>1, <2>1, <2>3 DEF CutOff
  <2> QED BY <2>2, <2>3
<1> QED BY <1>3, <1>4

\* What may be sent next is a step of the contract, or an error.
LEMMA LegalIsContract ==
    ASSUME Quirks \subseteq {"late names"}, view \in Views, NEW x \in EventRecs, Legal(view, x),
           x.e # "", view' = Received(view, x)
    PROVE  Contract!Next \/ UNCHANGED Contract!vars \/ EndsInError
<1>1. /\ view.end = "" /\ "early pings" \notin Quirks /\ "empty answers" \notin Quirks
      /\ x.e \in EventNames /\ x.size \in Nat /\ x.blk \in Nat
  BY DEF Legal, EventRecs
<1>2. PICK S \in SUBSET Nat : view.blocks \in [S -> BlockRecs]
  BY DEF Views, SomeBlocks
<1>3. DOMAIN view.blocks = S
  BY <1>2
<1>4. x.e # "begin" => Contract!Live
  BY <1>1 DEF Legal, EventNames, Contract!Live
<1> USE DEF Contract!Next
<1>5. CASE x.e = "begin"
  <2>1. view' = [view EXCEPT !.begun = TRUE] /\ ~view.begun
    BY <1>5 DEF Received, Legal
  <2>2. view'.begun = TRUE /\ view'.blocks = view.blocks /\ view'.end = view.end
    BY <2>1 DEF Views
  <2> QED BY <1>1, <2>1, <2>2 DEF Contract!Begin
<1>6. CASE x.e = "open"
  <2>1. view' = [view EXCEPT !.blocks = Opened(view.blocks, x)]
    BY <1>6 DEF Received
  <2>2. /\ view'.begun = view.begun /\ view'.end = view.end
        /\ view'.blocks = Opened(view.blocks, x)
    BY ONLY view \in Views, <2>1, PartsOf
  <2>3. x.blk \in (Nat \ {0}) \ DOMAIN view.blocks /\ x.kind \in BlockKinds
    BY <1>1, <1>6 DEF Legal
  <2>4. x.blk \in DOMAIN view'.blocks
    BY <2>2 DEF Opened
  <2>5. Contract!StartBlock(x.blk, x.kind)
    BY <1>4, <1>6, <2>2, <2>3 DEF Contract!StartBlock, Contract!Started, Opened
  <2> QED BY <2>3, <2>4, <2>5
<1>7. CASE x.e = "delta"
  <2> DEFINE b == x.blk
             B == [view.blocks EXCEPT ![b].size = view.blocks[b].size + x.size]
  <2>1. view' = [view EXCEPT !.blocks = B]
    BY <1>7 DEF Received
  <2>2. b \in DOMAIN view.blocks /\ view.blocks[b].open /\ x.size > 0
    BY <1>7 DEF Legal, OpenIn
  <2>3. view.blocks[b] \in BlockRecs
    BY <1>2, <1>3, <2>2
  <2>4. view.blocks[b].size \in Nat
    BY <2>3 DEF BlockRecs
  <2>5. B[b].size = view.blocks[b].size + x.size
    BY <2>2, <2>3 DEF BlockRecs
  <2>6. B = [view.blocks EXCEPT ![b].size = B[b].size]
    BY <2>5
  <2>7. view'.begun = view.begun /\ view'.end = view.end /\ view'.blocks = B
    BY ONLY view \in Views, <2>1, PartsOf
  <2> HIDE DEF B
  <2>8. B[b].size \in Nat /\ B[b].size > view.blocks[b].size
    <3> DEFINE m == view.blocks[b].size
               n == x.size
               s == B[b].size
    <3>1. m \in Nat
      BY <2>4
    <3>2. n \in Nat /\ n > 0
      BY <1>1, <2>2
    <3>3. s = m + n
      BY <2>5
    <3> HIDE DEF m, n, s
    <3>4. s \in Nat /\ s > m
      BY ONLY <3>1, <3>2, <3>3, SumIsMore
    <3> QED BY <3>4 DEF m, s
  <2>9. Contract!Grow(b)
    BY <1>4, <1>7, <2>2, <2>6, <2>7, <2>8
       DEF Contract!Grow, Contract!OpenBlocks, Contract!Started
  <2> QED BY <2>2, <2>9 DEF Contract!Started
<1>8. CASE x.e = "close"
  <2> DEFINE b == x.blk
             B == [view.blocks EXCEPT ![b].open = FALSE, ![b].size = x.size]
  <2>1. view' = [view EXCEPT !.blocks = B]
    BY <1>8 DEF Received
  <2>2. b \in DOMAIN view.blocks /\ view.blocks[b].open
    BY <1>8 DEF Legal, OpenIn
  <2>3. view.blocks[b] \in BlockRecs
    BY <1>2, <1>3, <2>2
  <2>4. B[b].size = x.size
    BY <2>2, <2>3 DEF BlockRecs
  <2>5. B = [view.blocks EXCEPT ![b].open = FALSE, ![b].size = B[b].size]
    BY <2>4
  <2>6. view'.begun = view.begun /\ view'.end = view.end /\ view'.blocks = B
    BY ONLY view \in Views, <2>1, PartsOf
  <2>7. B[b].size \in Nat
    BY <1>1, <2>4
  <2> HIDE DEF B
  <2>8. Contract!StopBlock(b)
    BY <1>4, <1>8, <2>2, <2>5, <2>6, <2>7
       DEF Contract!StopBlock, Contract!OpenBlocks, Contract!Started
  <2> QED BY <2>2, <2>8 DEF Contract!Started
<1>9. CASE x.e = "note"
  BY <1>9 DEF Received, Contract!vars
<1>10. CASE x.e \in {"stop", "error"}
  <2>1. view' = [view EXCEPT !.end = x.e]
    BY <1>1, <1>10 DEF Received, Ended
  <2>2. view'.begun = view.begun /\ view'.blocks = view.blocks /\ view'.end = x.e
    BY <2>1 DEF Views
  <2>3. x.e = "stop" => AllClosed(view) /\ DOMAIN view.blocks # {}
    BY <1>1 DEF Legal
  <2> QED
    BY <1>4, <1>10, <2>2, <2>3
       DEF EndsInError, Contract!Stop, Contract!Complete, Contract!OpenBlocks, Contract!Started, AllClosed
<1> QED BY <1>1, <1>5, <1>6, <1>7, <1>8, <1>9, <1>10 DEF EventNames

\* The error of a failed request is the terminal event of its stream.
LEMMA FailureIsContract ==
    ASSUME Quirks \subseteq {"late names"}, ExecutorInv, ClientInv, Close
    PROVE  UNCHANGED Contract!vars \/ EndsInError
<1>1. stage = "close" /\ pending = <<>> /\ CloseCandidate /\ Respond
  BY DEF Close, Finished, CloseCandidate
<1>2. StreamInv /\ Commitment /\ Ending /\ InTime
  BY <1>1 DEF ClientInv, StreamHolds
<1>3. view \in Views
  BY <1>2 DEF StreamInv, Buffers
<1>4. response = IF committed THEN "streaming" ELSE "waiting"
  BY <1>1, <1>2 DEF Commitment
<1>5. ASSUME view.end = "", committed, view' = Ended(view, "error") PROVE EndsInError
  <2>1. /\ view'.begun = view.begun /\ view'.blocks = view.blocks /\ view'.end = "error"
    BY <1>3, <1>5, EndedIs
  <2>2. view.begun
    BY <1>2, <1>5 DEF Commitment
  <2> QED BY <1>5, <2>1, <2>2 DEF EndsInError, Contract!Live
<1>6. CASE view' = view
  BY <1>6 DEF Contract!vars
<1>7. CASE view' # view
  <2>1. /\ stage' = "over" /\ verdict' \in {"failed", "timeout"} /\ response = "streaming"
        /\ view' = Ended(view, "error")
    BY <1>1, <1>7 DEF Respond
  <2>2. committed
    BY <1>4, <2>1
  <2>3. verdict \in {"", "timeout", "cancelled"}
    BY <1>1 DEF ExecutorInv, Verdicts
  <2>4. view.end = ""
    <3>1. CASE verdict = "timeout"
      BY <1>1, <1>2, <3>1 DEF InTime
    <3>2. CASE verdict = "cancelled"
      BY <1>1, <2>1, <3>2 DEF CloseCandidate, EndWith
    <3>3. CASE verdict = ""
      <4>1. failed
        BY <1>1, <2>1, <3>3 DEF CloseCandidate, EndWith
      <4> QED BY <1>1, <1>2, <3>3, <4>1, AtTheFailure DEF Ending
    <3> QED BY <2>3, <3>1, <3>2, <3>3
  <2> QED BY <1>5, <2>1, <2>2, <2>4
<1> QED BY <1>6, <1>7

\* Whatever else happens is not seen by the client.
LEMMA ContractOfStep ==
    ASSUME Quirks \subseteq {"late names"}, ExecutorInv, ClientInv, FailureClosesBlocks', [Next]_vars
    PROVE  [Contract!Next \/ CutOff]_(Contract!vars)
<1> SUFFICES Contract!Next \/ CutOff \/ UNCHANGED Contract!vars
  OBVIOUS
<1>1. ASSUME view' = view PROVE UNCHANGED Contract!vars
  BY <1>1 DEF Contract!vars
<1>2. CASE TakeChunk
  <2>1. /\ stage = "read" /\ Take /\ transport' = transport /\ api' = api
        /\ Head(pending).e # "" /\ view' = Received(view, Head(pending))
    BY <1>2 DEF TakeChunk, ReadChunk, Reading, Take
  <2>2. StreamInv /\ view' = Got(view, Head(pending))
    BY <2>1 DEF ClientInv, StreamHolds, Got
  <2>3. view \in Views /\ Head(pending) \in EventRecs /\ Legal(view, Head(pending))
    BY <2>1, <2>2, TakeKeeps
  <2>4. Contract!Next \/ UNCHANGED Contract!vars \/ EndsInError
    BY <2>1, <2>3, LegalIsContract
  <2> QED BY <2>1, <2>4, ErrorsAreNamed
<1>3. CASE Close
  <2>1. transport' = transport /\ api' = api
    BY <1>3 DEF Close, streamVars, chatVars
  <2> QED BY <1>3, <2>1, FailureIsContract, ErrorsAreNamed
<1>4. CASE Refuse
  <2>1. stage = "open" /\ Respond /\ (FallBack \/ EndWith("failed"))
    BY <1>4 DEF Refuse, CandidateRefused, OpenRaises, FailOrFallBack
  <2>2. response = "waiting"
    BY <2>1 DEF ClientInv, Commitment
  <2> QED BY <1>1, <2>1, <2>2 DEF Respond
<1>5. CASE Disconnect
  <2>1. verdict' = "cancelled" /\ Respond
    BY <1>5 DEF Disconnect, Cancel
  <2> QED BY <1>1, <2>1 DEF Respond
<1>6. CASE Open \/ Provide \/ ProviderWorks \/ TakeEmpty \/ AskForMore \/ StreamReturns
           \/ StreamRaises \/ Late \/ StopReading \/ FinishCleanup
  BY <1>1, <1>6 DEF Open, Provide, ProviderWorks, TakeEmpty, AskForMore, StreamReturns,
     StreamRaises, Late, StopReading, FinishCleanup, apiVars
<1>7. CASE ReleaseLease \/ UNCHANGED vars
  BY <1>1, <1>7 DEF ReleaseLease, vars, apiVars
<1> QED BY <1>2, <1>3, <1>4, <1>5, <1>6, <1>7 DEF Next

\* The request follows the stream contract: for every transport and however many attempts
\* and failures, its client sees the steps of StreamContract, which ends in an error only
\* with all blocks closed, and beside them the errors that CutOff names.  The upstreams
\* are those without a quirk but "late names": one that mixes calls, answers nothing,
\* pings before it begins or closes slowly may break the contract.
THEOREM StreamsFollowContract ==
    ASSUME Quirks \subseteq {"late names"} PROVE Spec => FollowsContract
<1>1. Init => Contract!Init
  <2> SUFFICES ASSUME Init PROVE Contract!Init
    OBVIOUS
  <2>1. view = NoView
    BY DEF Init, NoView
  <2>2. NoView.begun = FALSE
    BY DEF NoView
  <2>3. NoView.blocks = [b \in {} |-> FALSE]
    BY DEF NoView
  <2>4. NoView.end = ""
    BY DEF NoView
  <2> HIDE DEF NoView
  <2> QED BY <2>1, <2>2, <2>3, <2>4 DEF Contract!Init
<1>2. ExecutorInv /\ ClientInv /\ FailureClosesBlocks' /\ [Next]_vars
        => [Contract!Next \/ CutOff]_(Contract!vars)
  BY ContractOfStep
<1>3. Spec => []ClientInv
  BY ClientInvariant
<1>4. ClientInv => FailureClosesBlocks
  BY BlocksAreClosed
<1> QED BY <1>1, <1>2, <1>3, <1>4, RequestKeepsExecutorInv, PTL DEF Spec, FollowsContract

\* Nothing is sent before the beginning.
NothingBefore == ~view.begun => Contract!Started = {} /\ view.end = ""

ContractInv == NothingBefore /\ Contract!NormalEndIsComplete

LEMMA ContractStep == ContractInv /\ [Contract!Next \/ CutOff]_(Contract!vars) => ContractInv'
<1> SUFFICES ASSUME ContractInv, [Contract!Next \/ CutOff]_(Contract!vars) PROVE ContractInv'
  OBVIOUS
<1> USE DEF ContractInv, NothingBefore, Contract!NormalEndIsComplete, Contract!Complete
<1>1. CASE Contract!Begin
  BY <1>1 DEF Contract!Begin
<1>2. ASSUME NEW b, NEW kind, Contract!StartBlock(b, kind) PROVE ContractInv'
  BY <1>2 DEF Contract!StartBlock, Contract!Live
<1>3. ASSUME NEW b, Contract!Grow(b) \/ Contract!StopBlock(b) PROVE ContractInv'
  <2>1. Contract!Live /\ UNCHANGED <<view.begun, view.end>>
    BY <1>3 DEF Contract!Grow, Contract!StopBlock
  <2> QED BY <2>1 DEF Contract!Live
<1>4. CASE Contract!Stop
  BY <1>4 DEF Contract!Stop, Contract!Live, Contract!Started, Contract!OpenBlocks
<1>5. CASE Contract!Fail \/ CutOff
  BY <1>5 DEF Contract!Fail, CutOff, Contract!Live
<1>6. CASE UNCHANGED Contract!vars
  BY <1>6 DEF Contract!vars, Contract!Started, Contract!OpenBlocks
<1> QED BY <1>1, <1>2, <1>3, <1>4, <1>5, <1>6 DEF Contract!Next

LEMMA ContractEnds == FollowsContract => []Contract!NormalEndIsComplete
<1>1. Contract!Init => ContractInv
  BY DEF Contract!Init, ContractInv, NothingBefore, Contract!NormalEndIsComplete, Contract!Started
<1>2. ContractInv => Contract!NormalEndIsComplete
  BY DEF ContractInv
<1> QED BY <1>1, <1>2, ContractStep, PTL DEF FollowsContract

\* A stream that ended with message_stop, not with an error, left no block open and had
\* some content, the two last assertions of assert_anthropic_stream_contract
\* (stream_contracts.py).  The quirks must be excluded: an upstream with "empty answers"
\* has its message_stop relayed without any block.
THEOREM AnEndIsComplete ==
    ASSUME Quirks \subseteq {"late names"}
    PROVE  Spec => []Contract!NormalEndIsComplete
<1> QED BY StreamsFollowContract, ContractEnds, PTL

\* Only an open block changes, and only before the terminal event.
LEMMA ClosedStep ==
    ASSUME [Contract!Next \/ CutOff]_(Contract!vars)
    PROVE  [/\ \A b \in Contract!Started \ Contract!OpenBlocks :
                 b \in DOMAIN view.blocks' /\ view.blocks'[b] = view.blocks[b]
            /\ view.end # "" => UNCHANGED Contract!vars]_(Contract!vars)
<1> SUFFICES ASSUME Contract!Next \/ CutOff
             PROVE  /\ \A b \in Contract!Started \ Contract!OpenBlocks :
                         b \in DOMAIN view.blocks' /\ view.blocks'[b] = view.blocks[b]
                    /\ view.end # "" => UNCHANGED Contract!vars
  OBVIOUS
<1> USE DEF Contract!Started
<1>1. CASE Contract!Begin
  BY <1>1 DEF Contract!Begin
<1>2. ASSUME NEW c, NEW kind, Contract!StartBlock(c, kind)
      PROVE  /\ \A b \in Contract!Started \ Contract!OpenBlocks :
                   b \in DOMAIN view.blocks' /\ view.blocks'[b] = view.blocks[b]
             /\ view.end = ""
  BY <1>2 DEF Contract!StartBlock, Contract!Live
<1>3. ASSUME NEW c, Contract!Grow(c) \/ Contract!StopBlock(c)
      PROVE  /\ \A b \in Contract!Started \ Contract!OpenBlocks :
                   b \in DOMAIN view.blocks' /\ view.blocks'[b] = view.blocks[b]
             /\ view.end = ""
  <2>1. view.end = "" /\ c \in Contract!OpenBlocks
    BY <1>3 DEF Contract!Grow, Contract!StopBlock, Contract!Live
  <2>2. \E block : view.blocks' = [view.blocks EXCEPT ![c] = block]
    BY <1>3 DEF Contract!Grow, Contract!StopBlock
  <2> QED BY <2>1, <2>2
<1>4. CASE Contract!Stop \/ Contract!Fail \/ CutOff
  BY <1>4 DEF Contract!Stop, Contract!Fail, CutOff, Contract!Live
<1> QED BY <1>1, <1>2, <1>3, <1>4 DEF Contract!Next

LEMMA ContractKeeps == FollowsContract => Contract!WhatIsClosedStays
BY ClosedStep, PTL DEF FollowsContract, Contract!WhatIsClosedStays

\* A stopped block is never started, extended or reopened again, and nothing follows
\* the terminal event ("block {index} reused after stop").  The quirks must be excluded:
\* an upstream that mixes calls may have an index reused, and one that closes slowly a
\* second terminal event sent when the deadline passes meanwhile.
THEOREM ClosedIsClosed ==
    ASSUME Quirks \subseteq {"late names"}
    PROVE  Spec => Contract!WhatIsClosedStays
<1> QED BY StreamsFollowContract, ContractKeeps, PTL
=============================================================================
