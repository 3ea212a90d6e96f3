-------------------------- MODULE RequestExecution --------------------------
(***************************************************************************)
(* One streaming request from the HTTP handler to the upstream: the        *)
(* candidates of ModelFallback, each of them served by a RelayStream, the  *)
(* first-chunk response of api/response_streams.py, the client's           *)
(* disconnect (api/request_lifetime.py) and the lease of the provider      *)
(* generation (api/routes.py).                                             *)
(***************************************************************************)
EXTENDS ModelFallback, RelayStream

VARIABLES
    view,       \* what the client received: begun, blocks, end
    response,   \* "waiting" (no chunk yet), "streaming", "refused" (a JSON error),
                \* "ended" or "gone" (the client left)
    lease       \* the request's generation lease is held

apiVars == <<view, response, lease>>
vars == <<executorVars, streamVars, apiVars>>

Init ==
    /\ ExecutorInit
    /\ StreamInit
    /\ view = [begun |-> FALSE, blocks |-> [b \in {} |-> FALSE], end |-> ""]
    /\ response = "waiting"
    /\ lease = TRUE

(***************************************************************************)
(* The client.                                                             *)
(***************************************************************************)
Opened(blocks, event) ==
    [b \in DOMAIN blocks \cup {event.blk} |->
        IF b = event.blk THEN [kind |-> event.kind, open |-> TRUE, size |-> 0] ELSE blocks[b]]

\* a second terminal event is not lost on the client
Ended(v, e) == [v EXCEPT !.end = IF v.end = "" THEN e ELSE "twice"]

Received(v, event) ==
    CASE event.e = "begin" -> [v EXCEPT !.begun = TRUE]
      [] event.e = "open"  -> [v EXCEPT !.blocks = Opened(@, event)]
      [] event.e = "delta" -> [v EXCEPT !.blocks[event.blk].size = @ + event.size]
      [] event.e = "note"  -> v
      [] event.e = "close" -> [v EXCEPT !.blocks[event.blk].open = FALSE,
                                        !.blocks[event.blk].size = event.size]
      [] OTHER             -> Ended(v, event.e)

\* a failed body becomes a JSON error before the first chunk, a terminal frame after it
Respond ==
    \/ /\ stage' # "over"
       /\ UNCHANGED <<view, response>>
    \/ /\ stage' = "over" /\ verdict' = "cancelled"
       /\ response' = "gone"
       /\ UNCHANGED view
    \/ /\ stage' = "over" /\ verdict' # "cancelled" /\ response = "waiting"
       /\ response' = "refused"
       /\ UNCHANGED view
    \/ /\ stage' = "over" /\ verdict' = "completed" /\ response = "streaming"
       /\ response' = "ended"
       /\ UNCHANGED view
    \/ /\ stage' = "over" /\ verdict' \in {"failed", "timeout"} /\ response = "streaming"
       /\ response' = "ended"
       /\ view' = Ended(view, "error")

-----------------------------------------------------------------------------
(* The executor and the provider stream it reads. *)

Open ==
    /\ OpenCandidate
    /\ IF candidate = 1 THEN UNCHANGED streamVars ELSE NextStream
    /\ UNCHANGED apiVars

Refuse ==
    /\ CandidateRefused \/ OpenRaises
    /\ Respond
    /\ UNCHANGED <<streamVars, lease>>

Provide == Reading /\ StreamStep /\ UNCHANGED <<executorVars, apiVars>>
ProviderWorks == Reading /\ StreamWork /\ UNCHANGED <<executorVars, apiVars>>

TakeEmpty ==
    /\ ReadEmpty
    /\ Take /\ UNCHANGED transport /\ Head(pending).e = ""
    /\ UNCHANGED apiVars

TakeChunk ==
    /\ ReadChunk
    /\ Take /\ UNCHANGED transport /\ Head(pending).e # ""
    /\ view' = Received(view, Head(pending))
    /\ response' = "streaming"
    /\ UNCHANGED lease

AskForMore == Resume /\ UNCHANGED <<streamVars, apiVars>>

StreamReturns == Returned /\ ReadEnd /\ UNCHANGED <<streamVars, apiVars>>
StreamRaises == Raised /\ ReadFailure /\ UNCHANGED <<streamVars, apiVars>>

\* time passes while the generator awaits the upstream or the admission controller
Awaits ==
    /\ pending = <<>>
    /\ \/ pc \in {"new", "open", "connect", "read", "cut", "broken", "collect"}
       \/ pc = "recover" /\ AsksUpstream
       \/ pc = "shut" /\ "slow close" \in Quirks

Late ==
    /\ stage = "read" => Awaits
    /\ DeadlinePasses
    /\ UNCHANGED <<streamVars, apiVars>>

StopReading == TimesOut /\ Abandon /\ UNCHANGED <<transport, apiVars>>

\* closing the abandoned generator runs its finally block first
FinishCleanup == stage = "close" /\ Shut /\ UNCHANGED <<executorVars, transport, apiVars>>

Close ==
    /\ Finished
    /\ CloseCandidate
    /\ Respond
    /\ UNCHANGED <<streamVars, lease>>

Disconnect ==
    /\ response \in {"waiting", "streaming"}
    /\ Cancel
    /\ Abandon
    /\ Respond
    /\ UNCHANGED <<transport, lease>>

\* the lease ends with the client's interest, not with the body
MutReleaseLease ==
    /\ stage = "over" \/ verdict = "cancelled"
    /\ lease
    /\ lease' = FALSE
    /\ UNCHANGED <<executorVars, streamVars, view, response>>

\* bind_response_lifetime: after the body is closed
ReleaseLease ==
    /\ stage = "over"
    /\ lease
    /\ lease' = FALSE
    /\ UNCHANGED <<executorVars, streamVars, view, response>>

Next ==
    \/ Open
    \/ Refuse
    \/ Provide
    \/ ProviderWorks
    \/ TakeEmpty
    \/ TakeChunk
    \/ AskForMore
    \/ StreamReturns
    \/ StreamRaises
    \/ Late
    \/ StopReading
    \/ FinishCleanup
    \/ Close
    \/ Disconnect
    \/ ReleaseLease

Spec == Init /\ [][Next]_vars

(***************************************************************************)
(* The upstream may stay silent for ever.  The clock does not stop, the    *)
(* event loop runs what is ready, the client reads or leaves, and closing  *)
(* an upstream stream ends.                                                *)
(***************************************************************************)
Progress ==
    \/ Open \/ TakeEmpty \/ TakeChunk \/ AskForMore \/ StreamReturns \/ StreamRaises
    \/ Late \/ StopReading \/ FinishCleanup \/ Close \/ ReleaseLease

\* weak fairness of ProviderWorks, with its guard in place of ENABLED, which TLC
\* evaluates too slowly
ProviderIsScheduled ==
    []<>~(Reading /\ pending = <<>> /\ Works) \/ []<><<ProviderWorks>>_vars

FairSpec == Spec /\ WF_vars(Progress) /\ ProviderIsScheduled

-----------------------------------------------------------------------------
(***************************************************************************)
(* Properties.                                                             *)
(***************************************************************************)

Contract == INSTANCE StreamContract
              WITH Blocks <- Nat \ {0}, Kinds <- BlockKinds,
                   begun <- view.begun, blocks <- view.blocks, end <- view.end

\* A terminal error where the contract allows none, because a block is open or none was
\* started: the frame of _PrefetchedStream closes nothing.  It cuts a stream off when the
\* progress deadline passes, when a native Messages upstream or a verbatim relay ends,
\* and before the first block; a Responses answer fails over a malformed call.
CutOff ==
    /\ Contract!Live
    /\ view'.end = "error"
    /\ UNCHANGED <<view.begun, view.blocks>>
    /\ \/ verdict' = "timeout"
       \/ Native /\ ~ResponsesToMessages
       \/ Contract!Started = {}
       \/ api = "responses" /\ \A b \in Contract!OpenBlocks : view.blocks[b].kind = "tool"

\* What the client sees follows the stream contract of the repository, the end in an
\* error included, whatever was retried, recovered, repaired or replaced by a fallback
\* underneath: every step is one of StreamContract, except for the errors that CutOff
\* names (stream_contracts.py, stream_output.py).
FollowsContract == Contract!Init /\ [][Contract!Next \/ CutOff]_(Contract!vars)

\* A stream that ended normally delivered exactly what its provider recorded: no block
\* of a discarded attempt, nothing lost in the holdback buffer, nothing sent twice
\* (RecoveryHoldbackBuffer, "retain SSE so early cutoffs can be retried invisibly").
DeliveredIsRecorded ==
    view.end = "stop" /\ pc = "done" =>
        view.blocks = [b \in DOMAIN out.blocks |-> out.blocks[b]]

\* A stream that is declared complete although its upstream was cut off contains no
\* tool call with incomplete arguments (_recovery_events, can_salvage_tool_use), nor does
\* the answer of a native Messages upstream (NativeMessagesStreamState.accept).
SalvagedCallsAreWhole ==
    view.end = "stop" /\ pc = "done" =>
        \A b \in DOMAIN view.blocks :
            view.blocks[b].kind = "tool" =>
                /\ out.reason = "" => view.blocks[b].size = Whole
                /\ transport = "messages" => view.blocks[b].size \in {0, Whole}

\* When a provider fails after the first chunk, its client gets the terminal error with
\* every block closed (_resolve_attempt_failure, close_unclosed_blocks).  Excepted are the
\* CutOffs: the progress deadline, a native Messages upstream and a verbatim relay leave
\* blocks open, and a Responses answer a call whose arguments are malformed.
FailureClosesBlocks ==
    view.end = "error" /\ verdict # "timeout" /\ (~Native \/ ResponsesToMessages) =>
        \A b \in DOMAIN view.blocks :
            view.blocks[b].open => api = "responses" /\ view.blocks[b].kind = "tool"

\* A stream that recovers from a cut-off as if it were complete has whole tool calls, and
\* one that a chat upstream or a translated Responses upstream fails has its blocks closed
\* before the error, except a malformed Responses call; nothing is promised of the blocks
\* of a stream that the deadline, native Messages or a verbatim relay cuts off.
CutOffsAreContained == SalvagedCallsAreWhole /\ FailureClosesBlocks

\* The provider generation is leased until the attempt and the upstream stream of the
\* request are closed, also when the client leaves or the deadline passes
\* (ManagedStreamingResponse._cleanup, bind_response_lifetime).
LeaseCoversUpstream == ~lease => ~live /\ streams = {}

\* A request ends and gives its lease back even if the upstream falls silent at any
\* point (the progress deadline of ProviderExecutor).
RequestEnds == <>~lease
=============================================================================
