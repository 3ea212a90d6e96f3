----------------------------- MODULE ChatStream -----------------------------
(***************************************************************************)
(* One provider stream of the OpenAI-chat transport: the generator         *)
(* _OpenAIChatStreamRunner._run_execution (providers/openai_chat/          *)
(* provider.py) with its assembler, the holdback buffer and the recovery   *)
(* decision of providers/stream_recovery.py, and ProviderAttemptScope      *)
(* (providers/http.py).  Each action is a stretch of the generator between *)
(* two awaits; what it yields is taken from "pending" event by event by    *)
(* the consumer, and the generator goes on when it is empty.               *)
(*                                                                         *)
(* The provider admission controller is in ProviderAdmission; here an      *)
(* execution is its budget of attempts.                                    *)
(***************************************************************************)
EXTENDS ChatOutput

CONSTANTS MaxAttempts,   \* attempts of one execution
          MaxChunks,     \* upstream chunks of the first provider stream (a bound)
          MaxLaterChunks, \* and of each later one
          Quirks         \* what upstreams may do: "mixed calls" (a model writes one
                         \* call as text and makes others natively), "late names"
                         \* (arguments of a call before its name), "slow close"

VARIABLES
    pc,         \* where the generator is suspended
    then,       \* where it goes when its attempt scope is closed
    attempts,   \* attempts started
    live,       \* an attempt and its transport are held
    out,        \* the output epoch of the assembler
    held,       \* events in the holdback buffer
    flushed,    \* the holdback buffer is committed
    pending,    \* events yielded and not yet taken
    corrected,  \* corrections of the request so far
    room,       \* chunks the upstream may still send (a bound)
    api         \* the wire of the request: "messages" or "responses"

attemptVars == <<attempts, live>>
bufferVars == <<held, flushed>>
chatVars == <<pc, then, attemptVars, out, bufferVars, pending, corrected, room, api>>

ToolIndices == {0, 1}

ChatInit(chunks) ==
    /\ api \in {"messages", "responses"}
    /\ pc = "new" /\ then = "open"
    /\ attempts = 0 /\ live = FALSE
    /\ out = NewOutput(api)
    /\ held = <<>> /\ flushed = FALSE
    /\ pending = <<>>
    /\ corrected = 0
    /\ room = chunks

\* a new provider stream, for the next candidate
StreamRestarts ==
    /\ pc' = "new" /\ then' = "open"
    /\ attempts' = 0 /\ live' = FALSE
    /\ out' = NewOutput(api)
    /\ held' = <<>> /\ flushed' = FALSE
    /\ pending' = <<>>
    /\ corrected' = 0
    /\ room' = MaxLaterChunks
    /\ UNCHANGED api

CanAttempt == attempts < MaxAttempts
Runs(p) == pc = p /\ pending = <<>>
Emitted == out.blocks # <<>>   \* generated_output

-----------------------------------------------------------------------------
(* Events. *)

Quiet(o) == [o EXCEPT !.new = <<>>]

\* RecoveryHoldbackBuffer.push: the size or the age of the buffer may commit it
Hold(o) ==
    /\ out' = Quiet(o)
    /\ \/ /\ flushed
          /\ pending' = o.new
          /\ UNCHANGED bufferVars
       \/ /\ ~flushed /\ o.new # <<>>
          /\ flushed' = TRUE
          /\ pending' = held \o o.new
          /\ held' = <<>>
       \/ /\ ~flushed
          /\ held' = held \o o.new
          /\ UNCHANGED <<pending, flushed>>

\* the buffer is flushed and the events after it bypass it
Release(o) ==
    /\ out' = Quiet(o)
    /\ pending' = held \o o.new
    /\ held' = <<>> /\ flushed' = TRUE

\* an await that ends in another place, without an effect of its own
Goto(p) == pc' = p /\ UNCHANGED <<then, out, bufferVars, pending, corrected, room, api>>

-----------------------------------------------------------------------------
(* Opening an attempt: _create_stream. *)

Attempt ==
    /\ CanAttempt
    /\ attempts' = attempts + 1
    /\ live' = TRUE

LoseAttempt == live' = FALSE /\ UNCHANGED attempts

\* a fresh assembler for every attempt
OpenAttempt ==
    /\ Runs("new") \/ Runs("open")
    /\ Attempt
    /\ pc' = "connect"
    /\ out' = NewOutput(api)
    /\ UNCHANGED <<then, bufferVars, pending, corrected, room, api>>

Connected == Runs("connect") /\ Goto("read") /\ UNCHANGED attemptVars

\* the request is corrected or repeated
ConnectRetries ==
    /\ Runs("connect")
    /\ CanAttempt
    /\ LoseAttempt
    /\ Goto("open")

\* without a scope nothing was committed: the failure is raised
ConnectFails == Runs("connect") /\ LoseAttempt /\ Goto("raised")

-----------------------------------------------------------------------------
(* Reading: assembler.start_events(), feed() and finish_upstream(). *)

Feed(o) ==
    /\ Runs("read")
    /\ room > 0
    /\ room' = room - 1
    /\ Hold(o)
    /\ UNCHANGED <<pc, then, attemptVars, corrected, api>>

MayWriteCalls == "mixed calls" \in Quirks \/ ~MakesCalls(out)
MayMakeCalls == "mixed calls" \in Quirks \/ ~WritesCalls(out)

FeedText == Feed(EmitText(StartEvents(out)))

FeedReasoning(n) == Feed(NativeReasoning(StartEvents(out), n))

\* the first delta of a call brings its name, unless names come late
FeedToolCall(i, named, n) ==
    /\ MayMakeCalls
    /\ IF CallStarted(out, i) THEN ~named /\ n > 0
       ELSE named \/ ("late names" \in Quirks /\ n > 0)
    /\ Feed(ProcessToolCall(CloseContentBlocks(StartEvents(out)), i, named, n))

FeedWrittenCall == MayWriteCalls /\ Feed(HeuristicToolUse(StartEvents(out)))

FeedFinish(r) == Feed([StartEvents(out) EXCEPT !.reason = r])

\* finish_upstream() releases what the text parsers hold
EndsProperly ==
    /\ Runs("read")
    /\ out.reason = "stop"
    /\ \/ Hold(out)
       \/ Hold(EmitText(out))
       \/ MayWriteCalls /\ Hold(HeuristicToolUse(out))
    /\ pc' = "shut" /\ then' = "finish"
    /\ UNCHANGED <<attemptVars, corrected, room, api>>

\* a retryable failure ("cut"): the connection, or an end without a finish reason
StreamIsCut == Runs("read") /\ Goto("cut") /\ UNCHANGED attemptVars

\* any other failure, a full context window among them
StreamFails == Runs("read") /\ Goto("broken") /\ UNCHANGED attemptVars

\* the finally block: ProviderAttemptScope.aclose
Shut == Runs("shut") /\ LoseAttempt /\ Goto(then)

\* prepare_completion(), terminal_events() and the last flush
Finish ==
    /\ Runs("finish")
    /\ Release(FinishSuccess(PrepareCompletion(out)))
    /\ pc' = "done"
    /\ UNCHANGED <<then, attemptVars, corrected, room, api>>

-----------------------------------------------------------------------------
(* Failures: RecoveryController.advance_failure, _resolve_attempt_failure. *)

Salvageable == CanSalvage(out)
Remaining == MaxAttempts - attempts

RetriesEarly ==
    /\ pc = "cut" /\ CanAttempt
    /\ ~flushed
    /\ ~Salvageable
    /\ ~(Emitted /\ Remaining = 1)   \* the last attempt is kept for recovery

RecoversMidstream ==
    /\ ~RetriesEarly
    /\ pc = "cut" /\ Emitted
    /\ CanAttempt \/ Salvageable

\* recovery.discard(): the next attempt starts from nothing
MutKeepHeld ==
    /\ pc' = "shut" /\ then' = "open"
    /\ UNCHANGED <<attemptVars, out, bufferVars, pending, room, api>>

StartOver ==
    /\ held' = <<>>
    /\ pc' = "shut" /\ then' = "open"
    /\ UNCHANGED <<attemptVars, out, flushed, pending, room, api>>

EarlyRetry ==
    /\ Runs("cut")
    /\ RetriesEarly
    /\ StartOver
    /\ UNCHANGED corrected

\* the upstream rejected the request, and nothing was sent: it is corrected, each
\* kind of correction once
CorrectRequest(kinds) ==
    /\ Runs("broken")
    /\ ~flushed /\ corrected < kinds /\ CanAttempt
    /\ corrected' = corrected + 1
    /\ StartOver

\* how reasoning was requested
CorrectReasoning == CorrectRequest(1)

MidstreamRecovery ==
    /\ Runs("cut")
    /\ RecoversMidstream
    /\ pc' = "shut" /\ then' = "recover"
    /\ UNCHANGED <<attemptVars, out, bufferVars, pending, corrected, room, api>>

\* nothing was sent and no complete call waits in the buffer: drop it and raise;
\* otherwise the stream is closed for its client and ends with the failure
FinalError ==
    LET kept == flushed \/ (held # <<>> /\ Salvageable)
    IN  /\ pc' = "shut"
        /\ \/ /\ ~kept
              /\ then' = "raised"
              /\ held' = <<>>
              /\ out' = Quiet(out)
              /\ UNCHANGED <<flushed, pending>>
           \/ /\ kept /\ api = "responses"
              /\ then' = "done"
              /\ Release(FinishFailure(Quiet(out)))
           \/ /\ kept /\ api = "messages"
              /\ then' = "raised"
              /\ Release(CloseUnclosedBlocks(Quiet(out)))

GivesUp ==
    /\ Runs("cut") \/ Runs("broken")
    /\ ~RetriesEarly /\ ~RecoversMidstream
    /\ FinalError
    /\ UNCHANGED <<attemptVars, corrected, room, api>>

-----------------------------------------------------------------------------
(* Midstream recovery: _recovery_events, _repair_tool_args and             *)
(* _collect_recovery_output.  Events collected meanwhile stay in out.new.  *)

Broken == {p \in StartedTools(out) : out.tools[p].args # Whole}
FirstBroken == CHOOSE p \in Broken : \A q \in Broken : p <= q

RecoveryEnds(o) ==
    /\ Release(FinishSuccess(o))
    /\ pc' = "done"
    /\ UNCHANGED <<then, corrected, room, api>>

SalvageCalls ==
    /\ Runs("recover")
    /\ CanSalvage(out)
    /\ RecoveryEnds(out)
    /\ UNCHANGED attemptVars

NeedsUpstream == IF HasTool(out) THEN ~CanSalvage(out) ELSE out.texts + out.thoughts > 0
AsksUpstream == NeedsUpstream /\ CanAttempt

AskUpstream ==
    /\ Runs("recover")
    /\ NeedsUpstream
    /\ Attempt
    /\ Goto("collect")

\* no attempt is left for a call, or there is nothing to continue
CannotAsk ==
    /\ Runs("recover")
    /\ ~AsksUpstream /\ ~CanSalvage(out)
    /\ FinalError
    /\ UNCHANGED <<attemptVars, corrected, room, api>>

\* a retryable error, or an unusable repair
CollectRetries ==
    /\ Runs("collect")
    /\ CanAttempt
    /\ LoseAttempt
    /\ Goto("recover")

CollectFails ==
    /\ Runs("collect")
    /\ LoseAttempt
    /\ FinalError
    /\ UNCHANGED <<corrected, room, api>>

\* the missing suffix of the first incomplete call; a buffered Task is sent whole
RepairArrives ==
    /\ Runs("collect")
    /\ HasTool(out)
    /\ LET t == out.tools[FirstBroken]
       IN  /\ t.args + t.task <= Whole
           /\ out' = EmitToolDelta(out, t.idx, Whole - t.args)
    /\ LoseAttempt
    /\ pc' = "recover"
    /\ UNCHANGED <<then, bufferVars, pending, corrected, room, api>>

\* a continuation with new reasoning, new text or a complete call
ContinuationArrives ==
    /\ Runs("collect")
    /\ ~HasTool(out)
    /\ \E think, text, call \in BOOLEAN :
          LET r == IF think THEN EmitReasoning(out) ELSE out
              t == IF text THEN EmitText(r) ELSE r
              c == IF call THEN ProcessToolCall(CloseContentBlocks(t), 0, TRUE, Whole) ELSE t
          IN  /\ think \/ text \/ call
              /\ RecoveryEnds(c)
    /\ LoseAttempt

-----------------------------------------------------------------------------
(* The consumer. *)

Take ==
    /\ pending # <<>>
    /\ pending' = Tail(pending)
    /\ UNCHANGED <<pc, then, attemptVars, out, bufferVars, corrected, room, api>>

\* CancelledError at an await, GeneratorExit at a yield: only the finally blocks run
Abandon ==
    /\ pending' = <<>> /\ held' = <<>>
    /\ out' = NewOutput(api)
    /\ IF live THEN pc' = "shut" /\ then' = "gone"
       ELSE pc' = "gone" /\ UNCHANGED then
    /\ UNCHANGED <<attemptVars, flushed, corrected, room, api>>

Returned == Runs("done")
Raised == Runs("raised")
Finished == pc \in {"done", "raised", "gone"} /\ pending = <<>>

\* the generator goes on by itself
Work ==
    \/ Finish
    \/ EarlyRetry
    \/ MidstreamRecovery
    \/ GivesUp
    \/ SalvageCalls
    \/ CannotAsk

Works == pc \in {"finish", "cut", "broken", "shut"} \/ (pc = "recover" /\ ~AsksUpstream)

\* the generator awaits the admission controller or the upstream
UpstreamStep ==
    \/ OpenAttempt
    \/ Connected
    \/ ConnectRetries
    \/ ConnectFails
    \/ FeedText
    \/ \E n \in {0, 1} : FeedReasoning(n)
    \/ \E i \in ToolIndices, named \in BOOLEAN, n \in 0..Whole : FeedToolCall(i, named, n)
    \/ FeedWrittenCall
    \/ \E r \in {"stop", "context"} : FeedFinish(r)
    \/ EndsProperly
    \/ StreamIsCut
    \/ StreamFails
    \/ CorrectReasoning
    \/ AskUpstream
    \/ CollectRetries
    \/ CollectFails
    \/ RepairArrives
    \/ ContinuationArrives
=============================================================================
