---------------------------- MODULE RelayStream ----------------------------
(***************************************************************************)
(* One provider stream of any of the three transports.  A chat upstream is *)
(* served by ChatStream; a native Anthropic Messages upstream by           *)
(* MessagesTransport._run (providers/anthropic_messages/transport.py); a   *)
(* native Responses upstream by _run_execution of providers/               *)
(* openai_responses/transport.py.  Either native one is relayed verbatim   *)
(* to a client of its own protocol (NativeMessagesRelay,                   *)
(* NativeResponsesPresenter) and translated event by event for a client of *)
(* the other (AnthropicToResponsesStream, ResponsesProviderStream).        *)
(*                                                                         *)
(* The three share the attempts, the attempt scope and the holdback        *)
(* buffer, so the variables are those of ChatStream.  A Messages upstream  *)
(* is validated, and what breaks its protocol is a cut-off; a Responses    *)
(* upstream is trusted to keep its own.                                    *)
(***************************************************************************)
EXTENDS ChatStream

CONSTANTS Transports,       \* of "chat", "messages" and "responses", those providers have
          MaxNativeChunks   \* content events of a first native stream (a bound)

ASSUME TransportsAssumption == Transports \subseteq {"chat", "messages", "responses"}

VARIABLE transport    \* the transport of the candidate's provider

streamVars == <<chatVars, transport>>

Native == transport # "chat"
Verbatim == transport = api
MessagesToResponses == transport = "messages" /\ api = "responses"
ResponsesToMessages == transport = "responses" /\ api = "messages"

StreamInit ==
    /\ transport \in Transports
    /\ ChatInit(IF Native THEN MaxNativeChunks ELSE MaxChunks)

NextStream == StreamRestarts /\ transport' \in Transports

\* one event of the upstream; the lifecycle events do not count as content
Relay(o, n) ==
    /\ Runs("read")
    /\ n <= room
    /\ room' = room - n
    /\ Hold(o)
    /\ UNCHANGED <<pc, then, attemptVars, corrected, api>>

-----------------------------------------------------------------------------
(* Events that keep their meaning: verbatim, or of a Messages upstream     *)
(* presented item by item.                                                 *)

Mirrors == Native /\ ~ResponsesToMessages
Going == Mirrors /\ out.begun /\ out.reason = ""

RelayBegin == Mirrors /\ ~out.begun /\ Relay(StartEvents(out), 0)

RelayOpen(kind) == Going /\ Relay(StartBlock(out, kind), 1)

\* the arguments of a translated call are kept until its block is complete
RelayDelta(b, n) ==
    /\ Going
    /\ b \in DOMAIN out.blocks /\ out.blocks[b].open
    /\ IF out.blocks[b].kind = "tool" THEN out.blocks[b].size + n <= Whole ELSE n = 1
    /\ IF MessagesToResponses /\ out.blocks[b].kind = "tool"
       THEN Relay([out EXCEPT !.blocks[b].size = @ + n], 1)
       ELSE Relay(Delta(out, b, n), 1)

\* the arguments of a call are not checked when its block stops
MutSound(b) == TRUE

\* "Native tool arguments are incomplete or invalid JSON"
Sound(b) == out.blocks[b].kind = "tool" => out.blocks[b].size \in {0, Whole}

RelayClose(b) ==
    /\ Going
    /\ b \in DOMAIN out.blocks /\ out.blocks[b].open
    /\ Sound(b)
    /\ Relay(StopBlock(out, b), 0)

\* ping, and whatever else has no meaning for the client: handed on as it is or
\* swallowed.  Before the first event of an answer a ping is a quirk.
RelayNote ==
    /\ Native
    /\ out.begun \/ (Verbatim /\ "early pings" \in Quirks)
    /\ Relay(IF Verbatim THEN Say(out, Event("note", 0, "", 0)) ELSE out, 1)

Closed(o) == \A b \in DOMAIN o.blocks : ~o.blocks[b].open
Complete == Closed(out) /\ (out.blocks # <<>> \/ "empty answers" \in Quirks)

\* message_delta with the stop reason: "arrived with open content blocks" otherwise
RelayReason ==
    /\ Going /\ transport = "messages"
    /\ Complete
    /\ LET o == [out EXCEPT !.reason = "stop"]
       IN  Relay(IF Verbatim THEN Say(o, Event("note", 0, "", 0)) ELSE o, 0)

\* the terminal event: everything is flushed, then the attempt is closed
AnswerEnds(o) ==
    /\ Runs("read")
    /\ Release([Say(o, Event("stop", 0, "", 0)) EXCEPT !.terminal = TRUE, !.reason = "stop"])
    /\ pc' = "shut" /\ then' = "done"
    /\ UNCHANGED <<attemptVars, corrected, room, api>>

\* message_stop is refused before a stop reason, response.completed comes unasked
RelayStop ==
    /\ Mirrors /\ out.begun
    /\ IF transport = "messages" THEN out.reason = "stop" ELSE Complete
    /\ AnswerEnds(out)

-----------------------------------------------------------------------------
(* A Responses upstream for a Messages client: ResponsesProviderStream.    *)
(* Its function calls are numbered in the order in which they appear.      *)

Translates == ResponsesToMessages /\ Runs("read")

Translate(o) == Translates /\ Relay(o, 1)

TranslateText == Translate(EmitText(StartEvents(out)))
TranslateReasoning == Translate(EmitReasoning(StartEvents(out)))

\* an encrypted reasoning item becomes a block that is complete at once
TranslateHiddenReasoning ==
    LET o == StartBlock(CloseContentBlocks(StartEvents(out)), "thinking")
    IN  Translate(StopBlock(o, Len(o.blocks)))

EnsureStarted(o, i) ==
    LET p == EnsureTool(CloseContentBlocks(StartEvents(o)), i)
    IN  IF Tool(p, i).started THEN p ELSE StartTool(p, i)

MayCall(i) == i <= Len(out.tools) /\ (CallStarted(out, i) => Tool(out, i).open)

\* n = 0: an empty delta, which starts the call
TranslateCall(i, n) ==
    /\ Translates /\ MayCall(i)
    /\ CallStarted(out, i) => n > 0
    /\ LET o == EnsureStarted(out, i)
       IN  /\ Tool(o, i).args + n <= Whole
           /\ Translate(IF n = 0 THEN o ELSE EmitToolDelta(o, i, n))

\* the item is done; it brings the arguments if no delta did
TranslateCallDone(i) ==
    /\ Translates /\ MayCall(i)
    /\ LET o == EnsureStarted(out, i)
       IN  /\ Tool(o, i).args \in {0, Whole}
           /\ \E all \in BOOLEAN :
                /\ all => Tool(o, i).args = 0
                /\ Translate(StopTool(IF all THEN EmitToolDelta(o, i, Whole) ELSE o, i))

\* _finish: an answer without content gets a blank text
TranslateEnd ==
    /\ Translates
    /\ LET o == CloseAllBlocks(StartEvents(out))
       IN  AnswerEnds(IF o.blocks = <<>> THEN StopText(EmitText(o)) ELSE o)

-----------------------------------------------------------------------------
(* Failures of a native upstream.  Once something was sent nothing is      *)
(* repeated or recovered; before that every attempt starts from nothing.   *)

\* an attempt is repeated although its client saw some of it
MutRelayRetries ==
    /\ Native /\ Runs("cut")
    /\ CanAttempt
    /\ StartOver
    /\ UNCHANGED corrected

RelayRetries ==
    /\ Native /\ Runs("cut")
    /\ ~flushed /\ CanAttempt
    /\ StartOver
    /\ UNCHANGED corrected

\* credentials refreshed after a 401 or 403, and the reasoning request corrected
RelayCorrects == Native /\ CorrectRequest(2)

\* the Messages presenter of a Responses upstream closes its blocks and raises; a
\* Responses client gets response.failed as it is; a Messages relay just raises
RelayFailure ==
    \/ /\ api = "responses"
       /\ then' = "done"
       /\ Release(Say(Quiet(out), Event("error", 0, "", 0)))
    \/ /\ ResponsesToMessages
       /\ then' = "raised"
       /\ Release(CloseUnclosedBlocks(Quiet(out)))
    \/ /\ transport = "messages" /\ api = "messages"
       /\ then' = "raised"
       /\ UNCHANGED <<out, bufferVars, pending>>

RelayGivesUp ==
    /\ Native
    /\ Runs("broken") \/ (Runs("cut") /\ (flushed \/ ~CanAttempt))
    /\ pc' = "shut"
    /\ IF flushed THEN RelayFailure
       ELSE /\ then' = "raised"
            /\ held' = <<>>
            /\ UNCHANGED <<out, flushed, pending>>
    /\ UNCHANGED <<attemptVars, corrected, room, api>>

-----------------------------------------------------------------------------
(* The provider stream, whatever its transport.                            *)

BlockKinds == {"text", "thinking", "tool"}

NativeStep ==
    \/ OpenAttempt
    \/ Connected
    \/ ConnectRetries
    \/ ConnectFails
    \/ RelayBegin
    \/ \E kind \in BlockKinds : RelayOpen(kind)
    \/ \E b \in DOMAIN out.blocks, n \in 1..Whole : RelayDelta(b, n)
    \/ \E b \in DOMAIN out.blocks : RelayClose(b)
    \/ RelayNote
    \/ RelayReason
    \/ RelayStop
    \/ TranslateText
    \/ TranslateReasoning
    \/ TranslateHiddenReasoning
    \/ \E i \in ToolIndices, n \in 0..Whole : TranslateCall(i, n)
    \/ \E i \in ToolIndices : TranslateCallDone(i)
    \/ TranslateEnd
    \/ StreamIsCut
    \/ StreamFails
    \/ RelayCorrects

NativeWork == RelayRetries \/ RelayGivesUp

StreamStep == (IF Native THEN NativeStep ELSE UpstreamStep) /\ UNCHANGED transport
StreamWork == ((IF Native THEN NativeWork ELSE Work) \/ Shut) /\ UNCHANGED transport
=============================================================================
