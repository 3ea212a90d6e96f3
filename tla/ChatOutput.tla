----------------------------- MODULE ChatOutput -----------------------------
(***************************************************************************)
(* One output epoch of a chat attempt: ChatStreamOutput and its two wire   *)
(* writers (providers/openai_chat/stream_output.py), the assembly of tool  *)
(* calls (tool_calls.py) and the Anthropic block ledger                    *)
(* (core/anthropic/streaming/ledger.py).  An epoch is a record, and each   *)
(* method of the code is an operator from epochs to epochs that appends to *)
(* "new" the client events the method emits.                               *)
(*                                                                         *)
(* Content is measured, not spelled: a text delta has size 1, a tool's     *)
(* JSON arguments are complete when their fragments add up to Whole, and   *)
(* complete arguments are taken to satisfy the tool's schema.  Tool names  *)
(* need no alias, and the tools are function tools: a custom tool of the   *)
(* Responses API takes any arguments.                                      *)
(***************************************************************************)
EXTENDS Naturals, Sequences

CONSTANT TaskTools   \* indices of the calls of the tool named Task, whose
                     \* arguments are buffered until they are complete

Whole == 2

Event(e, b, kind, n) == [e |-> e, blk |-> b, kind |-> kind, size |-> n]

\* begun: start_events() were produced; reason: the finish reason seen, "", "stop" or
\* "context"; text, think: the open text and reasoning block, 0 for none; texts,
\* thoughts: the size of the accumulated content; reasoned: native reasoning was seen;
\* invalid: a Responses call with malformed arguments set the provisional error
NewOutput(api) ==
    [api |-> api, begun |-> FALSE, reason |-> "", text |-> 0, think |-> 0,
     texts |-> 0, thoughts |-> 0, reasoned |-> FALSE, tools |-> <<>>, blocks |-> <<>>,
     invalid |-> FALSE, terminal |-> FALSE, new |-> <<>>]

Say(o, event) == [o EXCEPT !.new = Append(@, event)]

StartBlock(o, kind) ==
    Say([o EXCEPT !.blocks = Append(@, [kind |-> kind, open |-> TRUE, size |-> 0])],
        Event("open", Len(o.blocks) + 1, kind, 0))

Delta(o, b, n) ==
    Say([o EXCEPT !.blocks[b].size = @ + n], Event("delta", b, o.blocks[b].kind, n))

\* the Responses item of a call is sent whole, and only if its arguments parse
StopBlock(o, b) ==
    LET size == o.blocks[b].size
        kind == o.blocks[b].kind
    IN  IF o.api = "responses" /\ kind = "tool" /\ size \notin {0, Whole}
        THEN [o EXCEPT !.invalid = TRUE]
        ELSE Say([o EXCEPT !.blocks[b].open = FALSE], Event("close", b, kind, size))

-----------------------------------------------------------------------------
(* Text and reasoning blocks exclude each other. *)

StopText(o) == IF o.text = 0 THEN o ELSE [StopBlock(o, o.text) EXCEPT !.text = 0]
StopThink(o) == IF o.think = 0 THEN o ELSE [StopBlock(o, o.think) EXCEPT !.think = 0]

CloseContentBlocks(o) == StopText(StopThink(o))

EnsureText(o) ==
    LET p == StopThink(o)
    IN  IF p.text # 0 THEN p ELSE [StartBlock(p, "text") EXCEPT !.text = Len(p.blocks) + 1]

EnsureReasoning(o) ==
    LET p == StopText(o)
    IN  IF p.think # 0 THEN p
        ELSE [StartBlock(p, "thinking") EXCEPT !.think = Len(p.blocks) + 1]

EmitText(o) ==
    LET p == EnsureText(o) IN [Delta(p, p.text, 1) EXCEPT !.texts = @ + 1]

EmitReasoning(o) ==
    LET p == EnsureReasoning(o) IN [Delta(p, p.think, 1) EXCEPT !.thoughts = @ + 1]

StartEvents(o) == IF o.begun THEN o ELSE Say([o EXCEPT !.begun = TRUE], Event("begin", 0, "", 0))

\* a reasoning field of the upstream: an empty one counts if it is the first
NativeReasoning(o, n) ==
    LET p == [o EXCEPT !.reasoned = TRUE]
    IN  IF n > 0 THEN EmitReasoning(p)
        ELSE IF o.reasoned THEN o ELSE EnsureReasoning(p)

-----------------------------------------------------------------------------
(* Tool calls, kept in the order in which their indices were first seen. *)

NewTool(i) == [idx |-> i, named |-> FALSE, started |-> FALSE, open |-> FALSE, blk |-> 0,
               args |-> 0, task |-> 0, taskSent |-> FALSE, early |-> 0]

Positions(o, i) == {p \in DOMAIN o.tools : o.tools[p].idx = i}
Position(o, i) == CHOOSE p \in Positions(o, i) : TRUE
Tool(o, i) == o.tools[Position(o, i)]

EnsureTool(o, i) ==
    IF Positions(o, i) # {} THEN o ELSE [o EXCEPT !.tools = Append(@, NewTool(i))]

StartTool(o, i) ==
    LET p == Position(o, i)
    IN  StartBlock([o EXCEPT !.tools[p] = [@ EXCEPT !.started = TRUE, !.open = TRUE, !.named = TRUE,
                                                    !.blk = Len(o.blocks) + 1]],
                   "tool")

\* an argument fragment of a started call; the Responses writer yields an empty chunk
EmitToolDelta(o, i, n) ==
    LET p == Position(o, i)
        b == o.tools[p].blk
        q == [o EXCEPT !.tools[p].args = @ + n]
    IN  IF o.api = "messages" THEN Delta(q, b, n)
        ELSE Say([q EXCEPT !.blocks[b].size = @ + n], Event("", b, "tool", 0))

StopTool(o, i) ==
    LET p == Position(o, i)
    IN  IF o.tools[p].open THEN StopBlock([o EXCEPT !.tools[p].open = FALSE], o.tools[p].blk)
        ELSE o

\* Task arguments wait until they parse; whatever follows them is dropped
BufferTaskArgs(o, i, n) ==
    LET p == Position(o, i)
        held == o.tools[p].task + n
    IN  IF o.tools[p].taskSent THEN o
        ELSE IF held # Whole THEN [o EXCEPT !.tools[p].task = held]
        ELSE EmitToolDelta([o EXCEPT !.tools[p] = [@ EXCEPT !.task = 0, !.taskSent = TRUE]], i, Whole)

EmitArgs(o, i, n) ==
    IF n = 0 THEN o
    ELSE IF i \in TaskTools THEN BufferTaskArgs(o, i, n)
    ELSE EmitToolDelta(o, i, n)

\* process_tool_call: a delta of call i that may bring its name and n pieces of
\* its arguments; arguments that arrive before the name are kept for it
ProcessToolCall(o, i, named, n) ==
    LET p == EnsureTool(o, i)
        at == Position(p, i)
        starts == named /\ ~p.tools[at].started
        early == p.tools[at].early
        q == IF starts THEN EmitArgs(StartTool([p EXCEPT !.tools[at].early = 0], i), i, early)
             ELSE p
    IN  IF q.tools[at].started THEN EmitArgs(q, i, n)
        ELSE [q EXCEPT !.tools[at].early = @ + n]

\* iter_heuristic_tool_use_events: a complete call found in the visible text
HeuristicToolUse(o) ==
    LET p == CloseContentBlocks(o)
        i == Len(p.tools)
    IN  StopTool(EmitToolDelta(StartTool(EnsureTool(p, i), i), i, Whole), i)

StartedTools(o) == {p \in DOMAIN o.tools : o.tools[p].started}
HasTool(o) == StartedTools(o) # {}

CallStarted(o, i) == \E p \in StartedTools(o) : o.tools[p].idx = i

\* a written call is stopped at once, a native one at the end of the epoch
WritesCalls(o) == \E p \in StartedTools(o) : ~o.tools[p].open
MakesCalls(o) == \E p \in DOMAIN o.tools : o.tools[p].open \/ ~o.tools[p].started

\* can_salvage_tool_use: every call sent has complete arguments
MutCanSalvage(o) == HasTool(o) /\ \E p \in StartedTools(o) : o.tools[p].args = Whole

CanSalvage(o) == HasTool(o) /\ \A p \in StartedTools(o) : o.tools[p].args = Whole

-----------------------------------------------------------------------------
(* The end of an epoch. *)

\* the calls are stopped in the order of their first appearance
CloseAllBlocks(o) ==
    LET closed[p \in 0..Len(o.tools)] ==
            IF p = 0 THEN CloseContentBlocks(o) ELSE StopTool(closed[p - 1], o.tools[p].idx)
    IN  closed[Len(o.tools)]

\* close_unclosed_blocks of the Responses writer for both
MutCloseUnclosedBlocks(o) == IF o.api = "responses" THEN CloseAllBlocks(o) ELSE CloseContentBlocks(o)

StopOpenBlock(o, b) == IF o.blocks[b].open THEN StopBlock(o, b) ELSE o

\* the Anthropic ledger unwinds its stack of open blocks, newest first
UnwindBlocks(o) ==
    LET top == Len(o.blocks)
        unwound[n \in 0..top] ==
            IF n = 0 THEN o ELSE StopOpenBlock(unwound[n - 1], top + 1 - n)
    IN  unwound[top]

CloseUnclosedBlocks(o) ==
    IF o.api = "responses" THEN CloseAllBlocks(o)
    ELSE [UnwindBlocks(o) EXCEPT !.text = 0, !.think = 0,
                                 !.tools = [p \in DOMAIN @ |-> [@[p] EXCEPT !.open = FALSE]]]

FlushTask(o, i) ==
    LET p == Position(o, i)
    IN  IF o.tools[p].task = 0 THEN o
        ELSE EmitToolDelta([o EXCEPT !.tools[p] = [@ EXCEPT !.task = 0, !.taskSent = TRUE]], i, Whole)

\* incomplete Task arguments are replaced by "{}"
FlushTaskArgs(o) ==
    LET sent[p \in 0..Len(o.tools)] ==
            IF p = 0 THEN o ELSE FlushTask(sent[p - 1], o.tools[p].idx)
    IN  sent[Len(o.tools)]

MutFinishSuccess(o) ==
    IF o.terminal THEN o
    ELSE [Say(o, Event("stop", 0, "", 0)) EXCEPT !.terminal = TRUE]

FinishSuccess(o) ==
    IF o.terminal THEN o
    ELSE LET p == CloseAllBlocks(o)
         IN  [Say(p, Event(IF p.invalid THEN "error" ELSE "stop", 0, "", 0))
                EXCEPT !.terminal = TRUE]

FinishFailure(o) ==
    IF o.terminal THEN o
    ELSE [Say(CloseUnclosedBlocks(o), Event("error", 0, "", 0)) EXCEPT !.terminal = TRUE]

\* prepare_completion: an answer without visible content gets a blank text
PrepareCompletion(o) ==
    LET silent == o.blocks = <<>> \/ (~HasTool(o) /\ o.texts = 0 /\ o.thoughts > 0)
        p == IF silent THEN EmitText(o) ELSE o
    IN  CloseAllBlocks(FlushTaskArgs(p))
=============================================================================
