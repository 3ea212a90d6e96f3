--------------------------- MODULE StreamContract ---------------------------
(***************************************************************************)
(* The abstract specification of one client stream, as the repository      *)
(* states it for Anthropic streams in core/anthropic/stream_contracts.py   *)
(* (assert_anthropic_stream_contract) and as the Responses writer follows  *)
(* it item by item: a stream begins, content blocks are started, grow and  *)
(* are stopped under indices that are never reused, and one terminal event *)
(* ends it, in an error too only when every block is closed.  The requests *)
(* of RequestExecution follow it, but for the errors named there (CutOff). *)
(***************************************************************************)
EXTENDS Naturals

CONSTANTS Blocks,   \* block indices
          Kinds     \* content block types

VARIABLES begun,    \* message_start (response.created) was sent
          blocks,   \* the blocks started so far: kind, open, size of the content
          end       \* the terminal event: "" (none), "stop" or "error"

vars == <<begun, blocks, end>>

Started == DOMAIN blocks
OpenBlocks == {b \in Started : blocks[b].open}

Init ==
    /\ begun = FALSE
    /\ blocks = [b \in {} |-> FALSE]
    /\ end = ""

Live == begun /\ end = ""

Begin ==
    /\ ~begun /\ end = ""
    /\ begun' = TRUE
    /\ UNCHANGED <<blocks, end>>

\* "block {index} started twice", "block {index} reused after stop"
StartBlock(b, kind) ==
    /\ Live
    /\ b \in Blocks \ Started
    /\ blocks' = [c \in Started \cup {b} |->
                    IF c = b THEN [kind |-> kind, open |-> TRUE, size |-> 0] ELSE blocks[c]]
    /\ UNCHANGED <<begun, end>>

\* "delta for unopened block {index}"
Grow(b) ==
    /\ Live
    /\ b \in OpenBlocks
    /\ blocks' = [blocks EXCEPT ![b].size = blocks'[b].size]
    /\ blocks'[b].size \in Nat /\ blocks'[b].size > blocks[b].size
    /\ UNCHANGED <<begun, end>>

\* "stop for unopened block {index}"; a Responses item carries its content when done
StopBlock(b) ==
    /\ Live
    /\ b \in OpenBlocks
    /\ blocks' = [blocks EXCEPT ![b].open = FALSE, ![b].size = blocks'[b].size]
    /\ blocks'[b].size \in Nat
    /\ UNCHANGED <<begun, end>>

\* "unclosed blocks", "stream did not emit any content blocks": asked of every stream,
\* the ones that are allowed to end in an error included
Complete == OpenBlocks = {} /\ Started # {}

Stop ==
    /\ Live
    /\ Complete
    /\ end' = "stop"
    /\ UNCHANGED <<begun, blocks>>

\* allow_error
Fail ==
    /\ Live
    /\ Complete
    /\ end' = "error"
    /\ UNCHANGED <<begun, blocks>>

Next ==
    \/ Begin
    \/ \E b \in DOMAIN blocks', kind \in Kinds : StartBlock(b, kind)
    \/ \E b \in Started : Grow(b) \/ StopBlock(b)
    \/ Stop
    \/ Fail

Spec == Init /\ [][Next]_vars

-----------------------------------------------------------------------------
(***************************************************************************)
(* Promises of the contract that a client relies on.                       *)
(***************************************************************************)

\* A stream that ended normally has no block left open and has some content
\* (the last two assertions of assert_anthropic_stream_contract).  The contract asks the
\* same of an error; the requests that cannot give it are CutOff of RequestExecution.
NormalEndIsComplete == end = "stop" => Complete

\* A block that was stopped is never started, extended or reopened again, and
\* nothing at all follows the terminal event.
WhatIsClosedStays ==
    [][/\ \A b \in Started \ OpenBlocks : b \in DOMAIN blocks' /\ blocks'[b] = blocks[b]
       /\ end # "" => UNCHANGED vars]_vars
=============================================================================
