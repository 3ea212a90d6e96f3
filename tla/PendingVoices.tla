---------------------------- MODULE PendingVoices ----------------------------
(***************************************************************************)
(* Voice notes between their arrival and the conversation trees:           *)
(* PendingVoiceRegistry (messaging/voice.py) and the flow that drives it   *)
(* for each delivery (messaging/platforms/voice_flow.py, VoiceNoteFlow).   *)
(*                                                                         *)
(* A note is reserved, gets a status message, is transcribed and handed to *)
(* messaging in a task of its own.  What was said may be a command, and a  *)
(* command cancels other notes and waits for their tasks: text commands    *)
(* and commands from within a handoff are operations.  An operation is a   *)
(* task that no cancellation of its caller stops (_finish_owned_operation),*)
(* and knows the claim of the handoff it was given in.                     *)
(*                                                                         *)
(* The lock of the registry is never held over an await: what happens under*)
(* it is one step.                                                         *)
(***************************************************************************)
EXTENDS Naturals, FiniteSets

CONSTANTS
    Voices,         \* voice messages
    Copies,         \* times the platform may deliver each of them
    Commands,       \* text commands that cancel voice notes
    NoFlow,
    MaxDeliveries   \* deliveries altogether (a bound)

ASSUME VoicesAssumption ==
    /\ Copies \in Nat /\ MaxDeliveries \in Nat
    /\ NoFlow \notin Voices \X (1..Copies)
    /\ Commands \cap (Voices \X (1..Copies)) = {}

\* One run of VoiceNoteFlow.handle, and the claim it reserves.
Flows == Voices \X (1..Copies)
Voice(f) == f[1]
Operations == Flows \cup Commands

VARIABLES
    flow,      \* where the run of handle stands
    bound,     \* flows whose status message was bound to their entry
    sent,      \* flows whose status message was delivered
    adrift,    \* flows that were cancelled while their status message was queued
    owner,     \* _pending under the voice message's id: the flow whose entry it is
    indexed,   \* _pending under a status message's id: the flows found there
    task,      \* handoff_task of the entry of a flow
    doomed,    \* flows whose handoff task got a cancel
    handed,    \* flows whose message reached the message handler (handed_off)
    outcome,   \* how the handoff task ended
    raised,    \* flows that were cancelled while they released their entry
    op,        \* the operations, and the flows each has taken out
    deleted    \* flows that deleted their status message

registry == <<owner, indexed>>
handoff == <<task, doomed, handed, outcome>>
vars == <<flow, bound, sent, adrift, registry, handoff, raised, op, deleted>>

NoOperation == [pc |-> "none", waits |-> {}]

Init ==
    /\ flow = [f \in Flows |-> "new"]
    /\ bound = {} /\ sent = {} /\ adrift = {}
    /\ owner = [v \in Voices |-> NoFlow] /\ indexed = {}
    /\ task = [f \in Flows |-> "none"]
    /\ doomed = {} /\ handed = {}
    /\ outcome = [f \in Flows |-> "none"]
    /\ raised = {}
    /\ op = [o \in Operations |-> NoOperation]
    /\ deleted = {}

\* _entry_for_claim
Owns(f) == owner[Voice(f)] = f

\* _remove, for the entries of F
Remove(F) ==
    /\ owner' = [v \in Voices |-> IF owner[v] \in F THEN NoFlow ELSE owner[v]]
    /\ indexed' = indexed \ F

TaskOver(f) == task[f] \in {"none", "ended"}
Goto(f, l) == flow' = [flow EXCEPT ![f] = l]

-----------------------------------------------------------------------------
(* The flow of one delivery. *)

Started == {f \in Flows : flow[f] # "new"}

\* reserve: a second delivery is ignored while the first is pending
Deliver(f) ==
    /\ flow[f] = "new" /\ Cardinality(Started) < MaxDeliveries
    /\ f[2] > 1 => flow[<<Voice(f), f[2] - 1>>] # "new"
    /\ \/ /\ owner[Voice(f)] = NoFlow
          /\ owner' = [owner EXCEPT ![Voice(f)] = f]
          /\ Goto(f, "sending")
       \/ /\ owner[Voice(f)] # NoFlow
          /\ Goto(f, "ended")
          /\ UNCHANGED owner
    /\ UNCHANGED <<bound, sent, adrift, indexed, handoff, raised, op, deleted>>

\* the status message was delivered, and bind_status
StatusArrives(f) ==
    /\ flow[f] = "sending"
    /\ sent' = sent \cup {f}
    /\ \/ /\ Owns(f)
          /\ bound' = bound \cup {f} /\ indexed' = indexed \cup {f}
          /\ Goto(f, "transcribing")
       \/ /\ ~Owns(f)
          /\ Goto(f, "cleaning")
          /\ UNCHANGED <<bound, indexed>>
    /\ UNCHANGED <<adrift, owner, handoff, raised, op, deleted>>

\* no status message, no audio, no transcription
FlowFails(f) ==
    /\ flow[f] \in {"sending", "transcribing"}
    /\ Goto(f, "cleaning")
    /\ UNCHANGED <<bound, sent, adrift, registry, handoff, raised, op, deleted>>

\* handoff creates the task, unless the entry is gone
HandOff(f) ==
    /\ flow[f] = "transcribing"
    /\ \/ Owns(f) /\ task' = [task EXCEPT ![f] = "created"] /\ Goto(f, "handing")
       \/ ~Owns(f) /\ Goto(f, "cleaning") /\ UNCHANGED task
    /\ UNCHANGED <<bound, sent, adrift, registry, doomed, handed, outcome, raised, op, deleted>>

\* the task is over, and the entry is about to be released
TaskEnded(f) ==
    /\ flow[f] = "handing" /\ TaskOver(f)
    /\ Goto(f, "releasing")
    /\ UNCHANGED <<bound, sent, adrift, registry, handoff, raised, op, deleted>>

\* The platform cancels the handler.  A send that it awaits stays in the queue of the
\* limiter without a waiter; a handoff is cancelled and drained first, and a release or a
\* cleanup that has begun is finished.
Interrupt(f) ==
    /\ \/ flow[f] = "sending" /\ Goto(f, "cleaning") /\ adrift' = adrift \cup {f}
          /\ UNCHANGED <<doomed, raised>>
       \/ flow[f] = "transcribing" /\ Goto(f, "cleaning") /\ UNCHANGED <<adrift, doomed, raised>>
       \/ flow[f] = "handing" /\ Goto(f, "draining") /\ doomed' = doomed \cup {f}
          /\ UNCHANGED <<adrift, raised>>
       \/ flow[f] = "releasing" /\ raised' = raised \cup {f} /\ UNCHANGED <<flow, adrift, doomed>>
    /\ UNCHANGED <<bound, sent, registry, task, handed, outcome, op, deleted>>

\* the worker of the limiter delivers a status message nobody waits for, at any time or,
\* when it is shut down first, never; its id is lost
StatusStrays(f) ==
    /\ f \in adrift \ sent
    /\ sent' = sent \cup {f}
    /\ UNCHANGED <<flow, bound, adrift, registry, handoff, raised, op, deleted>>

\* status_msg_id is known
KnowsStatus(f) == f \in sent \ adrift

TaskDrained(f) ==
    /\ flow[f] = "draining" /\ TaskOver(f)
    /\ Goto(f, "releasing")
    /\ raised' = raised \cup {f}
    /\ UNCHANGED <<bound, sent, adrift, registry, handoff, op, deleted>>

\* Mutant: the entry of the note is removed whoever it belongs to.
MutRelease(f) ==
    /\ flow[f] = "releasing"
    /\ Remove({owner[Voice(f)]})
    /\ Goto(f, IF f \in raised \/ (Owns(f) /\ outcome[f] # "completed") THEN "cleaning" ELSE "ended")
    /\ UNCHANGED <<bound, sent, adrift, handoff, raised, op, deleted>>

\* _complete_if_owned; an error of the handoff is raised when nobody cancelled it
Release(f) ==
    /\ flow[f] = "releasing"
    /\ Remove(IF Owns(f) THEN {f} ELSE {})
    /\ Goto(f, IF f \in raised \/ (Owns(f) /\ outcome[f] # "completed") THEN "cleaning" ELSE "ended")
    /\ UNCHANGED <<bound, sent, adrift, handoff, raised, op, deleted>>

\* Mutant: the status message is deleted also after a cancellation has taken it over.
MutClean(f) ==
    /\ flow[f] = "cleaning"
    /\ Remove(IF Owns(f) THEN {f} ELSE {})
    /\ deleted' = IF f \notin handed /\ KnowsStatus(f) THEN deleted \cup {f} ELSE deleted
    /\ Goto(f, "ended")
    /\ UNCHANGED <<bound, sent, adrift, handoff, raised, op>>

\* discard, and the status message goes if this flow still owned it
Clean(f) ==
    /\ flow[f] = "cleaning"
    /\ Remove(IF Owns(f) THEN {f} ELSE {})
    /\ deleted' = IF f \notin handed /\ KnowsStatus(f) /\ (Owns(f) \/ f \notin bound)
                  THEN deleted \cup {f} ELSE deleted
    /\ Goto(f, "ended")
    /\ UNCHANGED <<bound, sent, adrift, handoff, raised, op>>

-----------------------------------------------------------------------------
(* The handoff task. *)

\* a task that is cancelled before its first step never runs
TaskBegins(f) ==
    /\ task[f] = "created"
    /\ \/ /\ f \notin doomed
          /\ task' = [task EXCEPT ![f] = "running"]
          /\ handed' = handed \cup {f}
          /\ UNCHANGED outcome
       \/ /\ f \in doomed
          /\ task' = [task EXCEPT ![f] = "ended"]
          /\ outcome' = [outcome EXCEPT ![f] = "cancelled"]
          /\ UNCHANGED handed
    /\ UNCHANGED <<flow, bound, sent, adrift, registry, doomed, raised, op, deleted>>

Begin(o) == op' = [op EXCEPT ![o].pc = "created"]

\* the message is a command, and its operation is started
GivesCommand(f) ==
    /\ task[f] = "running" /\ f \notin doomed
    /\ task' = [task EXCEPT ![f] = "commanding"]
    /\ Begin(f)
    /\ UNCHANGED <<flow, bound, sent, adrift, registry, doomed, handed, outcome, raised, deleted>>

\* the turn was admitted or refused, or the command is done
TaskEnds(f) ==
    /\ task[f] = "running" \/ (task[f] = "commanding" /\ op[f].pc = "done")
    /\ task' = [task EXCEPT ![f] = "ended"]
    /\ \E how \in {"completed", "failed"} \cup (IF f \in doomed THEN {"cancelled"} ELSE {}) :
          outcome' = [outcome EXCEPT ![f] = how]
    /\ UNCHANGED <<flow, bound, sent, adrift, registry, doomed, handed, raised, op, deleted>>

-----------------------------------------------------------------------------
(* Operations: cancel, cancel_scope and cancel_all. *)

IssueCommand(c) ==
    /\ op[c].pc = "none"
    /\ Begin(c)
    /\ UNCHANGED <<flow, bound, sent, adrift, registry, handoff, raised, deleted>>

\* Mutant: only the note the operation was given in is spared.
MutExcluded(f, o) == f = o

\* _is_excluded: the note the operation was given in, and notes whose own operation runs
Excluded(f, o) == f = o \/ op[f].pc = "draining"

\* what an operation finds: every note, those of one voice message, the note a status
\* message belongs to, or nothing
Lookups ==
    {{}, {f \in Flows : Owns(f)}}
    \cup {{f \in Flows : Owns(f) /\ Voice(f) = v} : v \in Voices}
    \cup {{f} : f \in indexed}

\* the entries are taken out and their tasks cancelled
Capture(o) ==
    /\ op[o].pc = "created"
    /\ \E found \in Lookups :
          LET taken == {f \in found : ~Excluded(f, o)} IN
          /\ Remove(taken)
          /\ doomed' = doomed \cup {f \in taken : task[f] # "none"}
          /\ op' = [op EXCEPT ![o] = [pc |-> "draining", waits |-> taken]]
    /\ UNCHANGED <<flow, bound, sent, adrift, task, handed, outcome, raised, deleted>>

\* Mutant: the operation does not wait for the tasks it has cancelled.
MutReturns(o) ==
    /\ op[o].pc = "draining"
    /\ op' = [op EXCEPT ![o].pc = "done"]
    /\ UNCHANGED <<flow, bound, sent, adrift, registry, handoff, raised, deleted>>

\* every cancelled task is over
Returns(o) ==
    /\ op[o].pc = "draining" /\ \A f \in op[o].waits : TaskOver(f)
    /\ op' = [op EXCEPT ![o].pc = "done"]
    /\ UNCHANGED <<flow, bound, sent, adrift, registry, handoff, raised, deleted>>

-----------------------------------------------------------------------------
FlowStep(f) ==
    \/ StatusArrives(f) \/ FlowFails(f) \/ HandOff(f) \/ TaskEnded(f) \/ TaskDrained(f)
    \/ Release(f) \/ Clean(f)

TaskStep(f) == TaskBegins(f) \/ GivesCommand(f) \/ TaskEnds(f)

OperationStep(o) == Capture(o) \/ Returns(o)

Next ==
    \/ \E f \in Flows : Deliver(f) \/ FlowStep(f) \/ Interrupt(f) \/ StatusStrays(f) \/ TaskStep(f)
    \/ \E c \in Commands : IssueCommand(c)
    \/ \E o \in Operations : OperationStep(o)

Spec == Init /\ [][Next]_vars

\* Sends, downloads, transcriptions and message handlers end one way or another, and the
\* event loop runs every task; nothing is delivered, commanded or interrupted by itself, and
\* no message that went adrift need arrive.
Fairness ==
    /\ \A f \in Flows : WF_vars(FlowStep(f)) /\ WF_vars(TaskStep(f))
    /\ \A o \in Operations : WF_vars(OperationStep(o))

FairSpec == Spec /\ Fairness

-----------------------------------------------------------------------------
\* The note is in the result of an operation, and its status message if it had one.
Taken(f) == \E o \in Operations : f \in op[o].waits
Reported(f) == \E o \in Operations : f \in op[o].waits /\ op[o].pc = "done"

\* Once a command has reported a note as cancelled, the note's task is over for good: it
\* cannot start a turn or a command behind the back of the command that stopped it; and
\* no flow ends and leaves its task behind.
CancelledStaysSilent ==
    \A f \in Flows : Reported(f) \/ flow[f] = "ended" => TaskOver(f)

\* The entry of a note leaves the registry because its own flow releases it or because an
\* operation takes it, never by the hand of another delivery of the same message; and
\* under both keys at once.
EntriesAreTheirOwn ==
    [][\A f \in Flows : Owns(f) /\ ~Owns(f)' =>
          /\ f \notin indexed'
          /\ flow'[f] # flow[f] \/ \E o \in Operations : f \in op'[o].waits /\ f \notin op[o].waits]_vars

\* Exactly one party takes care of a delivered status message whose note never reached
\* messaging: its flow deletes it, or the command that took the note with its status
\* does.  Nobody does in two windows of the code, both of them cancellations of the
\* handler: while its status send waits in the limiter's queue, which delivers the message
\* all the same, with an id nobody learns; and between the creation of the handoff and its
\* first step, where the flow releases the entry itself and leaves the message as it is.
StatusHasOneOwner ==
    \A f \in Flows : flow[f] = "ended" /\ f \in sent /\ f \notin handed =>
        \/ (f \in deleted) # (f \in bound /\ Taken(f))
        \/ f \in adrift /\ f \notin bound /\ f \notin deleted
        \/ f \in raised /\ ~Taken(f) /\ f \notin deleted

\* Commands given inside handoffs cancel and await other handoffs; none of them waits for
\* ever: every flow and every operation comes to its end.
VoicesSettle ==
    /\ \A f \in Flows : (flow[f] # "new") ~> (flow[f] = "ended")
    /\ \A o \in Operations : (op[o].pc # "none") ~> (op[o].pc = "done")
=============================================================================
