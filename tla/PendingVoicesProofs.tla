------------------------ MODULE PendingVoicesProofs ------------------------
(***************************************************************************)
(* PendingVoices for every set of voice messages, number of copies and set *)
(* of commands.                                                            *)
(*                                                                         *)
(* Silence and the ownership of the status message rest on one fact: an    *)
(* entry that has left the registry before its own flow released it is in  *)
(* the result of an operation, and no entry ever comes back (VoicesInv).   *)
(***************************************************************************)
EXTENDS PendingVoices, TLAPS

Waiting == {"new", "sending", "transcribing"}     \* no handoff yet
Handing == {"handing", "draining", "releasing"}   \* with a handoff, entry not released
Over == {"cleaning", "ended"}

Shape ==
    /\ flow \in [Flows -> Waiting \cup Handing \cup Over]
    /\ bound \subseteq Flows /\ sent \subseteq Flows /\ adrift \subseteq Flows
    /\ doomed \subseteq Flows
    /\ handed \subseteq Flows /\ raised \subseteq Flows /\ deleted \subseteq Flows
    /\ owner \in [Voices -> Flows \cup {NoFlow}]
    /\ task \in [Flows -> {"none", "created", "running", "commanding", "ended"}]
    /\ outcome \in [Flows -> {"none", "completed", "failed", "cancelled"}]
    /\ op \in [Operations -> [pc : {"none", "created", "draining", "done"}, waits : SUBSET Flows]]

\* An entry is found under its status message only while it is there under its voice
\* message, its flow runs, and nobody has taken it.
EntriesAreLive ==
    /\ \A f \in indexed : f \in Flows /\ Owns(f)
    /\ \A f \in Flows : Owns(f) => flow[f] \notin {"new", "ended"} /\ ~Taken(f)
    /\ \A f \in Flows : flow[f] = "new" => ~Taken(f)

\* A flow has a handoff task from the handoff on, and releases nothing before it is over.
TasksFollowFlows ==
    \A f \in Flows :
        /\ flow[f] \in Waiting => task[f] = "none"
        /\ flow[f] \in Handing => task[f] # "none" /\ f \in bound
        /\ flow[f] \in {"releasing"} \cup Over => TaskOver(f)

\* A task that ended without having run was cancelled before its first step.
OutcomesFollowTasks ==
    \A f \in Flows :
        /\ f \in handed => task[f] \in {"running", "commanding", "ended"}
        /\ task[f] \in {"running", "commanding"} => f \in handed
        /\ task[f] = "ended" => f \in handed \/ (f \in doomed /\ outcome[f] = "cancelled")

\* An operation takes notes once, and the one of a handoff starts while its task runs.
OperationsStartEmpty ==
    /\ \A o \in Operations : op[o].pc \in {"none", "created"} => op[o].waits = {}
    /\ \A f \in Flows : task[f] \in {"none", "created", "running"} => op[f].pc = "none"

\* What was reported as cancelled is over.
ReportsAreTrue == \A f \in Flows : Reported(f) => TaskOver(f)

\* Who cancelled, and who removed the entry before the flow came to its cleanup.
CancelsHaveOwners ==
    \A f \in Flows :
        /\ f \in doomed => Taken(f) \/ flow[f] = "draining" \/ f \in raised
        /\ f \in raised => flow[f] \in {"releasing"} \cup Over
        /\ flow[f] \in {"sending", "transcribing"} \cup Handing => Owns(f) \/ Taken(f)
        /\ flow[f] = "cleaning" /\ f \in bound /\ f \notin handed /\ ~Owns(f) =>
             Taken(f) \/ f \in raised

\* What was sent and deleted, by where the flow stands.
StatusesFollowFlows ==
    \A f \in Flows :
        /\ f \in bound => f \in sent
        /\ flow[f] \in {"new", "sending"} => f \notin sent
        /\ flow[f] = "transcribing" => f \in bound
        /\ f \in deleted => flow[f] = "ended"
        /\ f \in adrift => flow[f] \in Over /\ f \notin bound /\ f \notin deleted

VoicesInv ==
    /\ Shape /\ EntriesAreLive /\ TasksFollowFlows /\ OutcomesFollowTasks
    /\ OperationsStartEmpty /\ ReportsAreTrue
    /\ CancelsHaveOwners /\ StatusesFollowFlows /\ StatusHasOneOwner

USE VoicesAssumption

LEMMA FlowFacts ==
    ASSUME NEW f \in Flows
    PROVE  Voice(f) \in Voices /\ f # NoFlow /\ f \in Operations
BY DEF Flows, Voice, Operations

LEMMA InitKeepsVoices == Init => VoicesInv
<1> SUFFICES ASSUME Init PROVE VoicesInv
  OBVIOUS
<1> USE FlowFacts DEF Init, NoOperation, Waiting, Handing, Over, Owns, Taken, Reported, TaskOver
<1>1. Shape
  BY DEF Shape
<1>2. EntriesAreLive /\ OperationsStartEmpty /\ ReportsAreTrue
  BY DEF EntriesAreLive, OperationsStartEmpty, ReportsAreTrue
<1>3. TasksFollowFlows /\ OutcomesFollowTasks /\ CancelsHaveOwners /\ StatusesFollowFlows
  BY DEF TasksFollowFlows, OutcomesFollowTasks, CancelsHaveOwners, StatusesFollowFlows
<1>4. StatusHasOneOwner
  BY DEF StatusHasOneOwner
<1> QED BY <1>1, <1>2, <1>3, <1>4 DEF VoicesInv

\* A flow that is refused ends with no entry, no status message and no task.
LEMMA DeliverStep ==
    ASSUME NEW g \in Flows, VoicesInv, Deliver(g)
    PROVE  VoicesInv'
<1> USE FlowFacts DEF VoicesInv, Deliver, Goto, registry, handoff, Waiting, Handing, Over
<1>1. Shape'
  <2>1. \E l \in Waiting \cup Handing \cup Over : Goto(g, l) \/ UNCHANGED flow
    OBVIOUS
  <2>2. flow' \in [Flows -> Waiting \cup Handing \cup Over]
    BY <2>1 DEF Shape
  <2> QED BY <2>2 DEF Shape
<1>2. EntriesAreLive'
  <2>1. \A f \in Flows : /\ Taken(f)' <=> Taken(f)
                         /\ Owns(f) => Owns(f)'
                         /\ f # g /\ Owns(f)' => Owns(f)
    BY DEF Shape, Owns, Taken
  <2>2. /\ \A f \in Flows \ {g} : flow'[f] = flow[f]
        /\ flow'[g] \in {"sending", "ended"}
        /\ flow'[g] = "ended" => UNCHANGED owner
    BY DEF Shape
  <2>3. Owns(g)' => flow'[g] = "sending"
    BY <2>2 DEF EntriesAreLive, Owns
  <2>4. EntriesAreLive /\ flow[g] = "new" /\ UNCHANGED indexed
    OBVIOUS
  <2> HIDE DEF VoicesInv, Deliver
  <2> QED BY <2>1, <2>2, <2>3, <2>4 DEF EntriesAreLive
<1>3. TasksFollowFlows'
  BY DEF Shape, TasksFollowFlows, StatusesFollowFlows, TaskOver
<1>4. OutcomesFollowTasks'
  BY DEF Shape, TasksFollowFlows, OutcomesFollowTasks
<1>5. OperationsStartEmpty'
  BY DEF Shape, TasksFollowFlows, OperationsStartEmpty
<1>6. ReportsAreTrue'
  BY DEF Shape, EntriesAreLive, TasksFollowFlows, ReportsAreTrue, Reported, Taken, TaskOver
<1>7. CancelsHaveOwners'
  BY DEF Shape, EntriesAreLive, TasksFollowFlows, OutcomesFollowTasks,
         CancelsHaveOwners, StatusesFollowFlows, Owns, Taken, TaskOver
<1>8. StatusesFollowFlows'
  BY DEF Shape, StatusesFollowFlows
<1>9. StatusHasOneOwner'
  BY DEF Shape, EntriesAreLive, TasksFollowFlows, OutcomesFollowTasks, CancelsHaveOwners,
         StatusesFollowFlows, StatusHasOneOwner, Owns, Taken, TaskOver
<1> QED BY <1>1, <1>2, <1>3, <1>4, <1>5, <1>6, <1>7, <1>8, <1>9

\* The entry is indexed while it is the flow's own; otherwise the operation that took it
\* did so before it had a status message.
LEMMA StatusArrivesStep ==
    ASSUME NEW g \in Flows, VoicesInv, StatusArrives(g)
    PROVE  VoicesInv'
<1> USE FlowFacts DEF VoicesInv, StatusArrives, Goto, registry, handoff, Waiting, Handing, Over
<1>1. Shape'
  <2>1. \E l \in Waiting \cup Handing \cup Over : Goto(g, l) \/ UNCHANGED flow
    OBVIOUS
  <2>2. flow' \in [Flows -> Waiting \cup Handing \cup Over]
    BY <2>1 DEF Shape
  <2> QED BY <2>2 DEF Shape, Owns
<1>2. EntriesAreLive'
  BY DEF Shape, EntriesAreLive, Owns, Taken
<1>3. TasksFollowFlows'
  BY DEF Shape, TasksFollowFlows, StatusesFollowFlows, TaskOver
<1>4. OutcomesFollowTasks'
  BY DEF Shape, TasksFollowFlows, OutcomesFollowTasks
<1>5. OperationsStartEmpty'
  BY DEF Shape, TasksFollowFlows, OperationsStartEmpty
<1>6. ReportsAreTrue'
  BY DEF Shape, EntriesAreLive, TasksFollowFlows, ReportsAreTrue, Reported, Taken, TaskOver
<1>7. CancelsHaveOwners'
  BY DEF Shape, EntriesAreLive, TasksFollowFlows, OutcomesFollowTasks,
         CancelsHaveOwners, StatusesFollowFlows, Owns, Taken, TaskOver
<1>8. StatusesFollowFlows'
  BY DEF Shape, StatusesFollowFlows
<1>9. StatusHasOneOwner'
  BY DEF Shape, EntriesAreLive, TasksFollowFlows, OutcomesFollowTasks, CancelsHaveOwners,
         StatusesFollowFlows, StatusHasOneOwner, Owns, Taken, TaskOver
<1> QED BY <1>1, <1>2, <1>3, <1>4, <1>5, <1>6, <1>7, <1>8, <1>9

LEMMA FlowFailsStep ==
    ASSUME NEW g \in Flows, VoicesInv, FlowFails(g)
    PROVE  VoicesInv'
<1> USE FlowFacts DEF VoicesInv, FlowFails, Goto, registry, handoff, Waiting, Handing, Over
<1>1. Shape'
  BY DEF Shape
<1>2. EntriesAreLive'
  BY DEF Shape, EntriesAreLive, Owns, Taken
<1>3. TasksFollowFlows'
  BY DEF Shape, TasksFollowFlows, StatusesFollowFlows, TaskOver
<1>4. OutcomesFollowTasks'
  BY DEF Shape, TasksFollowFlows, OutcomesFollowTasks
<1>5. OperationsStartEmpty'
  BY DEF Shape, TasksFollowFlows, OperationsStartEmpty
<1>6. ReportsAreTrue'
  BY DEF Shape, EntriesAreLive, TasksFollowFlows, ReportsAreTrue, Reported, Taken, TaskOver
<1>7. CancelsHaveOwners'
  BY DEF Shape, EntriesAreLive, TasksFollowFlows, OutcomesFollowTasks,
         CancelsHaveOwners, StatusesFollowFlows, Owns, Taken, TaskOver
<1>8. StatusesFollowFlows'
  BY DEF Shape, StatusesFollowFlows
<1>9. StatusHasOneOwner'
  BY DEF Shape, EntriesAreLive, TasksFollowFlows, OutcomesFollowTasks, CancelsHaveOwners,
         StatusesFollowFlows, StatusHasOneOwner, Owns, Taken, TaskOver
<1> QED BY <1>1, <1>2, <1>3, <1>4, <1>5, <1>6, <1>7, <1>8, <1>9

LEMMA HandOffStep ==
    ASSUME NEW g \in Flows, VoicesInv, HandOff(g)
    PROVE  VoicesInv'
<1> USE FlowFacts DEF VoicesInv, HandOff, Goto, registry, handoff, Waiting, Handing, Over
<1>1. Shape'
  <2>1. \E l \in Waiting \cup Handing \cup Over : Goto(g, l) \/ UNCHANGED flow
    OBVIOUS
  <2>2. flow' \in [Flows -> Waiting \cup Handing \cup Over]
    BY <2>1 DEF Shape
  <2> QED BY <2>2 DEF Shape
<1>2. EntriesAreLive'
  BY DEF Shape, EntriesAreLive, Owns, Taken
<1>3. TasksFollowFlows'
  BY DEF Shape, TasksFollowFlows, StatusesFollowFlows, TaskOver
<1>4. OutcomesFollowTasks'
  BY DEF Shape, TasksFollowFlows, OutcomesFollowTasks
<1>5. OperationsStartEmpty'
  BY DEF Shape, TasksFollowFlows, OperationsStartEmpty
<1>6. ReportsAreTrue'
  <2>1. g \notin {f \in Flows : Reported(f)} \/ UNCHANGED task
    BY DEF EntriesAreLive, Reported, Taken
  <2>2. \A f \in Flows \ {g} : task'[f] = task[f]
    BY DEF Shape
  <2> QED BY <2>1, <2>2 DEF ReportsAreTrue, Reported, TaskOver
<1>7. CancelsHaveOwners'
  BY DEF Shape, EntriesAreLive, TasksFollowFlows, OutcomesFollowTasks,
         CancelsHaveOwners, StatusesFollowFlows, Owns, Taken, TaskOver
<1>8. StatusesFollowFlows'
  BY DEF Shape, StatusesFollowFlows
<1>9. StatusHasOneOwner'
  BY DEF Shape, EntriesAreLive, TasksFollowFlows, OutcomesFollowTasks, CancelsHaveOwners,
         StatusesFollowFlows, StatusHasOneOwner, Owns, Taken, TaskOver
<1> QED BY <1>1, <1>2, <1>3, <1>4, <1>5, <1>6, <1>7, <1>8, <1>9

LEMMA TaskEndedStep ==
    ASSUME NEW g \in Flows, VoicesInv, TaskEnded(g)
    PROVE  VoicesInv'
<1> USE FlowFacts DEF VoicesInv, TaskEnded, Goto, registry, handoff, Waiting, Handing, Over
<1>1. Shape'
  BY DEF Shape
<1>2. EntriesAreLive'
  BY DEF Shape, EntriesAreLive, Owns, Taken
<1>3. TasksFollowFlows'
  BY DEF Shape, TasksFollowFlows, StatusesFollowFlows, TaskOver
<1>4. OutcomesFollowTasks'
  BY DEF Shape, TasksFollowFlows, OutcomesFollowTasks
<1>5. OperationsStartEmpty'
  BY DEF Shape, TasksFollowFlows, OperationsStartEmpty
<1>6. ReportsAreTrue'
  BY DEF Shape, EntriesAreLive, TasksFollowFlows, ReportsAreTrue, Reported, Taken, TaskOver
<1>7. CancelsHaveOwners'
  BY DEF Shape, EntriesAreLive, TasksFollowFlows, OutcomesFollowTasks,
         CancelsHaveOwners, StatusesFollowFlows, Owns, Taken, TaskOver
<1>8. StatusesFollowFlows'
  BY DEF Shape, StatusesFollowFlows
<1>9. StatusHasOneOwner'
  BY DEF Shape, EntriesAreLive, TasksFollowFlows, OutcomesFollowTasks, CancelsHaveOwners,
         StatusesFollowFlows, StatusHasOneOwner, Owns, Taken, TaskOver
<1> QED BY <1>1, <1>2, <1>3, <1>4, <1>5, <1>6, <1>7, <1>8, <1>9

\* The cancel of a handoff belongs to the flow until it is drained.
LEMMA InterruptStep ==
    ASSUME NEW g \in Flows, VoicesInv, Interrupt(g)
    PROVE  VoicesInv'
<1> USE FlowFacts DEF VoicesInv, Interrupt, Goto, registry, handoff, Waiting, Handing, Over
<1>1. Shape'
  <2>1. \E l \in Waiting \cup Handing \cup Over : Goto(g, l) \/ UNCHANGED flow
    OBVIOUS
  <2>2. flow' \in [Flows -> Waiting \cup Handing \cup Over]
    BY <2>1 DEF Shape
  <2> QED BY <2>2 DEF Shape
<1>2. EntriesAreLive'
  BY DEF Shape, EntriesAreLive, Owns, Taken
<1>3. TasksFollowFlows'
  BY DEF Shape, TasksFollowFlows, StatusesFollowFlows, TaskOver
<1>4. OutcomesFollowTasks'
  BY DEF Shape, TasksFollowFlows, OutcomesFollowTasks
<1>5. OperationsStartEmpty'
  BY DEF Shape, TasksFollowFlows, OperationsStartEmpty
<1>6. ReportsAreTrue'
  BY DEF Shape, EntriesAreLive, TasksFollowFlows, ReportsAreTrue, Reported, Taken, TaskOver
<1>7. CancelsHaveOwners'
  BY DEF Shape, EntriesAreLive, TasksFollowFlows, OutcomesFollowTasks,
         CancelsHaveOwners, StatusesFollowFlows, Owns, Taken, TaskOver
<1>8. StatusesFollowFlows'
  BY DEF Shape, StatusesFollowFlows
<1>9. StatusHasOneOwner'
  BY DEF Shape, EntriesAreLive, TasksFollowFlows, OutcomesFollowTasks, CancelsHaveOwners,
         StatusesFollowFlows, StatusHasOneOwner, Owns, Taken, TaskOver
<1> QED BY <1>1, <1>2, <1>3, <1>4, <1>5, <1>6, <1>7, <1>8, <1>9

\* A message that strays belongs to a flow that is over and never knew its id.
LEMMA StatusStraysStep ==
    ASSUME NEW g \in Flows, VoicesInv, StatusStrays(g)
    PROVE  VoicesInv'
<1> USE FlowFacts DEF VoicesInv, StatusStrays, Goto, registry, handoff, Waiting, Handing, Over
<1>1. Shape'
  BY DEF Shape
<1>2. EntriesAreLive'
  BY DEF Shape, EntriesAreLive, Owns, Taken
<1>3. TasksFollowFlows'
  BY DEF Shape, TasksFollowFlows, StatusesFollowFlows, TaskOver
<1>4. OutcomesFollowTasks'
  BY DEF Shape, TasksFollowFlows, OutcomesFollowTasks
<1>5. OperationsStartEmpty'
  BY DEF Shape, TasksFollowFlows, OperationsStartEmpty
<1>6. ReportsAreTrue'
  BY DEF Shape, EntriesAreLive, TasksFollowFlows, ReportsAreTrue, Reported, Taken, TaskOver
<1>7. CancelsHaveOwners'
  BY DEF Shape, EntriesAreLive, TasksFollowFlows, OutcomesFollowTasks,
         CancelsHaveOwners, StatusesFollowFlows, Owns, Taken, TaskOver
<1>8. StatusesFollowFlows'
  BY DEF Shape, StatusesFollowFlows
<1>9. StatusHasOneOwner'
  BY DEF Shape, EntriesAreLive, TasksFollowFlows, OutcomesFollowTasks, CancelsHaveOwners,
         StatusesFollowFlows, StatusHasOneOwner, Owns, Taken, TaskOver
<1> QED BY <1>1, <1>2, <1>3, <1>4, <1>5, <1>6, <1>7, <1>8, <1>9

LEMMA TaskDrainedStep ==
    ASSUME NEW g \in Flows, VoicesInv, TaskDrained(g)
    PROVE  VoicesInv'
<1> USE FlowFacts DEF VoicesInv, TaskDrained, Goto, registry, handoff, Waiting, Handing, Over
<1>1. Shape'
  BY DEF Shape
<1>2. EntriesAreLive'
  BY DEF Shape, EntriesAreLive, Owns, Taken
<1>3. TasksFollowFlows'
  BY DEF Shape, TasksFollowFlows, StatusesFollowFlows, TaskOver
<1>4. OutcomesFollowTasks'
  BY DEF Shape, TasksFollowFlows, OutcomesFollowTasks
<1>5. OperationsStartEmpty'
  BY DEF Shape, TasksFollowFlows, OperationsStartEmpty
<1>6. ReportsAreTrue'
  BY DEF Shape, EntriesAreLive, TasksFollowFlows, ReportsAreTrue, Reported, Taken, TaskOver
<1>7. CancelsHaveOwners'
  BY DEF Shape, EntriesAreLive, TasksFollowFlows, OutcomesFollowTasks,
         CancelsHaveOwners, StatusesFollowFlows, Owns, Taken, TaskOver
<1>8. StatusesFollowFlows'
  BY DEF Shape, StatusesFollowFlows
<1>9. StatusHasOneOwner'
  BY DEF Shape, EntriesAreLive, TasksFollowFlows, OutcomesFollowTasks, CancelsHaveOwners,
         StatusesFollowFlows, StatusHasOneOwner, Owns, Taken, TaskOver
<1> QED BY <1>1, <1>2, <1>3, <1>4, <1>5, <1>6, <1>7, <1>8, <1>9

\* A flow that still owns its entry was not taken, so a task of it that never ran was
\* cancelled by the flow itself.
LEMMA ReleaseStep ==
    ASSUME NEW g \in Flows, VoicesInv, Release(g)
    PROVE  VoicesInv'
<1> USE FlowFacts DEF VoicesInv, Release, Goto, registry, handoff, Waiting, Handing, Over, Remove, Owns
<1>1. Shape'
  BY DEF Shape
<1>2. EntriesAreLive'
  BY DEF Shape, EntriesAreLive, Owns, Taken
<1>3. TasksFollowFlows'
  BY DEF Shape, TasksFollowFlows, StatusesFollowFlows, TaskOver
<1>4. OutcomesFollowTasks'
  BY DEF Shape, TasksFollowFlows, OutcomesFollowTasks
<1>5. OperationsStartEmpty'
  BY DEF Shape, TasksFollowFlows, OperationsStartEmpty
<1>6. ReportsAreTrue'
  BY DEF Shape, EntriesAreLive, TasksFollowFlows, ReportsAreTrue, Reported, Taken, TaskOver
<1>7. CancelsHaveOwners'
  BY DEF Shape, EntriesAreLive, TasksFollowFlows, OutcomesFollowTasks,
         CancelsHaveOwners, StatusesFollowFlows, Owns, Taken, TaskOver
<1>8. StatusesFollowFlows'
  BY DEF Shape, StatusesFollowFlows
<1>9. StatusHasOneOwner'
  BY DEF Shape, EntriesAreLive, TasksFollowFlows, OutcomesFollowTasks, CancelsHaveOwners,
         StatusesFollowFlows, StatusHasOneOwner, Owns, Taken, TaskOver
<1> QED BY <1>1, <1>2, <1>3, <1>4, <1>5, <1>6, <1>7, <1>8, <1>9

\* The flow deletes what it still owns; what it lost is in the result of an operation.
LEMMA CleanStep ==
    ASSUME NEW g \in Flows, VoicesInv, Clean(g)
    PROVE  VoicesInv'
<1> USE FlowFacts DEF VoicesInv, Clean, KnowsStatus, Goto, registry, handoff, Waiting, Handing, Over, Remove, Owns
<1>1. Shape'
  BY DEF Shape
<1>2. EntriesAreLive'
  BY DEF Shape, EntriesAreLive, Owns, Taken
<1>3. TasksFollowFlows'
  BY DEF Shape, TasksFollowFlows, StatusesFollowFlows, TaskOver
<1>4. OutcomesFollowTasks'
  BY DEF Shape, TasksFollowFlows, OutcomesFollowTasks
<1>5. OperationsStartEmpty'
  BY DEF Shape, TasksFollowFlows, OperationsStartEmpty
<1>6. ReportsAreTrue'
  BY DEF Shape, EntriesAreLive, TasksFollowFlows, ReportsAreTrue, Reported, Taken, TaskOver
<1>7. CancelsHaveOwners'
  BY DEF Shape, EntriesAreLive, TasksFollowFlows, OutcomesFollowTasks,
         CancelsHaveOwners, StatusesFollowFlows, Owns, Taken, TaskOver
<1>8. StatusesFollowFlows'
  BY DEF Shape, StatusesFollowFlows
<1>9. StatusHasOneOwner'
  BY DEF Shape, EntriesAreLive, TasksFollowFlows, OutcomesFollowTasks, CancelsHaveOwners,
         StatusesFollowFlows, StatusHasOneOwner, Owns, Taken, TaskOver
<1> QED BY <1>1, <1>2, <1>3, <1>4, <1>5, <1>6, <1>7, <1>8, <1>9

LEMMA TaskBeginsStep ==
    ASSUME NEW g \in Flows, VoicesInv, TaskBegins(g)
    PROVE  VoicesInv'
<1> USE FlowFacts DEF VoicesInv, TaskBegins, Goto, registry, handoff, Waiting, Handing, Over
<1>1. Shape'
  <2>1. task' \in [Flows -> {"none", "created", "running", "commanding", "ended"}]
    BY DEF Shape
  <2>2. outcome' \in [Flows -> {"none", "completed", "failed", "cancelled"}]
    BY DEF Shape
  <2>3. handed' \subseteq Flows
    BY DEF Shape
  <2> QED BY <2>1, <2>2, <2>3 DEF Shape
<1>2. EntriesAreLive'
  BY DEF Shape, EntriesAreLive, Owns, Taken
<1>3. TasksFollowFlows'
  BY DEF Shape, TasksFollowFlows, StatusesFollowFlows, TaskOver
<1>4. OutcomesFollowTasks'
  BY DEF Shape, TasksFollowFlows, OutcomesFollowTasks
<1>5. OperationsStartEmpty'
  BY DEF Shape, TasksFollowFlows, OperationsStartEmpty
<1>6. ReportsAreTrue'
  BY DEF Shape, EntriesAreLive, TasksFollowFlows, ReportsAreTrue, Reported, Taken, TaskOver
<1>7. CancelsHaveOwners'
  BY DEF Shape, EntriesAreLive, TasksFollowFlows, OutcomesFollowTasks,
         CancelsHaveOwners, StatusesFollowFlows, Owns, Taken, TaskOver
<1>8. StatusesFollowFlows'
  BY DEF Shape, StatusesFollowFlows
<1>9. StatusHasOneOwner'
  BY DEF Shape, EntriesAreLive, TasksFollowFlows, OutcomesFollowTasks, CancelsHaveOwners,
         StatusesFollowFlows, StatusHasOneOwner, Owns, Taken, TaskOver
<1> QED BY <1>1, <1>2, <1>3, <1>4, <1>5, <1>6, <1>7, <1>8, <1>9

LEMMA GivesCommandStep ==
    ASSUME NEW g \in Flows, VoicesInv, GivesCommand(g)
    PROVE  VoicesInv'
<1> USE FlowFacts DEF VoicesInv, GivesCommand, Goto, registry, handoff, Waiting, Handing, Over, Begin
<1>1. Shape'
  BY DEF Shape
<1>2. EntriesAreLive'
  BY DEF Shape, EntriesAreLive, Owns, Taken
<1>3. TasksFollowFlows'
  BY DEF Shape, TasksFollowFlows, StatusesFollowFlows, TaskOver
<1>4. OutcomesFollowTasks'
  BY DEF Shape, TasksFollowFlows, OutcomesFollowTasks
<1>5. OperationsStartEmpty'
  BY DEF Shape, TasksFollowFlows, OperationsStartEmpty
<1>6. ReportsAreTrue'
  BY DEF Shape, EntriesAreLive, TasksFollowFlows, ReportsAreTrue, Reported, Taken, TaskOver
<1>7. CancelsHaveOwners'
  BY DEF Shape, EntriesAreLive, TasksFollowFlows, OutcomesFollowTasks,
         CancelsHaveOwners, StatusesFollowFlows, Owns, Taken, TaskOver
<1>8. StatusesFollowFlows'
  BY DEF Shape, StatusesFollowFlows
<1>9. StatusHasOneOwner'
  BY DEF Shape, EntriesAreLive, TasksFollowFlows, OutcomesFollowTasks, CancelsHaveOwners,
         StatusesFollowFlows, StatusHasOneOwner, Owns, Taken, TaskOver
<1> QED BY <1>1, <1>2, <1>3, <1>4, <1>5, <1>6, <1>7, <1>8, <1>9

LEMMA TaskEndsStep ==
    ASSUME NEW g \in Flows, VoicesInv, TaskEnds(g)
    PROVE  VoicesInv'
<1> USE FlowFacts DEF VoicesInv, TaskEnds, Goto, registry, handoff, Waiting, Handing, Over
<1>1. Shape'
  BY DEF Shape
<1>2. EntriesAreLive'
  BY DEF Shape, EntriesAreLive, Owns, Taken
<1>3. TasksFollowFlows'
  BY DEF Shape, TasksFollowFlows, StatusesFollowFlows, TaskOver
<1>4. OutcomesFollowTasks'
  BY DEF Shape, TasksFollowFlows, OutcomesFollowTasks
<1>5. OperationsStartEmpty'
  BY DEF Shape, TasksFollowFlows, OperationsStartEmpty
<1>6. ReportsAreTrue'
  BY DEF Shape, EntriesAreLive, TasksFollowFlows, ReportsAreTrue, Reported, Taken, TaskOver
<1>7. CancelsHaveOwners'
  BY DEF Shape, EntriesAreLive, TasksFollowFlows, OutcomesFollowTasks,
         CancelsHaveOwners, StatusesFollowFlows, Owns, Taken, TaskOver
<1>8. StatusesFollowFlows'
  BY DEF Shape, StatusesFollowFlows
<1>9. StatusHasOneOwner'
  BY DEF Shape, EntriesAreLive, TasksFollowFlows, OutcomesFollowTasks, CancelsHaveOwners,
         StatusesFollowFlows, StatusHasOneOwner, Owns, Taken, TaskOver
<1> QED BY <1>1, <1>2, <1>3, <1>4, <1>5, <1>6, <1>7, <1>8, <1>9

-----------------------------------------------------------------------------
(* Operations. *)

LEMMA IssueCommandStep ==
    ASSUME NEW c \in Commands, VoicesInv, IssueCommand(c)
    PROVE  VoicesInv'
<1> USE FlowFacts DEF VoicesInv, IssueCommand, Begin, registry, handoff
<1>1. c \in Operations /\ c \notin Flows
  BY DEF Operations, Flows
<1>2. Shape' /\ OperationsStartEmpty'
  BY <1>1 DEF Shape, OperationsStartEmpty, Operations
<1>3. /\ \A f \in Flows : Taken(f)' <=> Taken(f)
      /\ \A f \in Flows : Reported(f)' => Reported(f)
      /\ \A f \in Flows : Owns(f)' <=> Owns(f)
      /\ \A f \in Flows : TaskOver(f)' <=> TaskOver(f)
  BY <1>1 DEF Shape, Taken, Reported, Owns, TaskOver
<1>4. EntriesAreLive' /\ ReportsAreTrue'
  BY <1>3 DEF EntriesAreLive, ReportsAreTrue
<1>5. TasksFollowFlows' /\ OutcomesFollowTasks' /\ CancelsHaveOwners' /\ StatusesFollowFlows'
  BY <1>3 DEF TasksFollowFlows, OutcomesFollowTasks, CancelsHaveOwners, StatusesFollowFlows
<1>6. StatusHasOneOwner'
  BY <1>3 DEF StatusHasOneOwner
<1> QED BY <1>2, <1>4, <1>5, <1>6

\* What an operation takes is in the registry, not taken by anybody, and leaves it under
\* both keys.
LEMMA CaptureFacts ==
    ASSUME NEW o \in Operations, VoicesInv, Capture(o)
    PROVE  \E taken \in SUBSET Flows :
              /\ \A f \in taken : Owns(f) /\ ~Taken(f) /\ ~Excluded(f, o)
              /\ \A f \in Flows : Owns(f)' <=> Owns(f) /\ f \notin taken
              /\ indexed' = indexed \ taken
              /\ owner' \in [Voices -> Flows \cup {NoFlow}]
              /\ doomed' = doomed \cup {f \in taken : task[f] # "none"}
              /\ op' = [op EXCEPT ![o] = [pc |-> "draining", waits |-> taken]]
              /\ \A f \in Flows : Taken(f)' <=> Taken(f) \/ f \in taken
              /\ \A f \in Flows : Reported(f)' => Reported(f)
<1> USE FlowFacts DEF VoicesInv
<1>1. PICK found \in Lookups :
        LET taken == {f \in found : ~Excluded(f, o)} IN
        /\ Remove(taken)
        /\ doomed' = doomed \cup {f \in taken : task[f] # "none"}
        /\ op' = [op EXCEPT ![o] = [pc |-> "draining", waits |-> taken]]
  BY DEF Capture
<1> DEFINE taken == {f \in found : ~Excluded(f, o)}
<1>2. \A f \in found : f \in Flows /\ Owns(f)
  BY DEF Lookups, EntriesAreLive
<1>3. taken \in SUBSET Flows /\ \A f \in taken : Owns(f) /\ ~Taken(f) /\ ~Excluded(f, o)
  BY <1>2 DEF EntriesAreLive
<1>4. /\ \A f \in Flows : Owns(f)' <=> Owns(f) /\ f \notin taken
      /\ indexed' = indexed \ taken
      /\ owner' \in [Voices -> Flows \cup {NoFlow}]
  BY <1>1, <1>3 DEF Remove, Owns, Shape
<1>5. /\ doomed' = doomed \cup {f \in taken : task[f] # "none"}
      /\ op' = [op EXCEPT ![o] = [pc |-> "draining", waits |-> taken]]
  BY <1>1
<1> HIDE DEF taken
<1>6. op[o].pc = "created" /\ op[o].waits = {}
      /\ op \in [Operations -> [pc : {"none", "created", "draining", "done"},
                                                     waits : SUBSET Flows]]
  BY DEF Capture, Shape, OperationsStartEmpty
<1>7. \A f \in Flows : Reported(f)' => Reported(f)
  BY <1>5, <1>6 DEF Reported
<1> QED
  <2>1. \A f \in Flows : Taken(f)' <=> Taken(f) \/ f \in taken
    BY <1>5, <1>6, <1>3 DEF Taken
  <2> QED BY <1>3, <1>4, <1>5, <1>7, <2>1

LEMMA CaptureStep ==
    ASSUME NEW o \in Operations, VoicesInv, Capture(o)
    PROVE  VoicesInv'
<1> USE FlowFacts DEF VoicesInv
<1>1. PICK taken \in SUBSET Flows :
              /\ \A f \in taken : Owns(f) /\ ~Taken(f) /\ ~Excluded(f, o)
              /\ \A f \in Flows : Owns(f)' <=> Owns(f) /\ f \notin taken
              /\ indexed' = indexed \ taken
              /\ owner' \in [Voices -> Flows \cup {NoFlow}]
              /\ doomed' = doomed \cup {f \in taken : task[f] # "none"}
              /\ op' = [op EXCEPT ![o] = [pc |-> "draining", waits |-> taken]]
              /\ \A f \in Flows : Taken(f)' <=> Taken(f) \/ f \in taken
              /\ \A f \in Flows : Reported(f)' => Reported(f)
  BY CaptureFacts
<1>2. op[o].pc = "created" /\ UNCHANGED <<flow, bound, sent, adrift, task, handed, outcome, raised, deleted>>
  BY DEF Capture
<1>3. Shape'
  BY <1>1, <1>2 DEF Shape
<1>4. EntriesAreLive'
  BY <1>1, <1>2 DEF EntriesAreLive
<1>5. TasksFollowFlows' /\ StatusesFollowFlows'
  BY <1>2 DEF TasksFollowFlows, StatusesFollowFlows, TaskOver
<1>6. OutcomesFollowTasks'
  BY <1>1, <1>2 DEF OutcomesFollowTasks
<1>7. OperationsStartEmpty'
  BY <1>1, <1>2 DEF OperationsStartEmpty, Shape
<1>8. ReportsAreTrue'
  BY <1>1, <1>2 DEF ReportsAreTrue, TaskOver
<1>9. CancelsHaveOwners'
  BY <1>1, <1>2 DEF CancelsHaveOwners
<1>10. StatusHasOneOwner'
  BY <1>1, <1>2 DEF StatusHasOneOwner, EntriesAreLive
<1> QED BY <1>3, <1>4, <1>5, <1>6, <1>7, <1>8, <1>9, <1>10

\* Every task that was cancelled is over when its operation returns.
LEMMA ReturnsStep ==
    ASSUME NEW o \in Operations, VoicesInv, Returns(o)
    PROVE  VoicesInv'
<1> USE FlowFacts DEF VoicesInv, Returns, registry, handoff
<1>1. Shape' /\ OperationsStartEmpty'
  BY DEF Shape, OperationsStartEmpty, Operations
<1>2. /\ \A f \in Flows : Taken(f)' <=> Taken(f)
      /\ \A f \in Flows : Owns(f)' <=> Owns(f)
      /\ \A f \in Flows : TaskOver(f)' <=> TaskOver(f)
  BY DEF Shape, Taken, Owns, TaskOver
<1>3. ReportsAreTrue'
  BY DEF Shape, ReportsAreTrue, Reported, TaskOver
<1>4. EntriesAreLive'
  BY <1>2 DEF EntriesAreLive
<1>5. TasksFollowFlows' /\ OutcomesFollowTasks' /\ CancelsHaveOwners' /\ StatusesFollowFlows'
  BY <1>2 DEF TasksFollowFlows, OutcomesFollowTasks, CancelsHaveOwners, StatusesFollowFlows
<1>6. StatusHasOneOwner'
  BY <1>2 DEF StatusHasOneOwner
<1> QED BY <1>1, <1>3, <1>4, <1>5, <1>6

-----------------------------------------------------------------------------
LEMMA VoicesInvStep == VoicesInv /\ [Next]_vars => VoicesInv'
<1> SUFFICES ASSUME VoicesInv, [Next]_vars PROVE VoicesInv'
  OBVIOUS
<1>1. ASSUME NEW f \in Flows, Deliver(f) \/ FlowStep(f) \/ Interrupt(f) \/ StatusStrays(f) \/ TaskStep(f)
      PROVE  VoicesInv'
  BY <1>1, DeliverStep, StatusArrivesStep, FlowFailsStep, HandOffStep, TaskEndedStep,
     InterruptStep, StatusStraysStep, TaskDrainedStep, ReleaseStep, CleanStep, TaskBeginsStep, GivesCommandStep,
     TaskEndsStep DEF FlowStep, TaskStep
<1>2. ASSUME NEW c \in Commands, IssueCommand(c) PROVE VoicesInv'
  BY <1>2, IssueCommandStep
<1>3. ASSUME NEW o \in Operations, OperationStep(o) PROVE VoicesInv'
  BY <1>3, CaptureStep, ReturnsStep DEF OperationStep
<1>4. CASE UNCHANGED vars
  BY <1>4 DEF vars, registry, handoff, VoicesInv, Shape, EntriesAreLive, TasksFollowFlows,
     OutcomesFollowTasks, OperationsStartEmpty, ReportsAreTrue, CancelsHaveOwners,
     StatusesFollowFlows, StatusHasOneOwner, Owns, Taken, Reported, TaskOver
<1> QED BY <1>1, <1>2, <1>3, <1>4 DEF Next

THEOREM VoicesInvariant == Spec => []VoicesInv
BY InitKeepsVoices, VoicesInvStep, PTL DEF Spec

\* A note a command has reported as cancelled, or whose flow has ended, has no handoff
\* task that could still start a turn or a command.
THEOREM CancelledNotesStaySilent == Spec => []CancelledStaysSilent
<1>1. VoicesInv => CancelledStaysSilent
  BY DEF VoicesInv, CancelledStaysSilent, ReportsAreTrue, TasksFollowFlows, Over
<1> QED BY <1>1, VoicesInvariant, PTL

\* The delivered status message of a note that never reached messaging is taken care of
\* once, by its flow or by the command that took the note, unless the handler was
\* cancelled in one of the two windows StatusHasOneOwner names.
THEOREM OneOwnerForTheStatus == Spec => []StatusHasOneOwner
<1>1. VoicesInv => StatusHasOneOwner
  BY DEF VoicesInv
<1> QED BY <1>1, VoicesInvariant, PTL

-----------------------------------------------------------------------------
(* Who removes an entry. *)

LEMMA OwnReleases ==
    ASSUME NEW g \in Flows, NEW f \in Flows, VoicesInv, Release(g) \/ Clean(g), Owns(f), ~Owns(f)'
    PROVE  f \notin indexed' /\ flow'[f] # flow[f]
<1> USE FlowFacts
<1>1. f = g
  BY DEF Release, Clean, Remove, Owns, VoicesInv, Shape
<1>2. Remove({f}) /\ flow[f] \in {"releasing", "cleaning"} /\ flow'[f] \in {"cleaning", "ended"}
      /\ flow'[f] # flow[f]
  BY <1>1 DEF Release, Clean, Goto, VoicesInv, Shape
<1> QED BY <1>2 DEF Remove

LEMMA OwnStep ==
    ASSUME VoicesInv, [Next]_vars, NEW f \in Flows, Owns(f), ~Owns(f)'
    PROVE  /\ f \notin indexed'
           /\ flow'[f] # flow[f] \/ \E o \in Operations : f \in op'[o].waits /\ f \notin op[o].waits
<1> USE FlowFacts
<1>1. owner' # owner
  BY DEF Owns
<1>2. ASSUME NEW g \in Flows, Deliver(g) PROVE FALSE
  BY <1>2 DEF Deliver, Owns, VoicesInv, Shape
<1>3. CASE \E g \in Flows : Release(g) \/ Clean(g)
  BY <1>3, OwnReleases
<1>4. ASSUME NEW o \in Operations, Capture(o)
      PROVE  f \notin indexed' /\ f \in op'[o].waits /\ f \notin op[o].waits
  <2>1. PICK taken \in SUBSET Flows :
              /\ Owns(f)' <=> Owns(f) /\ f \notin taken
              /\ indexed' = indexed \ taken
              /\ op' = [op EXCEPT ![o] = [pc |-> "draining", waits |-> taken]]
    BY <1>4, CaptureFacts
  <2>2. op \in [Operations -> [pc : {"none", "created", "draining", "done"}, waits : SUBSET Flows]]
    BY DEF VoicesInv, Shape
  <2> QED BY <2>1, <2>2 DEF VoicesInv, EntriesAreLive, Taken
<1>5. ASSUME NEW g \in Flows, StatusArrives(g) \/ FlowFails(g) \/ HandOff(g) \/ TaskEnded(g)
                              \/ TaskDrained(g) \/ Interrupt(g) \/ StatusStrays(g)
                              \/ TaskStep(g)
      PROVE  FALSE
  BY <1>1, <1>5 DEF StatusArrives, FlowFails, HandOff, TaskEnded, TaskDrained, Interrupt,
     StatusStrays, TaskStep, TaskBegins, GivesCommand, TaskEnds, registry
<1>6. ASSUME NEW o, IssueCommand(o) \/ Returns(o) PROVE FALSE
  BY <1>1, <1>6 DEF IssueCommand, Returns, registry
<1>7. CASE UNCHANGED vars
  BY <1>1, <1>7 DEF vars, registry
<1> QED BY <1>2, <1>3, <1>4, <1>5, <1>6, <1>7 DEF Next, FlowStep, OperationStep

\* The entry of a note leaves the registry because its own flow moved on or because an
\* operation took it in that very step, and then under both keys at once.
THEOREM EntriesLeaveByTheirOwn == Spec => EntriesAreTheirOwn
<1>1. VoicesInv /\ [Next]_vars =>
        [\A f \in Flows : Owns(f) /\ ~Owns(f)' =>
          /\ f \notin indexed'
          /\ flow'[f] # flow[f]
             \/ \E o \in Operations : f \in op'[o].waits /\ f \notin op[o].waits]_vars
  BY OwnStep
<1> QED BY <1>1, VoicesInvariant, PTL DEF Spec, EntriesAreTheirOwn

-----------------------------------------------------------------------------
(* Commands that wait for one another. *)

\* The handoffs whose operation waits for other handoffs.
Drainers == {f \in Flows : op[f].pc = "draining"}

\* Among any handoffs whose operations wait, one waits for none of them: an operation
\* spares every note whose own operation is draining already (_is_excluded), so that the
\* last one to begin waits for nobody of those before it.
NoCircularWait ==
    \A S \in SUBSET Drainers : S # {} => \E f \in S : op[f].waits \cap S = {}

LEMMA CircleStep ==
    ASSUME VoicesInv, NoCircularWait, [Next]_vars
    PROVE  NoCircularWait'
<1> USE FlowFacts
<1>1. op \in [Operations -> [pc : {"none", "created", "draining", "done"}, waits : SUBSET Flows]]
  BY DEF VoicesInv, Shape
<1>2. ASSUME NEW o \in Operations, Capture(o) PROVE NoCircularWait'
  <2>1. PICK taken \in SUBSET Flows :
              /\ \A f \in taken : ~Excluded(f, o)
              /\ op' = [op EXCEPT ![o] = [pc |-> "draining", waits |-> taken]]
    BY <1>2, CaptureFacts
  <2>2. taken \cap (Drainers \cup {o}) = {}
    BY <2>1 DEF Excluded, Drainers
  <2>3. Drainers' \subseteq Drainers \cup {o}
    BY <1>1, <2>1 DEF Drainers
  <2>4. op[o].pc = "created"
    BY <1>2 DEF Capture
  <2> SUFFICES ASSUME NEW S \in SUBSET Drainers', S # {}
               PROVE  \E f \in S : op'[f].waits \cap S = {}
    BY DEF NoCircularWait
  <2>5. CASE o \in S
    <3>1. op'[o].waits = taken
      BY <1>1, <2>1
    <3> QED BY <2>2, <2>3, <2>5, <3>1
  <2>6. CASE o \notin S
    <3>1. S \in SUBSET Drainers /\ \A f \in S : op'[f] = op[f]
      BY <1>1, <2>1, <2>3, <2>6 DEF Drainers
    <3> QED BY <3>1 DEF NoCircularWait
  <2> QED BY <2>5, <2>6
<1>3. ASSUME Drainers' \subseteq Drainers, \A f \in Flows : op'[f].waits = op[f].waits
      PROVE  NoCircularWait'
  BY <1>3 DEF NoCircularWait, Drainers
<1>4. ASSUME NEW o \in Operations, Returns(o) \/ Begin(o)
      PROVE  Drainers' \subseteq Drainers /\ \A f \in Flows : op'[f].waits = op[f].waits
  BY <1>1, <1>4 DEF Returns, Begin, Drainers
<1>5. CASE UNCHANGED op
  BY <1>3, <1>5 DEF Drainers
<1>6. ASSUME NEW f \in Flows, Deliver(f) \/ FlowStep(f) \/ Interrupt(f) \/ StatusStrays(f) \/ TaskStep(f)
      PROVE  Begin(f) \/ UNCHANGED op
  BY <1>6 DEF Deliver, FlowStep, StatusArrives, FlowFails, HandOff, TaskEnded, TaskDrained,
     Release, Clean, Interrupt, StatusStrays, TaskStep, TaskBegins, GivesCommand, TaskEnds
<1>7. ASSUME NEW c \in Commands, IssueCommand(c) PROVE c \in Operations /\ Begin(c)
  BY <1>7 DEF IssueCommand, Operations
<1>8. CASE UNCHANGED vars
  BY <1>5, <1>8 DEF vars
<1> QED BY <1>2, <1>3, <1>4, <1>5, <1>6, <1>7, <1>8 DEF Next, OperationStep

\* Commands given inside handoffs never wait for one another in a circle.
THEOREM CommandsNeverDeadlock == Spec => []NoCircularWait
<1>1. Init => NoCircularWait
  BY FlowFacts DEF Init, NoCircularWait, Drainers, NoOperation
<1> QED BY <1>1, CircleStep, VoicesInvariant, PTL DEF Spec
=============================================================================
