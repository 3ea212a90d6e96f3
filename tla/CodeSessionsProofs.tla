------------------------ MODULE CodeSessionsProofs ------------------------
(***************************************************************************)
(* One coding session for any number of runs, prompts, processes, events   *)
(* ahead of the service, restarts and disturbances: input is sent once, no *)
(* turn counts for two runs, an unfinished run has a job, a stop before the *)
(* submission prevents it, and outcomes are final.                         *)
(*                                                                         *)
(* All of it rests on SessionInv.  Jobs of earlier runs may still be under *)
(* way, so that nothing follows from the run that is current: the invariant *)
(* says of each job by itself what has happened to the run it works for.   *)
(***************************************************************************)
EXTENDS CodeSessions, SequenceTheorems, TLAPS

USE SessionBounds

Origins == Connections \cup {NoConnection}
Names == Runs \cup {None}

Steps ==
    {"idle", "open", "close", "create", "created", "resume", "submit", "start", "taken", "wait",
     "final", "closing", "call", "killing", "respond", "written", "untracked", "remove",
     "remove_call", "removed", "reconcile", "reconcile_call", "gather", "done"}
Plans == {"done", "open", "fail", "finish", "forget", "keep", "unsure", "check"}
JobState == [pc : Steps, conn : Origins, run : Names, then : Plans]

RunStatus == {"absent", "preparing", "running", "stopping", "completed", "failed", "interrupted"}
Row == [status : RunStatus, stop : BOOLEAN, started : BOOLEAN, turn : Names]
PromptStatus == {"absent", "pending", "answering", "resolved", "expired"}
PromptRow == [status : PromptStatus, on : Origins, turn : Names]
SessionRow == [status : {"ready", "deleting", "delete_uncertain", "gone"}, thread : Origins]

Kinds == {"turn_started", "turn_completed", "prompt", "resolved", "closed"}
EventState == [kind : Kinds, of : Prompts \cup {None}, turn : Names]
TurnState == [state : {"none", "running", "ended"}, on : Origins]
RequestState == [state : {"no", "yes", "over"}, on : Origins, turn : Names]

Shape ==
    /\ session \in SessionRow /\ latest \in Names
    /\ run \in [Runs -> Row] /\ prompt \in [Prompts -> PromptRow]
    /\ connection \in Origins /\ loaded \in BOOLEAN
    /\ job \in [Jobs -> JobState]
    /\ events \in [Connections -> Seq(EventState)]
    /\ threadOf \in [Connections -> Origins] /\ threads \subseteq Connections
    /\ turn \in [Runs -> TurnState] /\ inputs \in [Runs -> Nat]
    /\ asked \in [Prompts -> RequestState]
    /\ opened \in Nat

Closing(r, then) == job[Work(r)].pc = "closing" /\ job[Work(r)].then = then

\* The job of r has not submitted the input yet.
Unsent(r) ==
    job[Work(r)].pc \in {"open", "close", "create", "created", "resume", "submit", "start"}
    \/ Closing(r, "open")

\* The job of r will finish the run, or submits it and waits for the end.
Serves(r) ==
    Unsent(r) \/ job[Work(r)].pc \in {"taken", "wait"} \/ Closing(r, "fail")

\* What the job of a run knows.
Knows(r) ==
    /\ Unsent(r) => inputs[r] = 0
    /\ job[Work(r)].pc = "taken" => inputs[r] # 0
    /\ job[Work(r)].pc = "start" => run[r].started \/ Deleted
    /\ job[Work(r)].pc # "idle" => run[r].status # "absent" \/ Deleted
    /\ Closing(r, "fail") => job[Work(r)].run = r
    /\ job[Work(r)].pc \in {"create", "created", "resume"} => job[Work(r)].conn \in Connections

JobsKnow ==
    /\ \A r \in Runs : Knows(r)
    /\ Deleted => job[Delete].pc = "idle"

\* The rows of the runs.
RunsAreInOrder ==
    /\ \A r \in Runs : Active(run[r]) => latest = r /\ (Up => Serves(r))
    /\ \A r \in Runs : inputs[r] = 0 \/ (inputs[r] = 1 /\ (run[r].started \/ Deleted))
    /\ Deleted => latest = None /\ \A r \in Runs : run[r] = NoRow

\* Turns come from inputs, and a turn that counts for another run is no longer waited for.
TurnsAreTold ==
    /\ \A r \in Runs : turn[r].state = "running" => inputs[r] # 0
    /\ \A g \in Connections : \A i \in 1..Len(events[g]) :
         events[g][i].turn # None => inputs[events[g][i].turn] # 0
    /\ \A r \in Runs : run[r].turn # None => inputs[run[r].turn] # 0
    /\ \A r, s \in Runs : r # s => run[r].turn = None \/ run[r].turn # run[s].turn
    /\ \A r, s \in Runs : r # s /\ run[r].turn = s => latest # s \/ run[s].turn # None

\* A prompt is announced once, after it was asked and before it has a row.
Announces(g, i, p) == i \in 1..Len(events[g]) /\ events[g][i].kind = "prompt" /\ events[g][i].of = p

PromptsAreNew ==
    /\ \A p \in Prompts : asked[p].state = "no" => prompt[p].status = "absent"
    /\ \A p \in Prompts : \A g \in Connections : \A i \in 1..Len(events[g]) :
         Announces(g, i, p) => asked[p].state # "no" /\ prompt[p].status = "absent"
    /\ \A p \in Prompts : \A g, h \in Connections :
         \A i \in 1..Len(events[g]) : \A k \in 1..Len(events[h]) :
           Announces(g, i, p) /\ Announces(h, k, p) => g = h /\ i = k

ThreadIsSaved == loaded => session.thread # NoConnection

SessionInv ==
    /\ Shape /\ JobsKnow /\ RunsAreInOrder /\ TurnsAreTold /\ PromptsAreNew /\ ThreadIsSaved

\* What StopPreventsInput and OutcomeIsFinal say of one step, and what the lemmas below show
\* of every action.
StopHolds ==
    \A r \in Runs : run[r].stop /\ ~run[r].started
         => ~run'[r].started /\ inputs'[r] = inputs[r]

OutcomesStay ==
    ~Deleted' =>
        /\ \A r \in Runs : run[r].status \in {"completed", "failed", "interrupted"}
                             => run'[r].status = run[r].status
        /\ \A p \in Prompts : prompt[p].status \in {"resolved", "expired"}
                             => prompt'[p].status = prompt[p].status

GoesWell == SessionInv' /\ StopHolds /\ OutcomesStay

-----------------------------------------------------------------------------
(* Names of jobs, and queues of events. *)

LEMMA JobNames ==
    /\ Delete \in Jobs /\ Shutdown \in Jobs /\ Delete # Shutdown
    /\ Delete[1] = "delete" /\ Shutdown[1] = "shutdown"
    /\ \A r \in Runs :
        /\ Work(r) \in Jobs /\ Interrupt(r) \in Jobs
        /\ Work(r) # Delete /\ Work(r) # Shutdown /\ Interrupt(r) # Delete /\ Interrupt(r) # Shutdown
        /\ Work(r)[1] = "work" /\ Interrupt(r)[1] = "interrupt"
    /\ \A r, s \in Runs : Work(r) # Interrupt(s) /\ (r # s => Work(r) # Work(s))
    /\ \A p \in Prompts :
        /\ Reply(p) \in Jobs /\ Reply(p) # Delete /\ Reply(p)[1] = "answer"
        /\ \A r \in Runs : Reply(p) # Work(r)
BY DEF Jobs, Work, Interrupt, Reply, Delete, Shutdown

LEMMA WorkOrNot ==
    ASSUME NEW j \in Jobs
    PROVE  \/ \E r \in Runs : j = Work(r)
           \/ j[1] # "work" /\ \A r \in Runs : j # Work(r)
BY DEF Jobs, Work, Interrupt, Reply, Delete, Shutdown

LEMMA IdleState ==
    Idle \in JobState /\ Idle.pc = "idle" /\ Idle.then = "done" /\ Idle.run = None
BY DEF Idle, JobState, Origins, Names, Steps, Plans

LEMMA NextState ==
    ASSUME NEW state \in JobState, NEW pc \in Steps
    PROVE  /\ [state EXCEPT !.pc = pc] \in JobState
           /\ [state EXCEPT !.pc = pc].pc = pc /\ [state EXCEPT !.pc = pc].conn = state.conn
BY DEF JobState

LEMMA CallState ==
    ASSUME NEW state \in JobState, NEW pc \in Steps, NEW c \in Origins
    PROVE  /\ [state EXCEPT !.pc = pc, !.conn = c] \in JobState
           /\ [state EXCEPT !.pc = pc, !.conn = c].pc = pc
           /\ [state EXCEPT !.pc = pc, !.conn = c].conn = c
BY DEF JobState

LEMMA PlanState ==
    ASSUME NEW state \in JobState, NEW pc \in Steps, NEW c \in Origins, NEW then \in Plans
    PROVE  /\ [state EXCEPT !.pc = pc, !.conn = c, !.then = then] \in JobState
           /\ [state EXCEPT !.pc = pc, !.conn = c, !.then = then].pc = pc
           /\ [state EXCEPT !.pc = pc, !.conn = c, !.then = then].then = then
BY DEF JobState

\* Every step but two leaves the jobs of runs and the deletion alone when it schedules an
\* interrupt.
LEMMA InterruptsAside ==
    ASSUME NEW jobs \in [Jobs -> JobState], NEW rs, Shape
    PROVE  /\ WithInterrupt(jobs, rs) \in [Jobs -> JobState]
           /\ WithInterrupt(jobs, rs)[Delete] = jobs[Delete]
           /\ \A r \in Runs : WithInterrupt(jobs, rs)[Work(r)] = jobs[Work(r)]
<1>1. CASE latest = None
  BY <1>1 DEF WithInterrupt
<1>2. CASE latest # None
  <2>1. latest \in Runs
    BY <1>2 DEF Shape, Names
  <2>2. [Idle EXCEPT !.pc = "call", !.conn = connection] \in JobState
    <3>1. "call" \in Steps
      BY DEF Steps
    <3>2. connection \in Origins
      BY DEF Shape
    <3> QED BY <3>1, <3>2, IdleState, CallState
  <2>3. \/ WithInterrupt(jobs, rs) = jobs
        \/ WithInterrupt(jobs, rs) =
             [jobs EXCEPT ![Interrupt(latest)] = [Idle EXCEPT !.pc = "call", !.conn = connection]]
    BY DEF WithInterrupt
  <2>4. CASE WithInterrupt(jobs, rs) = jobs
    BY <2>4
  <2>5. CASE WithInterrupt(jobs, rs) =
             [jobs EXCEPT ![Interrupt(latest)] = [Idle EXCEPT !.pc = "call", !.conn = connection]]
    BY <2>1, <2>2, <2>5, JobNames
  <2> QED BY <2>3, <2>4, <2>5
<1> QED BY <1>1, <1>2

LEMMA AppendedQueue ==
    ASSUME NEW q \in Seq(EventState), NEW e \in EventState
    PROVE  /\ Append(q, e) \in Seq(EventState)
           /\ \A i \in 1..Len(Append(q, e)) :
                (i \in 1..Len(q) /\ Append(q, e)[i] = q[i]) \/ (i = Len(q) + 1 /\ Append(q, e)[i] = e)
BY AppendProperties

LEMMA ShiftedQueue ==
    ASSUME NEW q \in Seq(EventState), q # <<>>
    PROVE  /\ Head(q) = q[1] /\ Head(q) \in EventState /\ 1 \in 1..Len(q)
           /\ Tail(q) \in Seq(EventState)
           /\ \A i \in 1..Len(Tail(q)) : i + 1 \in 1..Len(q) /\ Tail(q)[i] = q[i + 1]
BY HeadTailProperties

\* What a process queues comes behind what it has queued.
LEMMA QueuesFacts ==
    ASSUME Shape, NEW g \in Origins, NEW kind \in Kinds, NEW p \in Prompts \cup {None},
           NEW t \in Names, Queues(g, kind, p, t)
    PROVE  /\ events' \in [Connections -> Seq(EventState)]
           /\ \A h \in Connections : \A i \in 1..Len(events'[h]) :
                \/ i \in 1..Len(events[h]) /\ events'[h][i] = events[h][i]
                \/ h = g /\ i = Len(events[g]) + 1 /\ events'[h][i] = EventOf(kind, p, t)
<1>1. EventOf(kind, p, t) \in EventState
  BY DEF EventOf, EventState
<1>2. \A h \in Connections : events[h] \in Seq(EventState)
  BY DEF Shape
<1>3. CASE g \in Connections
  <2>1. events' = [events EXCEPT ![g] = Append(events[g], EventOf(kind, p, t))]
    BY DEF Queues
  <2>2. Append(events[g], EventOf(kind, p, t)) \in Seq(EventState)
    BY <1>1, <1>2, <1>3, AppendedQueue
  <2>3. events' \in [Connections -> Seq(EventState)]
    BY <2>1, <2>2 DEF Shape
  <2>4. \A h \in Connections : h # g => events'[h] = events[h]
    BY <2>1 DEF Shape
  <2>5. events'[g] = Append(events[g], EventOf(kind, p, t))
    BY <1>3, <2>1 DEF Shape
  <2>6. \A i \in 1..Len(events'[g]) :
                \/ i \in 1..Len(events[g]) /\ events'[g][i] = events[g][i]
                \/ i = Len(events[g]) + 1 /\ events'[g][i] = EventOf(kind, p, t)
    BY <1>1, <1>2, <1>3, <2>5, AppendedQueue
  <2> QED BY <2>3, <2>4, <2>6
<1>4. CASE g \notin Connections
  BY <1>2, <1>4 DEF Queues, Shape
<1> QED BY <1>3, <1>4

\* The service takes the first event of a process.
LEMMA DequeuesFacts ==
    ASSUME Shape, NEW g \in Connections, events[g] # <<>>, Dequeues(g)
    PROVE  /\ events' \in [Connections -> Seq(EventState)]
           /\ Event(g) = events[g][1] /\ Event(g) \in EventState /\ 1 \in 1..Len(events[g])
           /\ \A i \in 1..Len(events'[g]) :
                i + 1 \in 1..Len(events[g]) /\ events'[g][i] = events[g][i + 1]
           /\ \A h \in Connections \ {g} : events'[h] = events[h]
<1>1. events[g] \in Seq(EventState)
  BY DEF Shape
<1>2. events' = [events EXCEPT ![g] = Tail(events[g])]
  BY DEF Dequeues
<1>3. events'[g] = Tail(events[g]) /\ \A h \in Connections \ {g} : events'[h] = events[h]
  BY <1>2 DEF Shape
<1>4. Tail(events[g]) \in Seq(EventState)
  BY <1>1, ShiftedQueue
<1>5. events' \in [Connections -> Seq(EventState)]
  BY <1>2, <1>4 DEF Shape
<1> QED BY <1>1, <1>3, <1>5, ShiftedQueue DEF Event

\* A process that ends queues one event more and ends its turns and requests.
LEMMA LinkEndsFacts ==
    ASSUME Shape, NEW g \in Origins, LinkEnds(g)
    PROVE  /\ events' \in [Connections -> Seq(EventState)]
           /\ \A h \in Connections : \A i \in 1..Len(events'[h]) :
                \/ i \in 1..Len(events[h]) /\ events'[h][i] = events[h][i]
                \/ events'[h][i].kind = "closed" /\ events'[h][i].turn = None
           /\ turn' \in [Runs -> TurnState] /\ asked' \in [Prompts -> RequestState]
           /\ \A r \in Runs : turn'[r].state = "running" => turn[r].state = "running"
           /\ \A p \in Prompts : asked'[p].state = "no" => asked[p].state = "no"
           /\ UNCHANGED <<threadOf, threads, inputs>>
<1>1. CASE UNCHANGED harness
  BY <1>1 DEF harness, Shape
<1>2. CASE ~UNCHANGED harness
  <2>1. /\ Queues(g, "closed", None, None)
        /\ turn' = [r \in Runs |-> IF turn[r].on = g THEN EndedTurn ELSE turn[r]]
        /\ asked' = [p \in Prompts |-> IF asked[p].on = g THEN OverRequest ELSE asked[p]]
        /\ UNCHANGED <<threadOf, threads, inputs>>
    BY <1>2 DEF LinkEnds
  <2>2. EndedTurn \in TurnState /\ EndedTurn.state = "ended"
    BY DEF EndedTurn, TurnState, Origins
  <2>3. OverRequest \in RequestState /\ OverRequest.state = "over"
    BY DEF OverRequest, NoRequest, RequestState, Origins, Names
  <2>4. turn' \in [Runs -> TurnState] /\ asked' \in [Prompts -> RequestState]
    BY <2>1, <2>2, <2>3 DEF Shape
  <2>5. \A r \in Runs : turn'[r].state = "running" => turn[r].state = "running"
    BY <2>1, <2>2
  <2>6. \A p \in Prompts : asked'[p].state = "no" => asked[p].state = "no"
    BY <2>1, <2>3
  <2>7. "closed" \in Kinds /\ None \in Names /\ None \in Prompts \cup {None}
    BY DEF Kinds, Names
  <2>8. /\ EventOf("closed", None, None).kind = "closed"
        /\ EventOf("closed", None, None).turn = None
    BY DEF EventOf
  <2>9. /\ events' \in [Connections -> Seq(EventState)]
        /\ \A h \in Connections : \A i \in 1..Len(events'[h]) :
             \/ i \in 1..Len(events[h]) /\ events'[h][i] = events[h][i]
             \/ events'[h][i] = EventOf("closed", None, None)
    BY <2>1, <2>7, QueuesFacts
  <2> QED BY <2>1, <2>4, <2>5, <2>6, <2>8, <2>9
<1> QED BY <1>1, <1>2

\* Turns stay as told while runs keep theirs and no event of a new one comes.
LEMMA TurnsKept ==
    ASSUME TurnsAreTold,
           latest' \in {latest, None},
           \A r \in Runs : run'[r].turn = run[r].turn,
           \A r \in Runs : inputs[r] # 0 => inputs'[r] # 0,
           \A r \in Runs : turn'[r].state = "running" => turn[r].state = "running" \/ inputs'[r] # 0,
           \A g \in Connections : \A i \in 1..Len(events'[g]) :
              \/ events'[g][i].turn = None \/ inputs'[events'[g][i].turn] # 0
              \/ \E k \in 1..Len(events[g]) : events'[g][i] = events[g][k],
           Shape
    PROVE  TurnsAreTold'
<1>1. \A r \in Runs : run[r].turn # None => run[r].turn \in Runs
  BY DEF Shape, Row, Names
<1>2. \A g \in Connections : \A k \in 1..Len(events[g]) :
        events[g][k].turn # None => events[g][k].turn \in Runs
  <2>1. \A g \in Connections : events[g] \in Seq(EventState)
    BY DEF Shape
  <2>2. \A g \in Connections : \A k \in 1..Len(events[g]) : events[g][k] \in EventState
    BY <2>1, ElementOfSeq
  <2> QED BY <2>2 DEF EventState, Names
<1>3. \A r \in Runs : turn'[r].state = "running" => inputs'[r] # 0
  BY DEF TurnsAreTold
<1>4. \A g \in Connections : \A i \in 1..Len(events'[g]) :
        events'[g][i].turn # None => inputs'[events'[g][i].turn] # 0
  BY <1>2 DEF TurnsAreTold
<1>5. \A r \in Runs : run'[r].turn # None => inputs'[run'[r].turn] # 0
  BY <1>1 DEF TurnsAreTold
<1> QED BY <1>3, <1>4, <1>5 DEF TurnsAreTold

\* Prompts stay new while queues only lose events from the front and none is announced.
LEMMA PromptsKept ==
    ASSUME PromptsAreNew,
           NEW off \in [Connections -> Nat],
           \A p \in Prompts : asked'[p].state = "no" => asked[p].state = "no",
           \A p \in Prompts : prompt[p].status = "absent" =>
              prompt'[p].status = "absent"
              \/ /\ asked'[p].state # "no"
                 /\ \A g \in Connections : \A i \in 1..Len(events'[g]) : ~Announces(g, i, p)',
           \A g \in Connections : \A i \in 1..Len(events'[g]) :
              \/ events'[g][i].kind # "prompt"
              \/ i + off[g] \in 1..Len(events[g]) /\ events'[g][i] = events[g][i + off[g]]
    PROVE  PromptsAreNew'
<1>1. \A p \in Prompts : \A g \in Connections : \A i \in 1..Len(events'[g]) :
        Announces(g, i, p)' => i + off[g] \in 1..Len(events[g]) /\ Announces(g, i + off[g], p)
  BY DEF Announces
<1>2. \A p \in Prompts : asked'[p].state = "no" => prompt'[p].status = "absent"
  BY DEF PromptsAreNew
<1>3. ASSUME NEW p \in Prompts, NEW g \in Connections, NEW i \in 1..Len(events'[g]),
             Announces(g, i, p)'
      PROVE  asked'[p].state # "no" /\ prompt'[p].status = "absent"
  BY <1>1, <1>3 DEF PromptsAreNew
<1>4. ASSUME NEW p \in Prompts, NEW g \in Connections, NEW h \in Connections,
             NEW i \in 1..Len(events'[g]), NEW k \in 1..Len(events'[h]),
             Announces(g, i, p)', Announces(h, k, p)'
      PROVE  g = h /\ i = k
  <2>0. /\ i + off[g] \in 1..Len(events[g]) /\ Announces(g, i + off[g], p)
        /\ k + off[h] \in 1..Len(events[h]) /\ Announces(h, k + off[h], p)
    BY <1>1, <1>4
  <2>1. g = h /\ i + off[g] = k + off[h]
    BY <2>0 DEF PromptsAreNew
  <2>2. off[g] \in Nat /\ i \in Int /\ k \in Int
    OBVIOUS
  <2> QED BY <2>1, <2>2
<1> QED BY <1>2, <1>3, <1>4 DEF PromptsAreNew

LEMMA PromptsStay ==
    ASSUME PromptsAreNew,
           \A p \in Prompts : asked'[p].state = "no" => asked[p].state = "no",
           \A p \in Prompts : prompt[p].status = "absent" => prompt'[p].status = "absent",
           \A g \in Connections : \A i \in 1..Len(events'[g]) :
              \/ i \in 1..Len(events[g]) /\ events'[g][i] = events[g][i]
              \/ events'[g][i].kind # "prompt"
    PROVE  PromptsAreNew'
<1> DEFINE off == [g \in Connections |-> 0]
<1>1. off \in [Connections -> Nat] /\ \A g \in Connections : off[g] = 0
  OBVIOUS
<1> HIDE DEF off
<1>2. \A g \in Connections : \A i \in 1..Len(events'[g]) :
              \/ events'[g][i].kind # "prompt"
              \/ i + off[g] \in 1..Len(events[g]) /\ events'[g][i] = events[g][i + off[g]]
  BY <1>1
<1> QED BY <1>1, <1>2, PromptsKept

\* What is taken from a queue was in it.
LEMMA EventTaken ==
    ASSUME Shape, NEW g \in Connections, events[g] # <<>>, Dequeues(g)
    PROVE  /\ \A h \in Connections : \A i \in 1..Len(events'[h]) :
                \E k \in 1..Len(events[h]) : events'[h][i] = events[h][k]
           /\ TurnsAreTold => Event(g).turn = None \/ inputs[Event(g).turn] # 0
           /\ Event(g).turn \in Names /\ Event(g).kind \in Kinds
<1>1. /\ Event(g) = events[g][1] /\ Event(g) \in EventState /\ 1 \in 1..Len(events[g])
      /\ \A i \in 1..Len(events'[g]) :
           i + 1 \in 1..Len(events[g]) /\ events'[g][i] = events[g][i + 1]
      /\ \A h \in Connections \ {g} : events'[h] = events[h]
  BY DequeuesFacts
<1>2. \A h \in Connections : \A i \in 1..Len(events'[h]) :
                \E k \in 1..Len(events[h]) : events'[h][i] = events[h][k]
  BY <1>1
<1> QED BY <1>1, <1>2 DEF TurnsAreTold, EventState

\* Taking an event keeps the prompts new; a prompt that gets its row has left the queue.
LEMMA PromptTaken ==
    ASSUME Shape, PromptsAreNew, NEW g \in Connections, events[g] # <<>>, Dequeues(g),
           \A p \in Prompts : prompt[p].status = "absent" =>
             prompt'[p].status = "absent" \/ (Event(g).kind = "prompt" /\ Event(g).of = p)
    PROVE  PromptsAreNew'
<1>1. /\ Event(g) = events[g][1] /\ 1 \in 1..Len(events[g])
      /\ \A i \in 1..Len(events'[g]) :
           i + 1 \in 1..Len(events[g]) /\ events'[g][i] = events[g][i + 1]
      /\ \A h \in Connections \ {g} : events'[h] = events[h]
  BY DequeuesFacts
<1> DEFINE off == [h \in Connections |-> IF h = g THEN 1 ELSE 0]
<1>2. off \in [Connections -> Nat] /\ off[g] = 1 /\ \A h \in Connections \ {g} : off[h] = 0
  OBVIOUS
<1> HIDE DEF off
<1>3. \A h \in Connections : \A i \in 1..Len(events'[h]) :
        i + off[h] \in 1..Len(events[h]) /\ events'[h][i] = events[h][i + off[h]]
  <2> TAKE h \in Connections
  <2> TAKE i \in 1..Len(events'[h])
  <2>1. CASE h = g
    BY <1>1, <1>2, <2>1
  <2>2. CASE h # g
    BY <1>1, <1>2, <2>2
  <2> QED BY <2>1, <2>2
<1>4. UNCHANGED asked
  BY DEF Dequeues
<1>5. ASSUME NEW p \in Prompts, prompt[p].status = "absent", prompt'[p].status # "absent"
      PROVE  /\ asked'[p].state # "no"
             /\ \A h \in Connections : \A i \in 1..Len(events'[h]) : ~Announces(h, i, p)'
  <2>1. Announces(g, 1, p)
    BY <1>1, <1>5 DEF Announces
  <2>2. asked[p].state # "no"
    BY <1>1, <2>1 DEF PromptsAreNew
  <2>3. ASSUME NEW h \in Connections, NEW i \in 1..Len(events'[h]), Announces(h, i, p)' PROVE FALSE
    <3>1. i + off[h] \in 1..Len(events[h]) /\ Announces(h, i + off[h], p)
      BY <1>3, <2>3 DEF Announces
    <3>2. h = g /\ i + off[h] = 1
      BY <1>1, <2>1, <3>1 DEF PromptsAreNew
    <3> QED BY <1>2, <3>2
  <2> QED BY <1>4, <2>2, <2>3
<1> QED BY <1>2, <1>3, <1>4, <1>5, PromptsKept

\* How the row of a run may change in most actions, and that of a prompt.
RunGoesOn(r) ==
    /\ run[r].started => run'[r].started
    /\ run[r].status # "absent" => run'[r].status # "absent"
    /\ Active(run'[r]) => Active(run[r])
    /\ run[r].status \in {"completed", "failed", "interrupted"} => run'[r].status = run[r].status
    /\ run[r].stop /\ ~run[r].started => ~run'[r].started
    /\ Deleted => run'[r] = run[r]

PromptGoesOn(p) ==
    /\ prompt[p].status = "absent" => prompt'[p].status = "absent"
    /\ prompt[p].status \in {"resolved", "expired"} => prompt'[p].status = prompt[p].status

\* The job of a run stays as it is, or knows what it has to know in its new place.
JobGoesOn(r) ==
    \/ job'[Work(r)] = job[Work(r)] /\ (Up' => Up)
    \/ Knows(r)' /\ (Active(run'[r]) /\ Up' => Serves(r)')

LEMMA RowsCarry ==
    ASSUME SessionInv, UNCHANGED latest, Deleted' <=> Deleted, UNCHANGED inputs,
           \A r \in Runs : RunGoesOn(r) /\ JobGoesOn(r),
           \A p \in Prompts : PromptGoesOn(p) \/ prompt[p].status = "absent",
           Deleted => job'[Delete].pc = "idle"
    PROVE  JobsKnow' /\ RunsAreInOrder' /\ StopHolds /\ OutcomesStay
<1> USE DEF SessionInv
<1>1. \A r \in Runs : Knows(r)'
  BY DEF JobsKnow, Knows, Unsent, Closing, RunGoesOn, JobGoesOn
<1>2. \A r \in Runs : Active(run'[r]) => latest' = r /\ (Up' => Serves(r)')
  BY DEF RunsAreInOrder, Serves, Unsent, Closing, RunGoesOn, JobGoesOn
<1>3. \A r \in Runs : inputs'[r] = 0 \/ (inputs'[r] = 1 /\ (run'[r].started \/ Deleted'))
  BY DEF RunsAreInOrder, RunGoesOn
<1>4. Deleted' => latest' = None /\ \A r \in Runs : run'[r] = NoRow
  BY DEF RunsAreInOrder, RunGoesOn
<1>5. StopHolds /\ OutcomesStay
  BY DEF StopHolds, OutcomesStay, RunGoesOn, PromptGoesOn
<1> QED BY <1>1, <1>2, <1>3, <1>4, <1>5 DEF JobsKnow, RunsAreInOrder

\* What a step does to the processes that takes no input, announces no prompt and takes
\* no event.
Quiet ==
    /\ events' \in [Connections -> Seq(EventState)]
    /\ turn' \in [Runs -> TurnState] /\ asked' \in [Prompts -> RequestState]
    /\ threadOf' \in [Connections -> Origins] /\ threads' \subseteq Connections
    /\ UNCHANGED inputs
    /\ \A h \in Connections : \A i \in 1..Len(events'[h]) :
         \/ i \in 1..Len(events[h]) /\ events'[h][i] = events[h][i]
         \/ events'[h][i].kind # "prompt" /\ events'[h][i].turn = None
    /\ \A r \in Runs : turn'[r].state = "running" => turn[r].state = "running"
    /\ \A p \in Prompts : asked'[p].state = "no" => asked[p].state = "no"

LEMMA EndsAreQuiet ==
    ASSUME Shape, NEW g \in Origins, LinkEnds(g)
    PROVE  Quiet
BY LinkEndsFacts DEF Quiet, Shape

LEMMA NothingIsQuiet ==
    ASSUME Shape, UNCHANGED <<events, threadOf, threads, turn, inputs, asked>>
    PROVE  Quiet
BY DEF Quiet, Shape

LEMMA QuietKeeps ==
    ASSUME Shape, TurnsAreTold, PromptsAreNew, Quiet
    PROVE  /\ (latest' \in {latest, None} /\ \A r \in Runs : run'[r].turn = run[r].turn)
                => TurnsAreTold'
           /\ (\A p \in Prompts : prompt[p].status = "absent" => prompt'[p].status = "absent")
                => PromptsAreNew'
<1>1. \A g \in Connections : \A i \in 1..Len(events'[g]) :
              \/ events'[g][i].turn = None \/ inputs'[events'[g][i].turn] # 0
              \/ \E k \in 1..Len(events[g]) : events'[g][i] = events[g][k]
  BY DEF Quiet
<1>2. ASSUME latest' \in {latest, None}, \A r \in Runs : run'[r].turn = run[r].turn
      PROVE  TurnsAreTold'
  BY <1>1, <1>2, TurnsKept DEF Quiet
<1>3. ASSUME \A p \in Prompts : prompt[p].status = "absent" => prompt'[p].status = "absent"
      PROVE  PromptsAreNew'
  BY <1>3, PromptsStay DEF Quiet
<1> QED BY <1>2, <1>3

\* Most actions are of this kind.
LEMMA Carried ==
    ASSUME SessionInv, Shape', Quiet, loaded' => session'.thread # NoConnection,
           UNCHANGED latest, Deleted' <=> Deleted,
           \A r \in Runs : run'[r].turn = run[r].turn,
           \A r \in Runs : RunGoesOn(r) /\ JobGoesOn(r),
           \A p \in Prompts : PromptGoesOn(p),
           Deleted => job'[Delete].pc = "idle"
    PROVE  GoesWell
<1>1. UNCHANGED inputs
  BY DEF Quiet
<1>2. JobsKnow' /\ RunsAreInOrder' /\ StopHolds /\ OutcomesStay
  BY <1>1, RowsCarry
<1>3. \A p \in Prompts : prompt[p].status = "absent" => prompt'[p].status = "absent"
  BY DEF PromptGoesOn
<1>4. TurnsAreTold' /\ PromptsAreNew'
  BY <1>3, QuietKeeps DEF SessionInv
<1> QED BY <1>2, <1>4 DEF SessionInv, ThreadIsSaved, GoesWell

LEMMA SameRows ==
    ASSUME UNCHANGED <<session, run, latest, prompt>>
    PROVE  /\ Deleted' <=> Deleted
           /\ \A r \in Runs : run'[r].turn = run[r].turn /\ RunGoesOn(r)
           /\ \A p \in Prompts : PromptGoesOn(p)
BY DEF Deleted, RunGoesOn, PromptGoesOn

\* ... and of these, the ones that only move a job and touch no row.
LEMMA OnlyAJob ==
    ASSUME SessionInv, Quiet, NEW j \in Jobs,
           UNCHANGED <<service, rows>>, opened' \in Nat,
           connection' \in Origins, loaded' \in BOOLEAN, loaded' => loaded,
           job' \in [Jobs -> JobState], \A k \in Jobs \ {j} : job'[k] = job[k],
           \A r \in Runs : j = Work(r) => Knows(r)' /\ (Active(run[r]) => Serves(r)'),
           j = Delete => ~Deleted
    PROVE  GoesWell
<1>1. Shape'
  BY DEF SessionInv, Shape, Quiet, rows
<1>2. \A r \in Runs : JobGoesOn(r)
  <2> TAKE r \in Runs
  <2>1. CASE j = Work(r)
    BY <2>1 DEF JobGoesOn, rows
  <2>2. CASE j # Work(r)
    <3>1. job'[Work(r)] = job[Work(r)]
      BY <2>2, JobNames
    <3> QED BY <3>1 DEF JobGoesOn, Up
  <2> QED BY <2>1, <2>2
<1>3. Deleted => job'[Delete].pc = "idle"
  BY JobNames DEF SessionInv, JobsKnow
<1>4. loaded' => session'.thread # NoConnection
  BY DEF SessionInv, ThreadIsSaved, rows
<1>5. UNCHANGED <<session, run, latest, prompt>>
  BY DEF rows
<1> QED BY <1>1, <1>2, <1>3, <1>4, <1>5, SameRows, Carried

\* The job of a step and all others.
LEMMA JobUpdate ==
    ASSUME Shape, NEW j \in Jobs, NEW state \in JobState, job' = [job EXCEPT ![j] = state]
    PROVE  /\ job' \in [Jobs -> JobState] /\ job'[j] = state
           /\ \A k \in Jobs \ {j} : job'[k] = job[k]
BY DEF Shape

LEMMA GoesFacts ==
    ASSUME Shape, NEW j \in Jobs, NEW pc \in Steps, Goes(j, pc)
    PROVE  /\ job' \in [Jobs -> JobState]
           /\ \A k \in Jobs \ {j} : job'[k] = job[k]
           /\ pc # "done" => job'[j] = [job[j] EXCEPT !.pc = pc]
           /\ j[1] # "interrupt" /\ pc = "done" => job'[j] = Idle
<1>1. Step(j, pc) \in JobState
  BY IdleState, NextState DEF Step, Shape
<1>2. job' = [job EXCEPT ![j] = Step(j, pc)]
  BY DEF Goes
<1> QED BY <1>1, <1>2, JobUpdate DEF Step

LEMMA EndsFacts ==
    ASSUME Shape, NEW j \in Jobs, j[1] # "interrupt", Ends(j)
    PROVE  /\ job' \in [Jobs -> JobState]
           /\ \A k \in Jobs \ {j} : job'[k] = job[k]
           /\ job'[j].pc \in {"idle", "final"}
           /\ j[1] # "work" => job'[j] = Idle
<1>1. CASE Goes(j, "done")
  BY <1>1, GoesFacts, IdleState DEF Steps
<1>2. CASE Goes(j, "final") /\ j[1] = "work"
  <2>1. job'[j] = [job[j] EXCEPT !.pc = "final"]
    BY <1>2, GoesFacts DEF Steps
  <2>2. job'[j].pc = "final"
    BY <2>1 DEF Shape, JobState
  <2> QED BY <1>2, <2>2, GoesFacts DEF Steps
<1> QED BY <1>1, <1>2 DEF Ends

LEMMA TakesFacts ==
    ASSUME Shape, NEW j \in Jobs, NEW then \in Plans, Takes(j, then)
    PROVE  /\ job' \in [Jobs -> JobState]
           /\ \A k \in Jobs \ {j} : job'[k] = job[k]
           /\ job'[j] = [job[j] EXCEPT !.pc = "closing", !.conn = connection, !.then = then]
           /\ connection' \in Origins /\ ~loaded' /\ loaded' \in BOOLEAN
           /\ Quiet
<1>1. [job[j] EXCEPT !.pc = "closing", !.conn = connection, !.then = then] \in JobState
  <2>1. "closing" \in Steps
    BY DEF Steps
  <2>2. job[j] \in JobState /\ connection \in Origins
    BY DEF Shape
  <2> QED BY <2>1, <2>2, PlanState
<1>2. job' = [job EXCEPT ![j] = [job[j] EXCEPT !.pc = "closing", !.conn = connection, !.then = then]]
  BY DEF Takes, Shape
<1>3. Quiet
  BY EndsAreQuiet DEF Takes, Shape
<1> QED BY <1>1, <1>2, <1>3, JobUpdate DEF Takes, Origins

LEMMA FailsFacts ==
    ASSUME Shape, NEW j \in Jobs, NEW r \in Runs, j[1] # "interrupt", Fails(j, r)
    PROVE  /\ job' \in [Jobs -> JobState]
           /\ \A k \in Jobs \ {j} : job'[k] = job[k]
           /\ \/ BusyWith(r) /\ job'[j].pc = "closing" /\ job'[j].then = "fail" /\ job'[j].run = r
              \/ ~BusyWith(r) /\ job'[j].pc \in {"idle", "final"} /\ (j[1] # "work" => job'[j] = Idle)
           /\ connection' \in Origins /\ loaded' \in BOOLEAN /\ (loaded' => loaded)
           /\ Quiet
<1>1. CASE BusyWith(r)
  <2> DEFINE state == [Idle EXCEPT !.pc = "closing", !.conn = connection,
                                                   !.run = r, !.then = "fail"]
  <2>1. state \in JobState /\ state.pc = "closing" /\ state.then = "fail" /\ state.run = r
    BY DEF Idle, JobState, Steps, Plans, Names, Shape
  <2>2. job' = [job EXCEPT ![j] = state]
    BY <1>1 DEF Fails
  <2> HIDE DEF state
  <2>3. Quiet
    BY <1>1, EndsAreQuiet DEF Fails, Shape
  <2> QED BY <1>1, <2>1, <2>2, <2>3, JobUpdate DEF Fails, Origins
<1>2. CASE ~BusyWith(r)
  <2>1. Ends(j) /\ UNCHANGED <<owner, harness>>
    BY <1>2 DEF Fails
  <2>2. Quiet
    BY <2>1, NothingIsQuiet DEF harness
  <2> QED BY <1>2, <2>1, <2>2, EndsFacts DEF owner, Shape
<1> QED BY <1>1, <1>2

LEMMA OpensFacts ==
    ASSUME Shape, Opens
    PROVE  /\ connection' = opened + 1 /\ opened + 1 \in Connections /\ opened' \in Nat
           /\ UNCHANGED loaded /\ Quiet
<1>1. Quiet
  BY NothingIsQuiet DEF Opens
<1> QED BY <1>1 DEF Opens, Shape, Connections

-----------------------------------------------------------------------------
(* Commands. *)

LEMMA OnlyLatestIsActive ==
    ASSUME SessionInv, NEW r \in Runs, Active(run[r])
    PROVE  BusyWith(r) /\ Busy /\ latest = r /\ ~Deleted
BY DEF SessionInv, RunsAreInOrder, BusyWith, Busy, Active, NoRow

LEMMA BusyIsActive ==
    ASSUME SessionInv, Busy
    PROVE  latest \in Runs /\ Active(run[latest]) /\ ~Deleted
BY DEF SessionInv, Shape, RunsAreInOrder, Busy, Names

\* The run is new, so nothing was sent for it and no other run has its turn.
LEMMA SendStep ==
    ASSUME SessionInv, NEW r \in Runs, Send(r)
    PROVE  GoesWell
<1> USE DEF SessionInv
<1>1. ~Deleted /\ run[r] = NoRow /\ ~Busy /\ inputs[r] = 0
  <2>1. ~Deleted /\ run[r] = NoRow /\ ~Busy
    BY DEF Send, Deleted
  <2> QED BY <2>1 DEF RunsAreInOrder, NoRow
<1>2. \A s \in Runs : ~Active(run[s])
  BY <1>1, OnlyLatestIsActive
<1>3. /\ job' \in [Jobs -> JobState]
      /\ \A k \in Jobs \ {Work(r)} : job'[k] = job[k]
      /\ job'[Work(r)].pc \in {"open", "close", "create", "submit", "resume"}
      /\ job'[Work(r)].pc \in {"create", "resume"} => job'[Work(r)].conn \in Connections
  <2>1. Work(r) \in Jobs /\ job[Work(r)] \in JobState /\ connection \in Origins
    BY JobNames DEF Shape
  <2>2. ASSUME NEW pc \in {"open", "close"}, job' = [job EXCEPT ![Work(r)].pc = pc]
        PROVE  /\ job' \in [Jobs -> JobState]
               /\ \A k \in Jobs \ {Work(r)} : job'[k] = job[k]
               /\ job'[Work(r)].pc = pc
    <3>1. pc \in Steps
      BY DEF Steps
    <3> DEFINE state == [job[Work(r)] EXCEPT !.pc = pc]
    <3>2. state \in JobState /\ state.pc = pc
      BY <2>1, <3>1, NextState
    <3>3. job' = [job EXCEPT ![Work(r)] = state]
      BY <2>2
    <3> HIDE DEF state
    <3> QED BY <2>1, <3>2, <3>3, JobUpdate
  <2>3. ASSUME NEW pc \in {"create", "submit", "resume"}, connection # NoConnection,
               job' = [job EXCEPT ![Work(r)].conn = connection, ![Work(r)].pc = pc]
        PROVE  /\ job' \in [Jobs -> JobState]
               /\ \A k \in Jobs \ {Work(r)} : job'[k] = job[k]
               /\ job'[Work(r)].pc = pc /\ job'[Work(r)].conn \in Connections
    <3>1. pc \in Steps
      BY DEF Steps
    <3> DEFINE state == [job[Work(r)] EXCEPT !.pc = pc, !.conn = connection]
    <3>2. state \in JobState /\ state.pc = pc /\ state.conn = connection
      BY <2>1, <3>1 DEF JobState
    <3>3. job' = [job EXCEPT ![Work(r)] = state]
      BY <2>1, <2>3 DEF Shape
    <3>4. connection \in Connections
      BY <2>1, <2>3 DEF Origins
    <3> HIDE DEF state
    <3> QED BY <2>1, <3>2, <3>3, <3>4, JobUpdate
  <2> QED BY <2>2, <2>3 DEF Send, WorkBegins
<1>4. /\ run' \in [Runs -> Row] /\ latest' = r
      /\ run'[r] = [NoRow EXCEPT !.status = "preparing"]
      /\ \A s \in Runs \ {r} : run'[s] = run[s]
  <2>1. run \in [Runs -> Row] /\ latest' = r /\ run' = [run EXCEPT ![r].status = "preparing"]
    BY DEF Send, Shape
  <2>2. run' = [run EXCEPT ![r] = [NoRow EXCEPT !.status = "preparing"]]
    BY <1>1, <2>1
  <2>3. [NoRow EXCEPT !.status = "preparing"] \in Row
    BY DEF NoRow, Row, RunStatus, Names
  <2> QED BY <2>1, <2>2, <2>3
<1>5. run'[r].turn = None /\ run'[r].status = "preparing" /\ ~run'[r].started
  BY <1>4 DEF NoRow
<1>6. UNCHANGED <<service, session, prompt, owner, harness, counters>>
  BY DEF Send
<1>7. Shape'
  BY <1>3, <1>4, <1>6 DEF Shape, Names, owner, harness, counters
<1>8. JobsKnow'
  <2>1. UNCHANGED <<inputs, session>>
    BY <1>6 DEF harness
  <2>2. \A s \in Runs \ {r} : job'[Work(s)] = job[Work(s)] /\ run'[s] = run[s]
    BY <1>3, <1>4, JobNames
  <2>3. \A s \in Runs \ {r} : (Unsent(s)' <=> Unsent(s)) /\ (Closing(s, "fail")' <=> Closing(s, "fail"))
    BY <2>2 DEF Unsent, Closing
  <2>4. ~Closing(r, "fail")' /\ job'[Work(r)].pc \notin {"taken", "start", "created"}
    BY <1>3 DEF Closing
  <2>5. \A s \in Runs \ {r} : Knows(s)'
    BY <2>1, <2>2, <2>3 DEF JobsKnow, Knows, Deleted
  <2>6. Knows(r)'
    BY <1>1, <1>3, <1>5, <2>1, <2>4 DEF Knows, Deleted
  <2> QED BY <1>1, <2>1, <2>5, <2>6 DEF JobsKnow, Deleted
<1>9. RunsAreInOrder'
  <2>1. Serves(r)'
    BY <1>3 DEF Serves, Unsent
  <2> QED BY <1>1, <1>2, <1>4, <1>5, <1>6, <2>1 DEF RunsAreInOrder, Deleted, harness
<1>10. TurnsAreTold'
  <2>1. \A s \in Runs : run'[s].turn = run[s].turn
    BY <1>1, <1>4, <1>5 DEF NoRow
  <2>2. \A s \in Runs : run[s].turn # r
    BY <1>1 DEF TurnsAreTold
  <2> QED BY <1>4, <1>6, <2>1, <2>2 DEF TurnsAreTold, harness
<1>11. PromptsAreNew' /\ ThreadIsSaved'
  BY <1>6 DEF PromptsAreNew, Announces, ThreadIsSaved, harness, owner
<1>12. StopHolds
  BY <1>1, <1>4, <1>6 DEF StopHolds, NoRow, harness
<1>13. OutcomesStay
  BY <1>1, <1>4, <1>6 DEF OutcomesStay, NoRow
<1> QED BY <1>7, <1>8, <1>9, <1>10, <1>11, <1>12, <1>13 DEF GoesWell

LEMMA StoppedRow ==
    ASSUME SessionInv, NEW r \in Runs, NEW rs, rs = Stopping(r)
    PROVE  /\ rs \in [Runs -> Row] /\ rs[r].status = "stopping"
           /\ rs[r].stop /\ rs[r].started = run[r].started
           /\ \A s \in Runs : rs[s].turn = run[s].turn
           /\ \A s \in Runs \ {r} : rs[s] = run[s]
<1>1. run \in [Runs -> Row] /\ rs = [run EXCEPT ![r] = [run[r] EXCEPT !.stop = TRUE, !.status = "stopping"]]
  BY DEF SessionInv, Shape, Stopping
<1>2. /\ [run[r] EXCEPT !.stop = TRUE, !.status = "stopping"] \in Row
      /\ [run[r] EXCEPT !.stop = TRUE, !.status = "stopping"].status = "stopping"
      /\ [run[r] EXCEPT !.stop = TRUE, !.status = "stopping"].stop = TRUE
      /\ [run[r] EXCEPT !.stop = TRUE, !.status = "stopping"].started = run[r].started
      /\ [run[r] EXCEPT !.stop = TRUE, !.status = "stopping"].turn = run[r].turn
  <2>1. run[r] \in Row
    BY <1>1
  <2> QED BY <2>1 DEF Row, RunStatus
<1> QED BY <1>1, <1>2

\* The run in progress is stopped: of its row only the status and the mark change.
LEMMA StoppedGoesOn ==
    ASSUME SessionInv, NEW r \in Runs, BusyWith(r), run' = Stopping(r)
    PROVE  /\ run' \in [Runs -> Row]
           /\ \A s \in Runs : run'[s].turn = run[s].turn /\ RunGoesOn(s)
<1>1. ~Deleted /\ Active(run[r])
  BY BusyIsActive DEF BusyWith
<1>2. /\ run' \in [Runs -> Row] /\ run'[r].status = "stopping" /\ run'[r].started = run[r].started
      /\ \A s \in Runs : run'[s].turn = run[s].turn
      /\ \A s \in Runs \ {r} : run'[s] = run[s]
  BY StoppedRow
<1>3. RunGoesOn(r)
  BY <1>1, <1>2 DEF RunGoesOn, Active
<1>4. \A s \in Runs \ {r} : RunGoesOn(s)
  BY <1>1, <1>2 DEF RunGoesOn, Active
<1> QED BY <1>2, <1>3, <1>4

LEMMA StopStep ==
    ASSUME SessionInv, NEW r \in Runs, Stop(r)
    PROVE  GoesWell
<1> USE DEF SessionInv
<1>1. /\ BusyWith(r) /\ run' = Stopping(r) /\ ~Deleted
      /\ UNCHANGED <<service, session, latest, prompt, owner, harness, counters>>
  BY BusyIsActive DEF Stop, BusyWith
<1>2. /\ run' \in [Runs -> Row]
      /\ \A s \in Runs : run'[s].turn = run[s].turn /\ RunGoesOn(s)
  BY <1>1, StoppedGoesOn
<1>3. /\ job' \in [Jobs -> JobState] /\ job'[Delete] = job[Delete]
      /\ \A s \in Runs : job'[Work(s)] = job[Work(s)]
  <2>1. job' = WithInterrupt(job, Stopping(r)) /\ job \in [Jobs -> JobState] /\ Shape
    BY DEF Stop, Shape
  <2> QED BY <2>1, InterruptsAside
<1>4. Quiet
  BY <1>1, NothingIsQuiet DEF harness
<1>5. Shape'
  <2>1. /\ Shape
        /\ UNCHANGED <<session, latest, prompt, connection, loaded, opened>>
        /\ UNCHANGED <<events, threadOf, threads, turn, inputs, asked>>
    BY <1>1 DEF owner, harness, counters
  <2> HIDE DEF SessionInv
  <2> QED BY <1>2, <1>3, <2>1 DEF Shape
<1>6. \A s \in Runs : JobGoesOn(s)
  BY <1>1, <1>3 DEF JobGoesOn, Up
<1>7. \A p \in Prompts : PromptGoesOn(p)
  BY <1>1 DEF PromptGoesOn
<1>8. (loaded' => session'.thread # NoConnection) /\ ~Deleted'
  BY <1>1 DEF ThreadIsSaved, owner, Deleted
<1> QED BY <1>1, <1>2, <1>4, <1>5, <1>6, <1>7, <1>8, Carried

LEMMA AnswerBeginsStep ==
    ASSUME SessionInv, NEW p \in Prompts, Answer(p)
    PROVE  GoesWell
<1> USE DEF SessionInv
<1> DEFINE j == Reply(p)
           state == [Idle EXCEPT !.pc = "respond", !.conn = connection]
<1>1. /\ ~Deleted /\ prompt[p].status = "pending"
      /\ prompt' = [prompt EXCEPT ![p].status = "answering"]
      /\ job' = [job EXCEPT ![j] = state]
      /\ UNCHANGED <<service, session, run, latest, owner, harness, counters>>
  BY DEF Answer
<1>2. j \in Jobs /\ j # Delete /\ \A r \in Runs : j # Work(r)
  BY JobNames
<1>3. state \in JobState
  <2>1. "respond" \in Steps /\ connection \in Origins
    BY DEF Steps, Shape
  <2> QED BY <2>1, IdleState, CallState
<1> HIDE DEF state, j
<1>4. job' \in [Jobs -> JobState] /\ \A k \in Jobs \ {j} : job'[k] = job[k]
  BY <1>1, <1>2, <1>3, JobUpdate
<1>5. Quiet
  BY <1>1, NothingIsQuiet DEF harness
<1>6. prompt' \in [Prompts -> PromptRow] /\ \A q \in Prompts : PromptGoesOn(q)
  BY <1>1 DEF Shape, PromptRow, PromptStatus, PromptGoesOn
<1>7. Shape'
  BY <1>1, <1>4, <1>6 DEF Shape, owner, harness, counters
<1>8. \A r \in Runs : JobGoesOn(r)
  BY <1>1, <1>2, <1>4, JobNames DEF JobGoesOn, Up
<1>9. \A r \in Runs : run'[r].turn = run[r].turn /\ RunGoesOn(r)
  BY <1>1 DEF RunGoesOn
<1>10. (loaded' => session'.thread # NoConnection) /\ ~Deleted'
  BY <1>1 DEF ThreadIsSaved, owner, Deleted
<1> QED BY <1>1, <1>5, <1>6, <1>7, <1>8, <1>9, <1>10, Carried

LEMMA DeleteStates ==
    ASSUME Shape, NEW pc \in {"remove", "reconcile"}
    PROVE  DeleteBegins(pc) \in JobState
<1>1. pc \in Steps /\ CallOf(pc) \in Steps /\ "untracked" \in Steps
  BY DEF Steps, CallOf
<1>2. connection \in Origins
  BY DEF Shape
<1>3. [Idle EXCEPT !.pc = "untracked"] \in JobState /\ [Idle EXCEPT !.pc = pc] \in JobState
  BY <1>1, IdleState, NextState
<1>4. [Idle EXCEPT !.pc = CallOf(pc), !.conn = connection] \in JobState
  BY <1>1, <1>2, IdleState, CallState
<1> QED BY <1>3, <1>4 DEF DeleteBegins

LEMMA DeleteSessionStep ==
    ASSUME SessionInv, DeleteSession
    PROVE  GoesWell
<1> USE DEF SessionInv
<1>1. PICK pc \in {"remove", "reconcile"} : job' = [job EXCEPT ![Delete] = DeleteBegins(pc)]
  BY DEF DeleteSession
<1>2. /\ ~Deleted /\ ~Deleted' /\ session' \in SessionRow /\ session'.thread = session.thread
      /\ UNCHANGED <<service, run, latest, prompt, owner, harness, counters>>
  BY DEF DeleteSession, Deleted, Shape, SessionRow
<1>3. job' \in [Jobs -> JobState] /\ \A k \in Jobs \ {Delete} : job'[k] = job[k]
  BY <1>1, JobNames, DeleteStates, JobUpdate
<1>4. Quiet
  BY <1>2, NothingIsQuiet DEF harness
<1>5. Shape'
  BY <1>2, <1>3 DEF Shape, owner, harness, counters
<1>6. \A r \in Runs : JobGoesOn(r)
  BY <1>2, <1>3, JobNames DEF JobGoesOn, Up
<1>7. /\ \A r \in Runs : run'[r].turn = run[r].turn /\ RunGoesOn(r)
      /\ \A p \in Prompts : PromptGoesOn(p)
  BY <1>2 DEF RunGoesOn, PromptGoesOn
<1>8. loaded' => session'.thread # NoConnection
  BY <1>2 DEF ThreadIsSaved, owner
<1> QED BY <1>2, <1>4, <1>5, <1>6, <1>7, <1>8, Carried

-----------------------------------------------------------------------------
(* What follows a close. *)

LEMMA ExpiredFacts ==
    ASSUME Shape, prompt' = Expired
    PROVE  /\ prompt' \in [Prompts -> PromptRow]
           /\ \A p \in Prompts : PromptGoesOn(p)
<1>1. /\ Settled("expired") \in PromptRow /\ Settled("expired").status = "expired"
  BY DEF Settled, NoPrompt, PromptRow, PromptStatus, Origins, Names
<1>2. \A p \in Prompts : prompt'[p] = IF IsOpen(prompt[p]) THEN Settled("expired") ELSE prompt[p]
  BY DEF Expired
<1>3. prompt' \in [Prompts -> PromptRow]
  BY <1>1 DEF Expired, Shape
<1>4. \A p \in Prompts : PromptGoesOn(p)
  BY <1>1, <1>2 DEF PromptGoesOn, IsOpen
<1> QED BY <1>3, <1>4

\* A run that is unfinished ends, and no other row changes.
Final == {"completed", "failed", "interrupted"}

LEMMA EndedGoesOn ==
    ASSUME SessionInv, NEW r \in Runs, Active(run[r]), NEW status \in Final,
           run' = [run EXCEPT ![r].status = status]
    PROVE  /\ run' \in [Runs -> Row] /\ ~Active(run'[r])
           /\ \A s \in Runs : run'[s].turn = run[s].turn /\ RunGoesOn(s)
           /\ \A s \in Runs : ~Active(run'[s])
<1> USE DEF SessionInv
<1>1. ~Deleted /\ latest = r
  BY OnlyLatestIsActive
<1>2. /\ run' \in [Runs -> Row] /\ run'[r].status = status
      /\ run'[r].started = run[r].started /\ run'[r].turn = run[r].turn
      /\ \A s \in Runs \ {r} : run'[s] = run[s]
  <2>1. run \in [Runs -> Row] /\ run[r] \in Row
    BY DEF Shape
  <2>2. run' = [run EXCEPT ![r] = [run[r] EXCEPT !.status = status]]
    OBVIOUS
  <2>3. status \in RunStatus
    BY DEF Final, RunStatus
  <2>4. /\ [run[r] EXCEPT !.status = status] \in Row
        /\ [run[r] EXCEPT !.status = status].status = status
        /\ [run[r] EXCEPT !.status = status].started = run[r].started
        /\ [run[r] EXCEPT !.status = status].turn = run[r].turn
    BY <2>1, <2>3 DEF Row
  <2> QED BY <2>1, <2>2, <2>4
<1>3. ~Active(run'[r])
  BY <1>2 DEF Active, Final
<1>4. \A s \in Runs \ {r} : ~Active(run[s])
  BY <1>1, OnlyLatestIsActive
<1>5. RunGoesOn(r)
  BY <1>1, <1>2, <1>3 DEF RunGoesOn, Active, Final
<1>6. \A s \in Runs \ {r} : RunGoesOn(s)
  BY <1>1, <1>2 DEF RunGoesOn
<1> QED BY <1>2, <1>3, <1>4, <1>5, <1>6

LEMMA ClosedFacts ==
    ASSUME SessionInv, NEW j \in Jobs, NEW status \in {"ready", "deleting", "delete_uncertain"},
           Closed(j, IF Deleted THEN "gone" ELSE status)
    PROVE  /\ session' \in SessionRow /\ (Deleted' <=> Deleted) /\ Quiet
           /\ prompt' \in [Prompts -> PromptRow] /\ \A p \in Prompts : PromptGoesOn(p)
           /\ loaded' => session'.thread # NoConnection
           /\ UNCHANGED <<service, owner, harness, counters>>
<1> USE DEF SessionInv
<1>1. UNCHANGED <<service, owner, harness, counters>> /\ prompt' = Expired
  BY DEF Closed
<1>2. LateThread(j) \in Origins /\ (session.thread # NoConnection => LateThread(j) = session.thread)
  BY DEF LateThread, Shape, JobState, SessionRow, Origins
<1>3. /\ session'.status = (IF Deleted THEN "gone" ELSE status)
      /\ session'.thread = LateThread(j)
      /\ session' = [status |-> IF Deleted THEN "gone" ELSE status, thread |-> LateThread(j)]
  BY DEF Closed
<1>4. session' \in SessionRow /\ (Deleted' <=> Deleted)
  BY <1>2, <1>3 DEF SessionRow, Deleted
<1>5. loaded' => session'.thread # NoConnection
  BY <1>1, <1>2, <1>3 DEF ThreadIsSaved, owner
<1>6. Quiet
  BY <1>1, NothingIsQuiet DEF harness
<1> QED BY <1>1, <1>4, <1>5, <1>6, ExpiredFacts

\* The caller of a close goes on: its job moves, and perhaps the run in progress ends.
LEMMA AfterClose ==
    ASSUME SessionInv, NEW j \in Jobs, NEW status \in {"ready", "deleting", "delete_uncertain"},
           Closed(j, IF Deleted THEN "gone" ELSE status), UNCHANGED latest,
           run' \in [Runs -> Row],
           \A r \in Runs : run'[r].turn = run[r].turn /\ RunGoesOn(r),
           job' \in [Jobs -> JobState], \A k \in Jobs \ {j} : job'[k] = job[k],
           \A r \in Runs : j = Work(r) => Knows(r)' /\ (Active(run'[r]) => Serves(r)'),
           j = Delete => ~Deleted
    PROVE  GoesWell
<1> USE DEF SessionInv
<1>1. /\ session' \in SessionRow /\ (Deleted' <=> Deleted) /\ Quiet
      /\ prompt' \in [Prompts -> PromptRow] /\ \A p \in Prompts : PromptGoesOn(p)
      /\ loaded' => session'.thread # NoConnection
      /\ UNCHANGED <<service, owner, harness, counters>>
  BY ClosedFacts
<1>2. Shape'
  BY <1>1 DEF Shape, owner, harness, counters
<1>3. \A r \in Runs : JobGoesOn(r)
  <2> TAKE r \in Runs
  <2>1. CASE j = Work(r)
    BY <2>1 DEF JobGoesOn
  <2>2. CASE j # Work(r)
    BY <1>1, <2>2, JobNames DEF JobGoesOn, Up
  <2> QED BY <2>1, <2>2
<1>4. Deleted => job'[Delete].pc = "idle"
  BY JobNames DEF JobsKnow
<1> QED BY <1>1, <1>2, <1>3, <1>4, Carried

LEMMA StatusKept ==
    ASSUME Shape, NEW j \in Jobs, Closed(j, session.status)
    PROVE  \E status \in {"ready", "deleting", "delete_uncertain"} :
             Closed(j, IF Deleted THEN "gone" ELSE status)
<1>1. session.status \in {"ready", "deleting", "delete_uncertain", "gone"}
  BY DEF Shape, SessionRow
<1>2. session.status = (IF Deleted THEN "gone" ELSE session.status)
  BY DEF Deleted
<1>3. CASE Deleted
  BY <1>3 DEF Deleted
<1>4. CASE ~Deleted
  BY <1>1, <1>4 DEF Deleted
<1> QED BY <1>3, <1>4

LEMMA SameRuns ==
    ASSUME Shape, UNCHANGED run
    PROVE  run' \in [Runs -> Row] /\ \A r \in Runs : run'[r].turn = run[r].turn /\ RunGoesOn(r)
BY DEF Shape, RunGoesOn

LEMMA DeletedIsIdle ==
    ASSUME SessionInv, job[Delete].pc # "idle"
    PROVE  ~Deleted
BY DEF SessionInv, JobsKnow

LEMMA CloseReturnsStep ==
    ASSUME SessionInv, NEW j \in Jobs, CloseReturns(j)
    PROVE  GoesWell
<1> USE DEF SessionInv
<1> DEFINE state == IF job[j].then = "open" THEN [Idle EXCEPT !.pc = "open"] ELSE Step(j, "done")
<1>1. /\ Up /\ job[j].pc = "closing" /\ job[j].then \in {"open", "done"}
      /\ Closed(j, session.status) /\ UNCHANGED <<run, latest>>
      /\ job' = [job EXCEPT ![j] = state]
  BY DEF CloseReturns, Closes, At
<1>2. "open" \in Steps /\ "done" \in Steps /\ job[j] \in JobState
  BY DEF Steps, Shape
<1>3. [Idle EXCEPT !.pc = "open"] \in JobState /\ [Idle EXCEPT !.pc = "open"].pc = "open"
  BY <1>2, IdleState, NextState
<1>4. Step(j, "done") \in JobState
  BY <1>2, IdleState, NextState DEF Step
<1>5. state \in JobState
  BY <1>3, <1>4
<1>6. ASSUME NEW r \in Runs, j = Work(r)
      PROVE  /\ job[j].then = "open" => state.pc = "open" /\ Unsent(r)
             /\ job[j].then # "open" => state.pc = "idle" /\ ~Serves(r)
  <2>1. j[1] # "interrupt"
    BY <1>6, JobNames
  <2>2. Step(j, "done") = Idle
    BY <2>1 DEF Step
  <2> QED BY <1>1, <1>3, <1>6, <2>2, IdleState DEF Unsent, Serves, Closing
<1> HIDE DEF state
<1>7. job' \in [Jobs -> JobState] /\ job'[j] = state /\ \A k \in Jobs \ {j} : job'[k] = job[k]
  BY <1>1, <1>5, JobUpdate
<1>8. PICK status \in {"ready", "deleting", "delete_uncertain"} :
        Closed(j, IF Deleted THEN "gone" ELSE status)
  BY <1>1, StatusKept
<1>9. ASSUME NEW r \in Runs, j = Work(r)
      PROVE  Knows(r)' /\ (Active(run'[r]) => Serves(r)')
  <2>1. UNCHANGED inputs /\ (Deleted' <=> Deleted)
    BY <1>8, ClosedFacts DEF harness
  <2>2. run[r].status # "absent" \/ Deleted
    BY <1>1, <1>9 DEF JobsKnow, Knows
  <2>3. CASE job[j].then = "open"
    <3>1. job'[Work(r)].pc = "open" /\ inputs[r] = 0
      BY <1>6, <1>7, <1>9, <2>3 DEF JobsKnow, Knows
    <3> QED BY <1>1, <2>1, <2>2, <3>1 DEF Knows, Serves, Unsent, Closing
  <2>4. CASE job[j].then # "open"
    <3>1. job'[Work(r)].pc = "idle" /\ ~Active(run[r])
      BY <1>1, <1>6, <1>7, <1>9, <2>4 DEF RunsAreInOrder
    <3> QED BY <1>1, <2>1, <2>2, <3>1 DEF Knows, Serves, Unsent, Closing
  <2> QED BY <2>3, <2>4
<1>10. j = Delete => ~Deleted
  BY <1>1, DeletedIsIdle
<1> QED BY <1>1, <1>7, <1>8, <1>9, <1>10, SameRuns, AfterClose

LEMMA FailFinishesStep ==
    ASSUME SessionInv, NEW j \in Jobs, FailFinishes(j)
    PROVE  GoesWell
<1> USE DEF SessionInv
<1> DEFINE r == job[j].run
           state == IF Accepting \/ j[1] # "work" THEN Idle ELSE [Idle EXCEPT !.pc = "final"]
<1>1. /\ Up /\ job[j].pc = "closing" /\ job[j].then = "fail"
      /\ Closed(j, session.status) /\ UNCHANGED latest
      /\ job' = [job EXCEPT ![j] = state]
      /\ run' = IF ~BusyWith(r) THEN run ELSE
                [run EXCEPT ![r].status = IF run[r].stop THEN "interrupted" ELSE "failed"]
  BY DEF FailFinishes, Closes, At
<1>2. state \in JobState /\ state.pc \in {"idle", "final"}
  <2>1. "final" \in Steps
    BY DEF Steps
  <2>2. [Idle EXCEPT !.pc = "final"] \in JobState /\ [Idle EXCEPT !.pc = "final"].pc = "final"
    BY <2>1, IdleState, NextState
  <2> QED BY <2>2, IdleState
<1> HIDE DEF state
<1>3. job' \in [Jobs -> JobState] /\ job'[j] = state /\ \A k \in Jobs \ {j} : job'[k] = job[k]
  BY <1>1, <1>2, JobUpdate
<1>4. /\ run' \in [Runs -> Row]
      /\ \A s \in Runs : run'[s].turn = run[s].turn /\ RunGoesOn(s)
      /\ r \in Runs => ~Active(run'[r])
  <2>1. CASE BusyWith(r)
    <3>1. r \in Runs /\ Active(run[r])
      BY <2>1, BusyIsActive DEF BusyWith
    <3>2. PICK status \in Final : run' = [run EXCEPT ![r].status = status]
      BY <1>1, <2>1 DEF Final
    <3> QED BY <3>1, <3>2, EndedGoesOn
  <2>2. CASE ~BusyWith(r)
    BY <1>1, <2>2, SameRuns, OnlyLatestIsActive
  <2> QED BY <2>1, <2>2
<1>5. PICK status \in {"ready", "deleting", "delete_uncertain"} :
        Closed(j, IF Deleted THEN "gone" ELSE status)
  BY <1>1, StatusKept
<1>6. ASSUME NEW s \in Runs, j = Work(s)
      PROVE  Knows(s)' /\ (Active(run'[s]) => Serves(s)')
  <2>1. UNCHANGED inputs /\ (Deleted' <=> Deleted)
    BY <1>5, ClosedFacts DEF harness
  <2>2. (run[s].status # "absent" \/ Deleted) /\ r = s
    BY <1>1, <1>6 DEF JobsKnow, Knows, Closing
  <2>3. job'[Work(s)].pc \in {"idle", "final"} /\ ~Active(run'[s])
    BY <1>2, <1>3, <1>4, <1>6, <2>2
  <2>4. run'[s].status # "absent" \/ Deleted'
    BY <1>4, <2>1, <2>2 DEF RunGoesOn
  <2> QED BY <2>1, <2>3, <2>4 DEF Knows, Unsent, Closing
<1>7. j = Delete => ~Deleted
  BY <1>1, DeletedIsIdle
<1> QED BY <1>1, <1>3, <1>4, <1>5, <1>6, <1>7, AfterClose

LEMMA ShutdownFinishesStep ==
    ASSUME SessionInv, ShutdownFinishes
    PROVE  GoesWell
<1> USE DEF SessionInv
<1>1. /\ Closed(Shutdown, session.status) /\ UNCHANGED latest /\ Goes(Shutdown, "gather")
      /\ run' = IF Busy THEN [run EXCEPT ![latest].status = "interrupted"] ELSE run
  BY DEF ShutdownFinishes
<1>2. /\ run' \in [Runs -> Row]
      /\ \A s \in Runs : run'[s].turn = run[s].turn /\ RunGoesOn(s)
  <2>1. CASE Busy
    <3>1. "interrupted" \in Final
      BY DEF Final
    <3> QED BY <1>1, <2>1, <3>1, BusyIsActive, EndedGoesOn
  <2>2. CASE ~Busy
    BY <1>1, <2>2, SameRuns
  <2> QED BY <2>1, <2>2
<1>3. /\ Shutdown \in Jobs /\ Shutdown # Delete /\ \A r \in Runs : Shutdown # Work(r)
      /\ job' \in [Jobs -> JobState] /\ \A k \in Jobs \ {Shutdown} : job'[k] = job[k]
  <2>1. "gather" \in Steps
    BY DEF Steps
  <2> QED BY <1>1, <2>1, JobNames, GoesFacts
<1>4. PICK status \in {"ready", "deleting", "delete_uncertain"} :
        Closed(Shutdown, IF Deleted THEN "gone" ELSE status)
  BY <1>1, <1>3, StatusKept
<1> QED BY <1>1, <1>2, <1>3, <1>4, AfterClose

LEMMA DeleteDecidesStep ==
    ASSUME SessionInv, DeleteDecides
    PROVE  GoesWell
<1> USE DEF SessionInv
<1>1. PICK then \in {"keep", "unsure", "check"} :
        /\ Closes(Delete, then)
        /\ Closed(Delete, IF then = "keep" THEN "ready" ELSE "delete_uncertain")
        /\ job' = [job EXCEPT ![Delete] = IF then = "check" THEN DeleteBegins("reconcile") ELSE Idle]
        /\ UNCHANGED <<run, latest>>
  BY DEF DeleteDecides
<1>2. ~Deleted
  BY <1>1, DeletedIsIdle DEF Closes, At
<1> DEFINE status == IF then = "keep" THEN "ready" ELSE "delete_uncertain"
           state == IF then = "check" THEN DeleteBegins("reconcile") ELSE Idle
<1>3. status \in {"ready", "deleting", "delete_uncertain"}
  OBVIOUS
<1>4. Closed(Delete, IF Deleted THEN "gone" ELSE status)
  BY <1>1, <1>2
<1>5. state \in JobState
  BY DeleteStates, IdleState
<1>6. job' = [job EXCEPT ![Delete] = state]
  BY <1>1
<1> HIDE DEF status, state
<1>7. /\ Delete \in Jobs /\ \A r \in Runs : Delete # Work(r)
      /\ job' \in [Jobs -> JobState] /\ \A k \in Jobs \ {Delete} : job'[k] = job[k]
  BY <1>5, <1>6, JobNames, JobUpdate
<1> QED BY <1>1, <1>2, <1>3, <1>4, <1>7, SameRuns, AfterClose

\* The tombstone: every row goes, and nothing is left to do.
LEMMA DeleteForgetsStep ==
    ASSUME SessionInv, DeleteForgets
    PROVE  GoesWell
<1> USE DEF SessionInv
<1>1. /\ job[Delete].pc = "closing" /\ Goes(Delete, "done")
      /\ session' = [status |-> "gone", thread |-> LateThread(Delete)]
      /\ run' = [r \in Runs |-> NoRow] /\ latest' = None
      /\ prompt' = [p \in Prompts |-> NoPrompt]
      /\ UNCHANGED <<service, owner, harness, counters>>
  BY DEF DeleteForgets, Closes, At
<1>2. LateThread(Delete) \in Origins
      /\ (session.thread # NoConnection => LateThread(Delete) = session.thread)
  BY JobNames DEF LateThread, Shape, JobState, SessionRow, Origins
<1>3. session' \in SessionRow /\ Deleted' /\ session'.thread = LateThread(Delete)
  BY <1>1, <1>2 DEF SessionRow, Deleted
<1>4. /\ job' \in [Jobs -> JobState] /\ \A k \in Jobs \ {Delete} : job'[k] = job[k]
      /\ job'[Delete] = Idle
  <2>1. "done" \in Steps
    BY DEF Steps
  <2> QED BY <1>1, <2>1, JobNames, GoesFacts
<1>5. /\ NoRow \in Row /\ NoRow.turn = None /\ NoRow.status = "absent" /\ ~NoRow.started
      /\ NoPrompt \in PromptRow /\ NoPrompt.status = "absent"
  BY DEF NoRow, Row, RunStatus, NoPrompt, PromptRow, PromptStatus, Origins, Names
<1>6. Shape'
  BY <1>1, <1>3, <1>4, <1>5 DEF Shape, owner, harness, counters, Names
<1>7. \A r \in Runs : job'[Work(r)] = job[Work(r)]
  BY <1>4, JobNames
<1>8. JobsKnow'
  BY <1>1, <1>3, <1>4, <1>7, IdleState DEF JobsKnow, Knows, Unsent, Closing, harness
<1>9. RunsAreInOrder'
  BY <1>1, <1>3, <1>5 DEF RunsAreInOrder, Active, harness
<1>10. TurnsAreTold'
  BY <1>1, <1>5 DEF TurnsAreTold, harness
<1>11. PromptsAreNew'
  BY <1>1, <1>5 DEF PromptsAreNew, Announces, harness
<1>12. ThreadIsSaved'
  BY <1>1, <1>2, <1>3 DEF ThreadIsSaved, owner
<1>13. StopHolds /\ OutcomesStay
  BY <1>1, <1>3, <1>5 DEF StopHolds, OutcomesStay, harness
<1> QED BY <1>6, <1>8, <1>9, <1>10, <1>11, <1>12, <1>13 DEF GoesWell

-----------------------------------------------------------------------------
(* Jobs that only move: they close a connection, fail, or call. *)

LEMMA TakesStep ==
    ASSUME SessionInv, NEW j \in Jobs, NEW then \in Plans, Takes(j, then),
           \A r \in Runs : j = Work(r) =>
             \/ then = "open" /\ Unsent(r)
             \/ then = "done" /\ ~Serves(r) /\ Up /\ job[j].pc # "idle",
           j = Delete => ~Deleted,
           UNCHANGED <<service, rows, counters>>
    PROVE  GoesWell
<1> USE DEF SessionInv
<1>1. /\ job' \in [Jobs -> JobState]
      /\ \A k \in Jobs \ {j} : job'[k] = job[k]
      /\ job'[j] = [job[j] EXCEPT !.pc = "closing", !.conn = connection, !.then = then]
      /\ connection' \in Origins /\ ~loaded' /\ loaded' \in BOOLEAN
      /\ Quiet
  BY TakesFacts
<1>2. job'[j].pc = "closing" /\ job'[j].then = then
  <2>1. "closing" \in Steps /\ job[j] \in JobState /\ connection \in Origins
    BY DEF Steps, Shape
  <2> QED BY <1>1, <2>1 DEF JobState
<1>3. ASSUME NEW r \in Runs, j = Work(r)
      PROVE  Knows(r)' /\ (Active(run[r]) => Serves(r)')
  <2>1. UNCHANGED <<inputs, session, run>>
    BY <1>1 DEF Quiet, rows
  <2>2. CASE then = "open" /\ Unsent(r)
    <3>1. inputs[r] = 0 /\ (run[r].status # "absent" \/ Deleted)
      BY <2>2 DEF JobsKnow, Knows, Unsent, Closing
    <3> QED BY <1>2, <1>3, <2>1, <2>2, <3>1 DEF Knows, Serves, Unsent, Closing, Deleted
  <2>3. CASE then = "done" /\ ~Serves(r) /\ Up /\ job[j].pc # "idle"
    <3>1. ~Active(run[r]) /\ (run[r].status # "absent" \/ Deleted)
      BY <1>3, <2>3 DEF JobsKnow, Knows, RunsAreInOrder
    <3> QED BY <1>2, <1>3, <2>1, <2>3, <3>1 DEF Knows, Unsent, Closing, Deleted
  <2> QED BY <1>3, <2>2, <2>3
<1>4. opened' \in Nat
  BY DEF counters, Shape
<1> QED BY <1>1, <1>3, <1>4, OnlyAJob

LEMMA FailsStep ==
    ASSUME SessionInv, NEW r \in Runs, job[Work(r)].pc # "idle", Fails(Work(r), r),
           UNCHANGED <<service, rows, counters>>
    PROVE  GoesWell
<1> USE DEF SessionInv
<1> DEFINE j == Work(r)
<1>1. j \in Jobs /\ j # Delete /\ j[1] # "interrupt" /\ \A s \in Runs : j = Work(s) => s = r
  BY JobNames
<1>2. /\ job' \in [Jobs -> JobState]
      /\ \A k \in Jobs \ {j} : job'[k] = job[k]
      /\ \/ BusyWith(r) /\ job'[j].pc = "closing" /\ job'[j].then = "fail" /\ job'[j].run = r
         \/ ~BusyWith(r) /\ job'[j].pc \in {"idle", "final"}
      /\ connection' \in Origins /\ loaded' \in BOOLEAN /\ (loaded' => loaded)
      /\ Quiet
  BY <1>1, FailsFacts
<1>3. Knows(r)' /\ (Active(run[r]) => Serves(r)')
  <2>1. UNCHANGED <<inputs, session, run>>
    BY <1>2 DEF Quiet, rows
  <2>2. run[r].status # "absent" \/ Deleted
    BY DEF JobsKnow, Knows
  <2>3. Active(run[r]) => BusyWith(r)
    BY OnlyLatestIsActive
  <2> QED BY <1>2, <2>1, <2>2, <2>3 DEF Knows, Serves, Unsent, Closing, Deleted
<1>4. opened' \in Nat
  BY DEF counters, Shape
<1> HIDE DEF j
<1> QED BY <1>1, <1>2, <1>3, <1>4, OnlyAJob

\* A job of no run goes on, and a call of its own changes what the harness knows.
LEMMA GoesStep ==
    ASSUME SessionInv, NEW j \in Jobs, NEW pc \in Steps, Goes(j, pc),
           \A r \in Runs : j # Work(r), job[j].pc # "idle",
           Quiet, connection' \in Origins, loaded' \in BOOLEAN, loaded' => loaded,
           UNCHANGED <<service, rows, counters>>
    PROVE  GoesWell
<1>1. /\ job' \in [Jobs -> JobState] /\ \A k \in Jobs \ {j} : job'[k] = job[k]
  BY GoesFacts DEF SessionInv
<1>2. opened' \in Nat
  BY DEF counters, Shape, SessionInv
<1>3. j = Delete => ~Deleted
  BY DeletedIsIdle
<1> QED BY <1>1, <1>2, <1>3, OnlyAJob

LEMMA WorkClosesStep ==
    ASSUME SessionInv, NEW r \in Runs, WorkCloses(r)
    PROVE  GoesWell
<1>1. "open" \in Plans
  BY DEF Plans
<1>2. Takes(Work(r), "open") /\ Unsent(r) /\ UNCHANGED <<service, rows, counters>>
  BY DEF WorkCloses, At, Unsent
<1>3. Work(r) \in Jobs /\ Work(r) # Delete /\ \A s \in Runs : Work(r) = Work(s) => s = r
  BY JobNames
<1> QED BY <1>1, <1>2, <1>3, TakesStep

LEMMA JobEndsStep ==
    ASSUME SessionInv, NEW j \in Jobs, JobEnds(j)
    PROVE  GoesWell
<1>1. "done" \in Plans
  BY DEF Plans
<1>2. Takes(j, "done") /\ Up /\ job[j].pc = "final" /\ UNCHANGED <<service, rows, counters>>
  BY DEF JobEnds, At
<1>3. \A r \in Runs : j = Work(r) => ~Serves(r)
  BY <1>2 DEF Serves, Unsent, Closing
<1>4. j = Delete => ~Deleted
  BY <1>2, DeletedIsIdle
<1> QED BY <1>1, <1>2, <1>3, <1>4, TakesStep

LEMMA WorkCallFailsStep ==
    ASSUME SessionInv, NEW r \in Runs, WorkCallFails(r)
    PROVE  GoesWell
BY FailsStep DEF WorkCallFails

LEMMA WorkWaitsStep ==
    ASSUME SessionInv, NEW r \in Runs, WorkWaits(r)
    PROVE  GoesWell
<1>1. ~BusyWith(r)
  BY BusyIsActive DEF WorkWaits, BusyWith
<1>2. Fails(Work(r), r)
  BY <1>1 DEF Fails, WorkWaits
<1> QED BY <1>2, FailsStep DEF WorkWaits, At

LEMMA AnswerFailsStep ==
    ASSUME SessionInv, NEW p \in Prompts, AnswerFails(p)
    PROVE  GoesWell
<1> USE DEF SessionInv
<1> DEFINE j == Reply(p)
<1>1. j \in Jobs /\ j # Delete /\ j[1] # "interrupt" /\ \A r \in Runs : j # Work(r)
  BY JobNames
<1>2. CASE Busy
  <2>1. latest \in Runs /\ Fails(j, latest)
    BY <1>2, BusyIsActive DEF AnswerFails
  <2>2. UNCHANGED <<service, rows, counters>>
    BY DEF AnswerFails
  <2> HIDE DEF j
  <2>3. /\ job' \in [Jobs -> JobState] /\ \A k \in Jobs \ {j} : job'[k] = job[k]
        /\ connection' \in Origins /\ loaded' \in BOOLEAN /\ (loaded' => loaded) /\ Quiet
    BY <1>1, <2>1, FailsFacts
  <2>4. opened' \in Nat
    BY <2>2 DEF counters, Shape
  <2> QED BY <1>1, <2>2, <2>3, <2>4, OnlyAJob
<1>3. CASE ~Busy
  <2>1. Takes(j, "done") /\ UNCHANGED <<service, rows, counters>>
    BY <1>3 DEF AnswerFails
  <2>2. "done" \in Plans
    BY DEF Plans
  <2> HIDE DEF j
  <2> QED BY <1>1, <2>1, <2>2, TakesStep
<1> QED BY <1>2, <1>3

LEMMA InterruptGivesUpStep ==
    ASSUME SessionInv, NEW r \in Runs, InterruptGivesUp(r)
    PROVE  GoesWell
<1> USE DEF SessionInv
<1> DEFINE j == Interrupt(r)
<1>1. j \in Jobs /\ \A s \in Runs : j # Work(s)
  BY JobNames
<1>2. job[j].pc # "idle" /\ UNCHANGED <<service, rows, counters>>
  BY DEF InterruptGivesUp, At
<1>3. "killing" \in Steps /\ "done" \in Steps
  BY DEF Steps
<1>4. CASE connection = job[j].conn /\ BusyWith(r)
  <2>1. connection' = NoConnection /\ loaded' = FALSE /\ LinkEnds(connection) /\ Goes(j, "killing")
    BY <1>4 DEF InterruptGivesUp
  <2>2. Quiet /\ connection' \in Origins
    BY <2>1, EndsAreQuiet DEF Shape, Origins
  <2> HIDE DEF j
  <2> QED BY <1>1, <1>2, <1>3, <2>1, <2>2, GoesStep
<1>5. CASE ~(connection = job[j].conn /\ BusyWith(r))
  <2>1. Goes(j, "done") /\ UNCHANGED <<owner, harness>>
    BY <1>5 DEF InterruptGivesUp
  <2>2. Quiet /\ connection' \in Origins /\ loaded' \in BOOLEAN /\ (loaded' => loaded)
    BY <2>1, NothingIsQuiet DEF harness, owner, Shape
  <2> HIDE DEF j
  <2> QED BY <1>1, <1>2, <1>3, <2>1, <2>2, GoesStep
<1> QED BY <1>4, <1>5

LEMMA HarnessDeletesStep ==
    ASSUME SessionInv, HarnessDeletes
    PROVE  GoesWell
<1> USE DEF SessionInv
<1>1. /\ Goes(Delete, "removed") /\ job[Delete].pc # "idle"
      /\ threads' = threads \ {session.thread}
      /\ UNCHANGED <<service, rows, owner, counters, events, threadOf, turn, inputs, asked>>
  BY DEF HarnessDeletes, At
<1>2. Quiet
  BY <1>1 DEF Quiet, Shape
<1>3. "removed" \in Steps
  BY DEF Steps
<1>4. connection' \in Origins /\ loaded' \in BOOLEAN /\ (loaded' => loaded)
  BY <1>1 DEF owner, Shape
<1> QED BY <1>1, <1>2, <1>3, <1>4, JobNames, GoesStep

LEMMA DeleteTakesStep ==
    ASSUME SessionInv, NEW then \in Plans, Takes(Delete, then), job[Delete].pc # "idle",
           UNCHANGED <<service, rows, counters>>
    PROVE  GoesWell
<1>1. Delete \in Jobs /\ (\A r \in Runs : Delete # Work(r)) /\ ~Deleted
  BY JobNames, DeletedIsIdle
<1> QED BY <1>1, TakesStep

LEMMA DeleteCallFailsStep ==
    ASSUME SessionInv, DeleteCallFails
    PROVE  GoesWell
<1>1. "check" \in Plans /\ "unsure" \in Plans
  BY DEF Plans
<1>2. job[Delete].pc # "idle" /\ UNCHANGED <<service, rows, counters>>
      /\ (Takes(Delete, "check") \/ Takes(Delete, "unsure"))
  BY DEF DeleteCallFails, At
<1> QED BY <1>1, <1>2, DeleteTakesStep

LEMMA DeleteLearnsStep ==
    ASSUME SessionInv, DeleteLearns
    PROVE  GoesWell
<1>1. "check" \in Plans /\ "keep" \in Plans /\ "forget" \in Plans
  BY DEF Plans
<1>2. job[Delete].pc # "idle" /\ UNCHANGED <<service, rows, counters>>
      /\ (Takes(Delete, "check") \/ Takes(Delete, "keep") \/ Takes(Delete, "forget"))
  BY DEF DeleteLearns, At
<1> QED BY <1>1, <1>2, DeleteTakesStep

LEMMA DeleteConnectsStep ==
    ASSUME SessionInv, DeleteConnects
    PROVE  GoesWell
<1> USE DEF SessionInv
<1>1. CASE At(Delete, "untracked") /\ Takes(Delete, "forget") /\ UNCHANGED <<service, rows, counters>>
  <2>1. "forget" \in Plans /\ job[Delete].pc # "idle"
    BY <1>1 DEF Plans, At
  <2> QED BY <1>1, <2>1, DeleteTakesStep
<1>2. ASSUME NEW pc \in {"remove", "reconcile"}, At(Delete, pc), Opens,
             job' = [job EXCEPT ![Delete].pc = CallOf(pc), ![Delete].conn = opened + 1],
             UNCHANGED <<service, rows>>
      PROVE  GoesWell
  <2>1. /\ connection' = opened + 1 /\ opened + 1 \in Connections /\ opened' \in Nat
        /\ UNCHANGED loaded /\ Quiet
    BY <1>2, OpensFacts
  <2>2. opened + 1 \in Origins /\ loaded \in BOOLEAN
    BY <2>1 DEF Origins, Shape
  <2>3. CallOf(pc) \in Steps /\ job[Delete] \in JobState
    BY JobNames DEF Steps, CallOf, Shape
  <2> DEFINE state == [job[Delete] EXCEPT !.pc = CallOf(pc), !.conn = opened + 1]
  <2>4. state \in JobState
    BY <2>2, <2>3 DEF JobState
  <2>5. job' = [job EXCEPT ![Delete] = state]
    BY <1>2, JobNames DEF Shape
  <2> HIDE DEF state
  <2>6. job' \in [Jobs -> JobState] /\ \A k \in Jobs \ {Delete} : job'[k] = job[k]
    BY <2>4, <2>5, JobNames, JobUpdate
  <2>7. ~Deleted
    BY <1>2, DeletedIsIdle DEF At
  <2> QED BY <1>2, <2>1, <2>2, <2>6, <2>7, JobNames, OnlyAJob
<1> QED BY <1>1, <1>2 DEF DeleteConnects

LEMMA ShutdownWaitsStep ==
    ASSUME SessionInv, ShutdownWaits
    PROVE  GoesWell
<1>1. "finish" \in Plans
  BY DEF Plans
<1> QED BY <1>1, JobNames, TakesStep DEF ShutdownWaits

LEMMA LinkDiesStep ==
    ASSUME SessionInv, NEW g \in Connections, LinkDies(g)
    PROVE  GoesWell
<1>1. /\ Quiet /\ UNCHANGED <<service, rows, owner, job, counters>>
  BY EndsAreQuiet DEF LinkDies, SessionInv, Origins
<1>2. job' \in [Jobs -> JobState] /\ connection' \in Origins /\ loaded' \in BOOLEAN
      /\ opened' \in Nat /\ (loaded' => loaded)
  BY <1>1 DEF SessionInv, Shape, owner, counters
<1> QED BY <1>1, <1>2, JobNames, OnlyAJob

\* A process that does not read changes nothing that was recorded.
LEMMA PipeStep ==
    ASSUME SessionInv, NEW g \in Connections, StopsReading(g) \/ ReadsAgain(g)
    PROVE  GoesWell
<1>1. /\ UNCHANGED <<service, rows, owner, job, counters>>
      /\ UNCHANGED <<events, threadOf, threads, turn, inputs, asked>>
  BY DEF StopsReading, ReadsAgain
<1>2. Quiet
  BY <1>1, NothingIsQuiet DEF SessionInv
<1>3. job' \in [Jobs -> JobState] /\ connection' \in Origins /\ loaded' \in BOOLEAN
      /\ opened' \in Nat /\ (loaded' => loaded)
  BY <1>1 DEF SessionInv, Shape, owner, counters
<1> QED BY <1>1, <1>2, <1>3, JobNames, OnlyAJob

LEMMA HarnessCreatesStep ==
    ASSUME SessionInv, NEW r \in Runs, HarnessCreates(r)
    PROVE  GoesWell
<1> USE DEF SessionInv
<1> DEFINE j == Work(r)
           g == job[j].conn
<1>1. /\ j \in Jobs /\ j # Delete /\ j[1] # "interrupt" /\ \A s \in Runs : j = Work(s) => s = r
  BY JobNames
<1>2. /\ job[j].pc = "create" /\ Goes(j, "created")
      /\ threads' = threads \cup {g} /\ threadOf' = [threadOf EXCEPT ![g] = g]
      /\ UNCHANGED <<service, rows, owner, counters, events, turn, inputs, asked>>
  BY DEF HarnessCreates, At
<1>3. g \in Connections /\ g \in Origins
  BY <1>2 DEF JobsKnow, Knows, Origins
<1>4. Quiet
  BY <1>2, <1>3 DEF Quiet, Shape
<1>5. "created" \in Steps
  BY DEF Steps
<1>6. /\ job' \in [Jobs -> JobState] /\ \A k \in Jobs \ {j} : job'[k] = job[k]
      /\ job'[j] = [job[j] EXCEPT !.pc = "created"]
  BY <1>1, <1>2, <1>5, GoesFacts
<1>7. job'[j].pc = "created" /\ job'[j].conn = g
  BY <1>1, <1>5, <1>6, NextState DEF Shape
<1>8. Knows(r)' /\ Serves(r)'
  <2>1. inputs[r] = 0 /\ (run[r].status # "absent" \/ Deleted)
    BY <1>2 DEF JobsKnow, Knows, Unsent
  <2> QED BY <1>2, <1>3, <1>7, <2>1 DEF Knows, Serves, Unsent, Closing, Deleted, rows
<1>9. connection' \in Origins /\ loaded' \in BOOLEAN /\ (loaded' => loaded) /\ opened' \in Nat
  BY <1>2 DEF owner, counters, Shape
<1> HIDE DEF j, g
<1> QED BY <1>1, <1>2, <1>4, <1>6, <1>8, <1>9, OnlyAJob

LEMMA WorkMissesThreadStep ==
    ASSUME SessionInv, NEW r \in Runs, WorkMissesThread(r)
    PROVE  GoesWell
<1> USE DEF SessionInv
<1> DEFINE j == Work(r)
<1>1. /\ j \in Jobs /\ j # Delete /\ j[1] # "interrupt" /\ \A s \in Runs : j = Work(s) => s = r
  BY JobNames
<1>2. job[j].pc = "resume" /\ UNCHANGED <<service, rows, counters>>
  BY DEF WorkMissesThread, At
<1>3. CASE Fails(j, r)
  BY <1>2, <1>3, FailsStep
<1>4. CASE Goes(j, "create") /\ UNCHANGED <<owner, harness>>
  <2>1. "create" \in Steps
    BY DEF Steps
  <2>2. /\ job' \in [Jobs -> JobState] /\ \A k \in Jobs \ {j} : job'[k] = job[k]
        /\ job'[j] = [job[j] EXCEPT !.pc = "create"]
    BY <1>1, <1>4, <2>1, GoesFacts
  <2>3. job'[j].pc = "create" /\ job'[j].conn = job[j].conn
    BY <1>1, <2>1, <2>2, NextState DEF Shape
  <2>4. Knows(r)' /\ Serves(r)'
    <3>1. /\ inputs[r] = 0 /\ (run[r].status # "absent" \/ Deleted)
          /\ job[j].conn \in Connections
      BY <1>2 DEF JobsKnow, Knows, Unsent
    <3> QED BY <1>2, <1>4, <2>3, <3>1 DEF Knows, Serves, Unsent, Closing, Deleted, rows, harness
  <2>5. /\ connection' \in Origins /\ loaded' \in BOOLEAN /\ (loaded' => loaded) /\ opened' \in Nat
        /\ Quiet
    BY <1>2, <1>4, NothingIsQuiet DEF owner, harness, counters, Shape
  <2> HIDE DEF j
  <2> QED BY <1>1, <1>2, <2>2, <2>4, <2>5, OnlyAJob
<1> QED BY <1>3, <1>4 DEF WorkMissesThread

-----------------------------------------------------------------------------
(* The job of a run: it opens, submits, resumes and records. *)

\* The rows that a job submits with: those of the store, or those with recovered turns.
ButForTurns(rs) ==
    /\ rs \in [Runs -> Row]
    /\ \A s \in Runs : /\ rs[s].status = run[s].status /\ rs[s].stop = run[s].stop
                       /\ rs[s].started = run[s].started
    /\ Deleted => \A s \in Runs : rs[s] = run[s]

LEMMA FinishFacts ==
    ASSUME SessionInv, NEW r \in Runs, Active(run[r]), NEW rs, ButForTurns(rs),
           NEW status \in Final, Finish(rs, r, status)
    PROVE  /\ run' \in [Runs -> Row]
           /\ \A s \in Runs : run'[s].turn = rs[s].turn /\ RunGoesOn(s) /\ ~Active(run'[s])
           /\ prompt' \in [Prompts -> PromptRow] /\ \A p \in Prompts : PromptGoesOn(p)
<1> USE DEF SessionInv
<1>1. ~Deleted /\ latest = r /\ \A s \in Runs \ {r} : ~Active(run[s])
  BY OnlyLatestIsActive
<1>2. /\ run' \in [Runs -> Row] /\ run'[r].status = status
      /\ run'[r].started = rs[r].started /\ run'[r].turn = rs[r].turn
      /\ \A s \in Runs \ {r} : run'[s] = rs[s]
  <2>1. rs \in [Runs -> Row] /\ rs[r] \in Row
    BY DEF ButForTurns
  <2>2. run' = [rs EXCEPT ![r] = [rs[r] EXCEPT !.status = status]]
    BY DEF Finish
  <2>3. status \in RunStatus
    BY DEF Final, RunStatus
  <2>4. /\ [rs[r] EXCEPT !.status = status] \in Row
        /\ [rs[r] EXCEPT !.status = status].status = status
        /\ [rs[r] EXCEPT !.status = status].started = rs[r].started
        /\ [rs[r] EXCEPT !.status = status].turn = rs[r].turn
    BY <2>1, <2>3 DEF Row
  <2> QED BY <2>1, <2>2, <2>4
<1>3. ~Active(run'[r]) /\ RunGoesOn(r)
  BY <1>1, <1>2 DEF Active, Final, RunGoesOn, ButForTurns
<1>4. \A s \in Runs \ {r} : ~Active(run'[s]) /\ RunGoesOn(s)
  BY <1>1, <1>2 DEF Active, RunGoesOn, ButForTurns
<1>5. \A p \in Prompts : prompt'[p] = prompt[p] \/ (IsOpen(prompt[p]) /\ prompt'[p] = Settled("expired"))
  BY DEF Finish
<1>6. Settled("expired") \in PromptRow /\ Settled("expired").status = "expired"
  BY DEF Settled, NoPrompt, PromptRow, PromptStatus, Origins, Names
<1>7. prompt' \in [Prompts -> PromptRow]
  BY <1>6 DEF Finish, Shape
<1>8. \A p \in Prompts : PromptGoesOn(p)
  BY <1>5, <1>6 DEF PromptGoesOn, IsOpen
<1> QED BY <1>2, <1>3, <1>4, <1>7, <1>8

\* The input is submitted only for a run that goes on and was not stopped.
LEMMA SubmitsFacts ==
    ASSUME SessionInv, NEW r \in Runs, NEW rs, ButForTurns(rs), Submits(r, rs),
           job[Work(r)].pc \in {"submit", "created", "resume"}, Up,
           UNCHANGED <<service, latest, inputs>>, Deleted' <=> Deleted
    PROVE  /\ run' \in [Runs -> Row] /\ job' \in [Jobs -> JobState]
           /\ prompt' \in [Prompts -> PromptRow] /\ \A p \in Prompts : PromptGoesOn(p)
           /\ \A s \in Runs : run'[s].turn = rs[s].turn /\ RunGoesOn(s) /\ JobGoesOn(s)
           /\ job'[Delete] = job[Delete]
<1> USE DEF SessionInv
<1> DEFINE j == Work(r)
<1>1. /\ j \in Jobs /\ j # Delete /\ j[1] # "interrupt" /\ \A s \in Runs : s # r => j # Work(s)
  BY JobNames
<1>2. run[r].status # "absent" \/ Deleted
  BY DEF JobsKnow, Knows
<1>3. Active(rs[r]) <=> Active(run[r])
  BY DEF ButForTurns, Active
<1>4. ASSUME job' \in [Jobs -> JobState], \A k \in Jobs \ {j} : job'[k] = job[k],
             \A s \in Runs : RunGoesOn(s), Knows(r)', Active(run'[r]) => Serves(r)'
      PROVE  (\A s \in Runs : JobGoesOn(s)) /\ job'[Delete] = job[Delete]
  BY <1>1, <1>4, JobNames DEF JobGoesOn, Up
<1>5. ASSUME job'[j].pc \in {"idle", "final"}, RunGoesOn(r)
      PROVE  Knows(r)'
  BY <1>2, <1>5 DEF Knows, Unsent, Closing, RunGoesOn
<1>6. CASE ~(latest = r /\ Active(rs[r]))
  <2>1. Ends(j) /\ run' = rs /\ UNCHANGED prompt
    BY <1>6 DEF Submits
  <2>2. ~Active(run[r])
    BY <1>3, <1>6, OnlyLatestIsActive
  <2>3. /\ run' \in [Runs -> Row] /\ \A s \in Runs : run'[s].turn = rs[s].turn /\ RunGoesOn(s)
    BY <2>1 DEF ButForTurns, RunGoesOn, Active
  <2>4. /\ job' \in [Jobs -> JobState] /\ \A k \in Jobs \ {j} : job'[k] = job[k]
        /\ job'[j].pc \in {"idle", "final"}
    BY <1>1, <2>1, EndsFacts
  <2>5. Knows(r)' /\ ~Active(run'[r])
    BY <1>3, <1>5, <2>1, <2>2, <2>3, <2>4
  <2>6. prompt' \in [Prompts -> PromptRow] /\ \A p \in Prompts : PromptGoesOn(p)
    BY <2>1 DEF Shape, PromptGoesOn
  <2> QED BY <1>4, <2>3, <2>4, <2>5, <2>6
<1>7. CASE latest = r /\ Active(rs[r]) /\ (rs[r].stop \/ ~Accepting)
  <2>1. Ends(j) /\ Finish(rs, r, "interrupted")
    BY <1>7 DEF Submits
  <2>2. "interrupted" \in Final
    BY DEF Final
  <2>3. /\ run' \in [Runs -> Row]
        /\ \A s \in Runs : run'[s].turn = rs[s].turn /\ RunGoesOn(s) /\ ~Active(run'[s])
        /\ prompt' \in [Prompts -> PromptRow] /\ \A p \in Prompts : PromptGoesOn(p)
    BY <1>3, <1>7, <2>1, <2>2, FinishFacts
  <2>4. /\ job' \in [Jobs -> JobState] /\ \A k \in Jobs \ {j} : job'[k] = job[k]
        /\ job'[j].pc \in {"idle", "final"}
    BY <1>1, <2>1, EndsFacts
  <2>5. Knows(r)'
    BY <1>5, <2>3, <2>4
  <2> QED BY <1>4, <2>3, <2>4, <2>5
<1>8. CASE latest = r /\ Active(rs[r]) /\ ~rs[r].stop
           /\ Goes(j, "start") /\ run' = [rs EXCEPT ![r].started = TRUE] /\ UNCHANGED prompt
  <2>1. rs \in [Runs -> Row] /\ rs[r] \in Row /\ run' = [rs EXCEPT ![r] = [rs[r] EXCEPT !.started = TRUE]]
    BY <1>8 DEF ButForTurns
  <2>2. /\ [rs[r] EXCEPT !.started = TRUE] \in Row
        /\ [rs[r] EXCEPT !.started = TRUE].started = TRUE
        /\ [rs[r] EXCEPT !.started = TRUE].status = rs[r].status
        /\ [rs[r] EXCEPT !.started = TRUE].turn = rs[r].turn
    BY <2>1 DEF Row
  <2>3. /\ run' \in [Runs -> Row] /\ run'[r].started /\ run'[r].status = rs[r].status
        /\ run'[r].turn = rs[r].turn /\ \A s \in Runs \ {r} : run'[s] = rs[s]
    BY <2>1, <2>2
  <2>4. ~Deleted /\ ~run[r].stop /\ Active(run[r])
    BY <1>3, <1>8, OnlyLatestIsActive DEF ButForTurns
  <2>5. RunGoesOn(r)
    BY <2>3, <2>4 DEF RunGoesOn, ButForTurns, Active
  <2>6. \A s \in Runs \ {r} : RunGoesOn(s)
    BY <2>3, <2>4 DEF RunGoesOn, ButForTurns, Active
  <2>7. "start" \in Steps
    BY DEF Steps
  <2>8. /\ job' \in [Jobs -> JobState] /\ \A k \in Jobs \ {j} : job'[k] = job[k]
        /\ job'[j].pc = "start"
    <3>1. /\ job' \in [Jobs -> JobState] /\ \A k \in Jobs \ {j} : job'[k] = job[k]
          /\ job'[j] = [job[j] EXCEPT !.pc = "start"]
      BY <1>1, <1>8, <2>7, GoesFacts
    <3> QED BY <1>1, <2>7, <3>1, NextState DEF Shape
  <2>9. Knows(r)' /\ Serves(r)'
    <3>1. inputs[r] = 0
      BY DEF JobsKnow, Knows, Unsent
    <3> QED BY <1>2, <2>3, <2>5, <2>8, <3>1 DEF Knows, Serves, Unsent, Closing, RunGoesOn
  <2>10. prompt' \in [Prompts -> PromptRow] /\ \A p \in Prompts : PromptGoesOn(p)
    BY <1>8 DEF Shape, PromptGoesOn
  <2> QED BY <1>4, <2>3, <2>5, <2>6, <2>8, <2>9, <2>10
<1> QED BY <1>6, <1>7, <1>8 DEF Submits

LEMMA RowsOfStore ==
    ASSUME Shape
    PROVE  ButForTurns(run)
BY DEF Shape, ButForTurns

LEMMA WorkSubmitsStep ==
    ASSUME SessionInv, NEW r \in Runs, WorkSubmits(r)
    PROVE  GoesWell
<1> USE DEF SessionInv
<1>1. /\ Up /\ job[Work(r)].pc = "submit" /\ Submits(r, run)
      /\ UNCHANGED <<service, session, latest, owner, harness, counters>>
  BY DEF WorkSubmits, At
<1>2. UNCHANGED <<service, latest, inputs>> /\ (Deleted' <=> Deleted)
  BY <1>1 DEF harness, Deleted
<1>3. /\ run' \in [Runs -> Row] /\ job' \in [Jobs -> JobState]
      /\ prompt' \in [Prompts -> PromptRow] /\ \A p \in Prompts : PromptGoesOn(p)
      /\ \A s \in Runs : run'[s].turn = run[s].turn /\ RunGoesOn(s) /\ JobGoesOn(s)
      /\ job'[Delete] = job[Delete]
  BY <1>1, <1>2, RowsOfStore, SubmitsFacts
<1>4. Quiet
  BY <1>1, NothingIsQuiet DEF harness
<1>5. Shape'
  BY <1>1, <1>3 DEF Shape, owner, harness, counters
<1>6. (loaded' => session'.thread # NoConnection) /\ (Deleted => job'[Delete].pc = "idle")
  BY <1>1, <1>3 DEF ThreadIsSaved, owner, JobsKnow
<1> QED BY <1>2, <1>3, <1>4, <1>5, <1>6, Carried

LEMMA WorkAdoptsStep ==
    ASSUME SessionInv, NEW r \in Runs, WorkAdopts(r)
    PROVE  GoesWell
<1> USE DEF SessionInv
<1> DEFINE g == job[Work(r)].conn
<1>1. /\ Up /\ job[Work(r)].pc = "created" /\ Submits(r, run) /\ ~Deleted
      /\ session' = [session EXCEPT !.thread = g] /\ loaded' = TRUE
      /\ UNCHANGED <<service, latest, connection, harness, counters>>
  BY DEF WorkAdopts, At
<1>2. g \in Connections /\ g \in Origins /\ g # NoConnection
  BY <1>1 DEF JobsKnow, Knows, Origins, Connections, NoConnection
<1> HIDE DEF g
<1>3. session' \in SessionRow /\ session'.thread = g /\ session'.status = session.status
  BY <1>1, <1>2 DEF Shape, SessionRow
<1>4. UNCHANGED <<service, latest, inputs>> /\ ~Deleted'
  BY <1>1, <1>3 DEF harness, Deleted
<1>5. /\ run' \in [Runs -> Row] /\ job' \in [Jobs -> JobState]
      /\ prompt' \in [Prompts -> PromptRow] /\ \A p \in Prompts : PromptGoesOn(p)
      /\ \A s \in Runs : run'[s].turn = run[s].turn /\ RunGoesOn(s) /\ JobGoesOn(s)
      /\ job'[Delete] = job[Delete]
  BY <1>1, <1>4, RowsOfStore, SubmitsFacts
<1>6. Quiet
  BY <1>1, NothingIsQuiet DEF harness
<1>7. Shape'
  BY <1>1, <1>3, <1>5 DEF Shape, harness, counters
<1> QED BY <1>1, <1>2, <1>3, <1>4, <1>5, <1>6, <1>7, Carried

LEMMA WorkOpensStep ==
    ASSUME SessionInv, NEW r \in Runs, WorkOpens(r)
    PROVE  GoesWell
<1> USE DEF SessionInv
<1> DEFINE j == Work(r)
<1>1. /\ j \in Jobs /\ j # Delete /\ j[1] # "interrupt" /\ \A s \in Runs : s # r => j # Work(s)
  BY JobNames
<1>2. /\ Up /\ job[j].pc = "open" /\ Opens /\ UNCHANGED <<service, session, latest>>
  BY DEF WorkOpens, At
<1>3. /\ connection' = opened + 1 /\ opened + 1 \in Connections /\ opened' \in Nat
      /\ UNCHANGED loaded /\ Quiet
  BY <1>2, OpensFacts
<1>4. /\ inputs[r] = 0 /\ (run[r].status # "absent" \/ Deleted) /\ UNCHANGED inputs
  BY <1>2, <1>3 DEF JobsKnow, Knows, Unsent, Quiet
<1>5. /\ run' \in [Runs -> Row] /\ prompt' \in [Prompts -> PromptRow]
      /\ \A s \in Runs : run'[s].turn = run[s].turn /\ RunGoesOn(s)
      /\ \A p \in Prompts : PromptGoesOn(p)
      /\ job' \in [Jobs -> JobState] /\ \A k \in Jobs \ {j} : job'[k] = job[k]
      /\ Knows(r)' /\ (Active(run'[r]) => Serves(r)')
  <2>1. CASE Ends(j)
    <3>1. /\ job' \in [Jobs -> JobState] /\ \A k \in Jobs \ {j} : job'[k] = job[k]
          /\ job'[j].pc \in {"idle", "final"}
      BY <1>1, <2>1, EndsFacts
    <3>2. /\ run' \in [Runs -> Row] /\ prompt' \in [Prompts -> PromptRow]
          /\ \A s \in Runs : run'[s].turn = run[s].turn /\ RunGoesOn(s)
          /\ \A p \in Prompts : PromptGoesOn(p)
          /\ ~Active(run'[r])
      <4>1. \/ Busy /\ Finish(run, latest, "interrupted")
            \/ ~Busy /\ UNCHANGED <<run, prompt>>
        <5>1. job'[j].pc \notin {"create", "resume"}
          BY <3>1
        <5>2. ASSUME NEW pc \in {"create", "resume"},
                     job' = [job EXCEPT ![j].pc = pc, ![j].conn = opened + 1]
              PROVE  FALSE
          BY <1>1, <5>1, <5>2 DEF Shape, JobState
        <5> QED BY <5>2 DEF WorkOpens
      <4>2. "interrupted" \in Final
        BY DEF Final
      <4>3. CASE Busy /\ Finish(run, latest, "interrupted")
        BY <4>2, <4>3, BusyIsActive, RowsOfStore, FinishFacts
      <4>4. CASE ~Busy /\ UNCHANGED <<run, prompt>>
        BY <4>4, SameRuns, OnlyLatestIsActive DEF Shape, PromptGoesOn
      <4> QED BY <4>1, <4>3, <4>4
    <3>3. Knows(r)'
      BY <1>2, <1>4, <3>1, <3>2 DEF Knows, Unsent, Closing, RunGoesOn, Deleted
    <3> QED BY <3>1, <3>2, <3>3
  <2>2. ASSUME NEW pc \in {"create", "resume"}, UNCHANGED <<run, prompt>>,
               job' = [job EXCEPT ![j].pc = pc, ![j].conn = opened + 1]
        PROVE  /\ run' \in [Runs -> Row] /\ prompt' \in [Prompts -> PromptRow]
               /\ \A s \in Runs : run'[s].turn = run[s].turn /\ RunGoesOn(s)
               /\ \A p \in Prompts : PromptGoesOn(p)
               /\ job' \in [Jobs -> JobState] /\ \A k \in Jobs \ {j} : job'[k] = job[k]
               /\ Knows(r)' /\ (Active(run'[r]) => Serves(r)')
    <3>1. pc \in Steps /\ opened + 1 \in Origins /\ job[j] \in JobState
      BY <1>1, <1>3 DEF Steps, Origins, Shape
    <3> DEFINE state == [job[j] EXCEPT !.pc = pc, !.conn = opened + 1]
    <3>2. state \in JobState /\ state.pc = pc /\ state.conn = opened + 1
      BY <3>1 DEF JobState
    <3>3. job' = [job EXCEPT ![j] = state]
      BY <1>1, <2>2 DEF Shape
    <3> HIDE DEF state, j
    <3>4. /\ job' \in [Jobs -> JobState] /\ \A k \in Jobs \ {j} : job'[k] = job[k]
          /\ job'[j].pc = pc /\ job'[j].conn = opened + 1
      BY <1>1, <3>2, <3>3, JobUpdate
    <3>5. Knows(r)' /\ Serves(r)'
      BY <1>2, <1>3, <1>4, <2>2, <3>4 DEF Knows, Serves, Unsent, Closing, Deleted, j
    <3>6. prompt' \in [Prompts -> PromptRow] /\ \A p \in Prompts : PromptGoesOn(p)
      BY <2>2 DEF Shape, PromptGoesOn
    <3> QED BY <2>2, <3>4, <3>5, <3>6, SameRuns
  <2> QED BY <2>1, <2>2 DEF WorkOpens
<1>6. Shape'
  BY <1>2, <1>3, <1>5 DEF Shape, Quiet, Origins
<1>7. \A s \in Runs : JobGoesOn(s)
  BY <1>1, <1>2, <1>5, JobNames DEF JobGoesOn, Up
<1>8. (loaded' => session'.thread # NoConnection) /\ (Deleted' <=> Deleted)
  BY <1>2, <1>3 DEF ThreadIsSaved, Deleted
<1>9. Deleted => job'[Delete].pc = "idle"
  BY <1>1, <1>5, JobNames DEF JobsKnow
<1> QED BY <1>2, <1>3, <1>5, <1>6, <1>7, <1>8, <1>9, Carried

-----------------------------------------------------------------------------
(* Turns that become known. *)

\* What _recover_locked finds out: a turn of the history goes to one run at most, and a run
\* that waits for its turn to be announced has none in the history but its own.
LEMMA RecoveredTurns ==
    ASSUME SessionInv, ~Deleted, NEW identified \in SUBSET History, Recovered(identified).ok
    PROVE  /\ ButForTurns(Recovered(identified).rows)
           /\ \A s \in Runs : Recovered(identified).rows[s].turn # None
                => inputs[Recovered(identified).rows[s].turn] # 0
           /\ \A r, s \in Runs : r # s =>
                \/ Recovered(identified).rows[r].turn = None
                \/ Recovered(identified).rows[r].turn # Recovered(identified).rows[s].turn
           /\ \A r, s \in Runs : r # s /\ Recovered(identified).rows[r].turn = s
                => latest # s \/ Recovered(identified).rows[s].turn # None
<1> USE DEF SessionInv
<1> DEFINE candidates(t) == {s \in Runs : run[s].turn = t \/ (s = t /\ t \in identified)}
           matched == {s \in Runs : \E t \in History : s \in candidates(t)}
           left == {t \in History : candidates(t) = {}}
           waiting == {s \in Runs \ matched : run[s].started /\ run[s].turn = None}
           taken(s) == CHOOSE t \in History : s \in candidates(t)
           rest == CHOOSE t \in left : TRUE
           rs == Recovered(identified).rows
<1>1. /\ \A t \in History : \A s \in candidates(t) :
           candidates(t) = {s} /\ run[s].started /\ run[s].turn \in {None, t}
      /\ left = {} \/ \E t, s \in Runs : left = {t} /\ waiting = {s}
  BY Zenon DEF Recovered
<1>2. rs = [s \in Runs |-> IF s \in matched THEN [run[s] EXCEPT !.turn = taken(s)]
                           ELSE IF s \in waiting /\ left # {} THEN [run[s] EXCEPT !.turn = rest]
                           ELSE run[s]]
  BY Zenon DEF Recovered
<1> HIDE DEF rs
<1>3. \A t \in History : t \in Runs /\ inputs[t] # 0
  BY DEF History, Shape
<1>4. \A s \in matched : s \in Runs /\ taken(s) \in History /\ s \in candidates(taken(s))
  OBVIOUS
<1>5. left # {} => rest \in left /\ rest \in History /\ candidates(rest) = {}
  OBVIOUS
<1>6. \A s \in Runs : run[s] \in Row
  BY DEF Shape
<1>7. \A s \in Runs : run[s].turn # None => run[s].turn \in History /\ s \in matched
  <2> TAKE s \in Runs
  <2> HAVE run[s].turn # None
  <2>1. run[s].turn \in Runs /\ inputs[run[s].turn] # 0 /\ inputs[run[s].turn] \in Nat
    BY <1>6 DEF TurnsAreTold, Row, Names, Shape
  <2>2. run[s].turn \in History
    BY <2>1 DEF History
  <2> QED BY <2>2
<1>8. \A s \in Runs : None \notin History /\ History \subseteq Names
  BY <1>3, SessionBounds DEF Names
<1>9. \A s \in Runs : \/ s \in matched /\ rs[s] = [run[s] EXCEPT !.turn = taken(s)]
                      \/ /\ s \notin matched /\ s \in waiting /\ left # {}
                         /\ rs[s] = [run[s] EXCEPT !.turn = rest]
                      \/ s \notin matched /\ ~(s \in waiting /\ left # {}) /\ rs[s] = run[s]
  BY <1>2
<1> HIDE DEF candidates, matched, left, waiting, taken, rest
<1>10. \A s \in Runs : \/ /\ s \in matched /\ rs[s].turn = taken(s)
                       \/ /\ s \notin matched /\ s \in waiting /\ left # {} /\ rs[s].turn = rest
                       \/ /\ s \notin matched /\ ~(s \in waiting /\ left # {})
                          /\ rs[s].turn = None /\ rs[s] = run[s]
  BY <1>6, <1>7, <1>9 DEF Row
<1>11. ButForTurns(rs)
  <2>1. ASSUME NEW s \in Runs
        PROVE  /\ rs[s] \in Row /\ rs[s].status = run[s].status
               /\ rs[s].stop = run[s].stop /\ rs[s].started = run[s].started
    <3>1. CASE s \in matched /\ rs[s] = [run[s] EXCEPT !.turn = taken(s)]
      <4>1. taken(s) \in Names
        BY <1>4, <1>8, <3>1
      <4> QED BY <1>6, <3>1, <4>1 DEF Row
    <3>2. CASE left # {} /\ rs[s] = [run[s] EXCEPT !.turn = rest]
      <4>1. rest \in Names
        BY <1>5, <1>8, <3>2
      <4> QED BY <1>6, <3>2, <4>1 DEF Row
    <3>3. CASE rs[s] = run[s]
      BY <1>6, <3>3
    <3> QED BY <1>9, <3>1, <3>2, <3>3
  <2>2. rs \in [Runs -> Row]
    <3>1. rs = [s \in Runs |-> rs[s]]
      BY <1>2 DEF rs
    <3> HIDE DEF rs
    <3> QED BY <2>1, <3>1
  <2> QED BY <2>1, <2>2 DEF ButForTurns
<1>12. \A s \in Runs : rs[s].turn # None => rs[s].turn \in History /\ inputs[rs[s].turn] # 0
  BY <1>3, <1>4, <1>5, <1>10
<1>13. ASSUME NEW r \in Runs, NEW s \in Runs, r # s, rs[r].turn # None, rs[r].turn = rs[s].turn
       PROVE  FALSE
  <2>1. CASE r \in matched
    <3>1. s \in matched /\ taken(r) = taken(s)
      BY <1>4, <1>5, <1>10, <1>13, <2>1
    <3>2. r \in candidates(taken(r)) /\ s \in candidates(taken(r)) /\ taken(r) \in History
      BY <1>4, <2>1, <3>1
    <3> QED BY <1>1, <1>13, <3>2
  <2>2. CASE r \notin matched
    <3>1. r \in waiting /\ left # {} /\ rs[r].turn = rest
      BY <1>10, <1>13, <2>2
    <3>2. s \in waiting
      BY <1>4, <1>5, <1>10, <1>13, <3>1
    <3> QED BY <1>1, <1>13, <3>1, <3>2
  <2> QED BY <2>1, <2>2
<1>14. ASSUME NEW r \in Runs, NEW s \in Runs, r # s, rs[r].turn = s, latest = s,
              rs[s].turn = None
       PROVE  FALSE
  <2>0. s \notin matched /\ rs[s] = run[s] /\ run[s].turn = None
    BY <1>4, <1>5, <1>8, <1>10, <1>14
  <2>1. CASE r \in matched
    <3>1. s \in History /\ r \in candidates(s)
      BY <1>4, <1>10, <1>14, <2>1
    <3>2. run[r].turn = s
      BY <1>14, <3>1 DEF candidates
    <3> QED BY <1>14, <2>0, <3>2 DEF TurnsAreTold
  <2>2. CASE r \notin matched
    <3>1. r \in waiting /\ left # {} /\ s = rest
      BY <1>10, <1>14, <2>2, SessionBounds
    <3>2. s \in History /\ s \notin waiting
      BY <1>1, <1>5, <1>14, <3>1
    <3>3. run[s].started
      BY <1>3, <3>2 DEF RunsAreInOrder
    <3> QED BY <2>0, <3>2, <3>3 DEF waiting
  <2> QED BY <2>1, <2>2
<1> QED BY <1>11, <1>12, <1>13, <1>14 DEF rs

LEMMA WorkResumesStep ==
    ASSUME SessionInv, NEW r \in Runs, WorkResumes(r)
    PROVE  GoesWell
<1> USE DEF SessionInv
<1> DEFINE g == job[Work(r)].conn
<1>1. /\ Up /\ job[Work(r)].pc = "resume" /\ ~Deleted /\ session.thread \in threads
      /\ threadOf' = [threadOf EXCEPT ![g] = session.thread] /\ loaded' = TRUE
      /\ UNCHANGED <<service, session, latest, connection, counters,
                     events, threads, turn, inputs, asked>>
  BY DEF WorkResumes, At
<1>2. PICK identified \in SUBSET History :
        Recovered(identified).ok /\ Submits(r, Recovered(identified).rows)
  BY DEF WorkResumes
<1> DEFINE rs == Recovered(identified).rows
<1>3. /\ ButForTurns(rs)
      /\ \A s \in Runs : rs[s].turn # None => inputs[rs[s].turn] # 0
      /\ \A q, s \in Runs : q # s => rs[q].turn = None \/ rs[q].turn # rs[s].turn
      /\ \A q, s \in Runs : q # s /\ rs[q].turn = s => latest # s \/ rs[s].turn # None
  BY <1>1, <1>2, RecoveredTurns
<1>4. Submits(r, rs)
  BY <1>2
<1> HIDE DEF rs, g
<1>5. ~Deleted'
  BY <1>1 DEF Deleted
<1>6. /\ run' \in [Runs -> Row] /\ job' \in [Jobs -> JobState]
      /\ prompt' \in [Prompts -> PromptRow] /\ \A p \in Prompts : PromptGoesOn(p)
      /\ \A s \in Runs : run'[s].turn = rs[s].turn /\ RunGoesOn(s) /\ JobGoesOn(s)
      /\ job'[Delete] = job[Delete]
  BY <1>1, <1>3, <1>4, <1>5, SubmitsFacts
<1>7. session.thread \in Connections /\ session.thread # NoConnection
  <2>1. session.thread \in Connections
    BY <1>1 DEF Shape
  <2> QED BY <2>1 DEF Connections, NoConnection
<1>8. Shape'
  BY <1>1, <1>6, <1>7 DEF Shape, counters, Origins
<1>9. JobsKnow' /\ RunsAreInOrder' /\ StopHolds /\ OutcomesStay
  BY <1>1, <1>5, <1>6, RowsCarry
<1>10. TurnsAreTold'
  <2>1. UNCHANGED <<turn, events, inputs, latest>>
    BY <1>1
  <2> QED BY <1>3, <1>6, <2>1 DEF TurnsAreTold
<1>11. PromptsAreNew'
  <2>1. Quiet
    BY <1>1, <1>7 DEF Quiet, Shape, Origins
  <2>2. \A p \in Prompts : prompt[p].status = "absent" => prompt'[p].status = "absent"
    BY <1>6 DEF PromptGoesOn
  <2> QED BY <2>1, <2>2, QuietKeeps
<1>12. ThreadIsSaved'
  BY <1>1, <1>7 DEF ThreadIsSaved
<1> QED BY <1>8, <1>9, <1>10, <1>11, <1>12 DEF GoesWell

LEMMA WithTurnFacts ==
    ASSUME SessionInv, NEW r \in Runs, NEW t \in Runs, NEW rs, rs = WithTurn(r, t)
    PROVE  /\ rs \in [Runs -> Row] /\ rs[r].turn = t /\ rs[r].status \in {"running", "stopping"}
           /\ rs[r].started = run[r].started /\ rs[r].stop = run[r].stop
           /\ \A s \in Runs \ {r} : rs[s] = run[s]
<1>1. run \in [Runs -> Row] /\ run[r] \in Row
  BY DEF SessionInv, Shape
<1> DEFINE status == IF run[r].stop THEN "stopping" ELSE "running"
<1>2. rs = [run EXCEPT ![r] = [run[r] EXCEPT !.turn = t, !.status = status]]
  BY <1>1 DEF WithTurn
<1>3. status \in {"running", "stopping"} /\ status \in RunStatus /\ t \in Names
  BY DEF RunStatus, Names
<1> HIDE DEF status
<1>4. /\ [run[r] EXCEPT !.turn = t, !.status = status] \in Row
      /\ [run[r] EXCEPT !.turn = t, !.status = status].turn = t
      /\ [run[r] EXCEPT !.turn = t, !.status = status].status = status
      /\ [run[r] EXCEPT !.turn = t, !.status = status].started = run[r].started
      /\ [run[r] EXCEPT !.turn = t, !.status = status].stop = run[r].stop
  BY <1>1, <1>3 DEF Row
<1> QED BY <1>1, <1>2, <1>3, <1>4

\* The run in progress goes on with its turn.
LEMMA WithTurnGoesOn ==
    ASSUME SessionInv, NEW r \in Runs, BusyWith(r), NEW t \in Runs, run' = WithTurn(r, t)
    PROVE  /\ run' \in [Runs -> Row] /\ run'[r].turn = t
           /\ \A s \in Runs \ {r} : run'[s].turn = run[s].turn
           /\ \A s \in Runs : RunGoesOn(s)
<1>1. ~Deleted /\ Active(run[r])
  BY BusyIsActive DEF BusyWith
<1>2. /\ run' \in [Runs -> Row] /\ run'[r].turn = t /\ run'[r].status \in {"running", "stopping"}
      /\ run'[r].started = run[r].started /\ run'[r].stop = run[r].stop
      /\ \A s \in Runs \ {r} : run'[s] = run[s]
  BY WithTurnFacts
<1>3. RunGoesOn(r)
  BY <1>1, <1>2 DEF RunGoesOn, Active
<1>4. \A s \in Runs \ {r} : RunGoesOn(s)
  BY <1>1, <1>2 DEF RunGoesOn
<1> QED BY <1>2, <1>3, <1>4

LEMMA TurnIsTold ==
    ASSUME SessionInv, NEW r \in Runs, BusyWith(r), NEW t \in Runs, inputs[t] # 0,
           \A s \in Runs \ {r} : run[s].turn # t,
           run'[r].turn = t, \A s \in Runs \ {r} : run'[s].turn = run[s].turn,
           UNCHANGED <<latest, inputs, turn>>,
           \A g \in Connections : \A i \in 1..Len(events'[g]) :
             \E k \in 1..Len(events[g]) : events'[g][i] = events[g][k]
    PROVE  TurnsAreTold'
<1> USE DEF SessionInv
<1>1. latest = r
  BY DEF BusyWith
<1>2. t # None
  BY SessionBounds
<1>3. \A g \in Connections : \A i \in 1..Len(events'[g]) :
         events'[g][i].turn # None => inputs'[events'[g][i].turn] # 0
  <2> TAKE g \in Connections
  <2> TAKE i \in 1..Len(events'[g])
  <2>1. PICK k \in 1..Len(events[g]) : events'[g][i] = events[g][k]
    OBVIOUS
  <2>2. events[g][k].turn # None => inputs[events[g][k].turn] # 0
    BY DEF TurnsAreTold
  <2> QED BY <2>1, <2>2
<1>4. \A s \in Runs : turn'[s].state = "running" => inputs'[s] # 0
  BY DEF TurnsAreTold
<1>5. \A s \in Runs : run'[s].turn # None => inputs'[run'[s].turn] # 0
  BY DEF TurnsAreTold
<1>6. \A q, s \in Runs : q # s => run'[q].turn = None \/ run'[q].turn # run'[s].turn
  BY DEF TurnsAreTold
<1>7. \A q, s \in Runs : q # s /\ run'[q].turn = s => latest' # s \/ run'[s].turn # None
  BY <1>1, <1>2 DEF TurnsAreTold
<1> QED BY <1>3, <1>4, <1>5, <1>6, <1>7 DEF TurnsAreTold

LEMMA WorkRecordsTurnStep ==
    ASSUME SessionInv, NEW r \in Runs, WorkRecordsTurn(r)
    PROVE  GoesWell
<1> USE DEF SessionInv
<1> DEFINE j == Work(r)
           jobs == [job EXCEPT ![j] = [Idle EXCEPT !.pc = "wait"]]
<1>1. /\ j \in Jobs /\ j # Delete /\ \A s \in Runs : s # r => j # Work(s)
  BY JobNames
<1>2. job[j].pc = "taken" /\ Up /\ UNCHANGED <<service, session, latest, prompt, counters>>
  BY DEF WorkRecordsTurn, At
<1>3. CASE Fails(j, r) /\ UNCHANGED run
  <2>1. UNCHANGED <<service, rows, counters>>
    BY <1>2, <1>3 DEF rows
  <2> QED BY <1>2, <1>3, <2>1, FailsStep
<1>4. CASE /\ BusyWith(r) /\ run[r].turn \in {None, r} /\ run' = WithTurn(r, r)
           /\ job' = WithInterrupt(jobs, WithTurn(r, r)) /\ UNCHANGED <<owner, harness>>
  <2>1. latest = r /\ ~Deleted /\ inputs[r] # 0
    BY <1>2, <1>4, BusyIsActive DEF BusyWith, JobsKnow, Knows
  <2>2. jobs \in [Jobs -> JobState] /\ jobs[j].pc = "wait" /\ \A k \in Jobs \ {j} : jobs[k] = job[k]
    <3>1. "wait" \in Steps
      BY DEF Steps
    <3>2. [Idle EXCEPT !.pc = "wait"] \in JobState /\ [Idle EXCEPT !.pc = "wait"].pc = "wait"
      BY <3>1, IdleState, NextState
    <3> QED BY <1>1, <3>2 DEF Shape
  <2> HIDE DEF jobs
  <2>3. /\ job' \in [Jobs -> JobState] /\ job'[Delete] = jobs[Delete]
        /\ \A s \in Runs : job'[Work(s)] = jobs[Work(s)]
    BY <1>4, <2>2, InterruptsAside
  <2>4. /\ run' \in [Runs -> Row] /\ run'[r].turn = r
        /\ \A s \in Runs \ {r} : run'[s].turn = run[s].turn
        /\ \A s \in Runs : RunGoesOn(s)
    BY <1>4, WithTurnGoesOn
  <2>5. \A s \in Runs \ {r} : run[s].turn # r
    BY <1>4, <2>1, SessionBounds DEF TurnsAreTold
  <2>6. Shape'
    BY <1>2, <1>4, <2>3, <2>4 DEF Shape, owner, harness, counters
  <2>7. UNCHANGED <<events, inputs, turn, asked, loaded>>
    BY <1>4 DEF harness, owner
  <2>8. TurnsAreTold'
    BY <1>2, <1>4, <2>1, <2>4, <2>5, <2>7, TurnIsTold
  <2>9. \A s \in Runs : JobGoesOn(s)
    <3>1. \A s \in Runs \ {r} : JobGoesOn(s)
      BY <1>1, <1>2, <2>2, <2>3, JobNames DEF JobGoesOn, Up
    <3>2. job'[Work(r)].pc = "wait"
      BY <2>2, <2>3
    <3>3. run'[r].status # "absent"
      BY <1>2, <2>1, <2>4 DEF JobsKnow, Knows, RunGoesOn
    <3>4. Knows(r)' /\ Serves(r)'
      BY <3>2, <3>3 DEF Knows, Serves, Unsent, Closing
    <3> QED BY <3>1, <3>4 DEF JobGoesOn
  <2>10. JobsKnow' /\ RunsAreInOrder' /\ StopHolds /\ OutcomesStay
    <3>1. \A p \in Prompts : PromptGoesOn(p)
      BY <1>2 DEF PromptGoesOn
    <3> QED BY <1>2, <2>1, <2>4, <2>7, <2>9, <3>1, RowsCarry DEF Deleted
  <2>11. PromptsAreNew' /\ ThreadIsSaved'
    BY <1>2, <2>7 DEF PromptsAreNew, Announces, ThreadIsSaved
  <2> QED BY <2>6, <2>8, <2>10, <2>11 DEF GoesWell
<1>5. CASE ~BusyWith(r) /\ Ends(j) /\ UNCHANGED <<run, owner, harness>>
  <2>1. Fails(j, r)
    BY <1>5 DEF Fails
  <2> QED BY <1>3, <1>5, <2>1
<1> QED BY <1>3, <1>4, <1>5 DEF WorkRecordsTurn

LEMMA HarnessTakesInputStep ==
    ASSUME SessionInv, NEW r \in Runs, HarnessTakesInput(r)
    PROVE  GoesWell
<1> USE DEF SessionInv
<1> DEFINE j == Work(r)
           g == job[j].conn
<1>1. /\ j \in Jobs /\ j # Delete /\ j[1] # "interrupt" /\ \A s \in Runs : s # r => j # Work(s)
  BY JobNames
<1>2. /\ Up /\ job[j].pc = "start" /\ Goes(j, "taken")
      /\ inputs' = [inputs EXCEPT ![r] = @ + 1]
      /\ turn' = [turn EXCEPT ![r] = [state |-> "running", on |-> g]]
      /\ Queues(g, "turn_started", None, r)
      /\ UNCHANGED <<service, rows, owner, counters, threadOf, threads, asked>>
  BY DEF HarnessTakesInput, At
<1>3. g \in Origins
  BY <1>1 DEF Shape, JobState
<1> HIDE DEF g
<1>4. inputs[r] = 0 /\ (run[r].started \/ Deleted) /\ (run[r].status # "absent" \/ Deleted)
  BY <1>2 DEF JobsKnow, Knows, Unsent
<1>5. inputs' \in [Runs -> Nat] /\ inputs'[r] = 1 /\ \A s \in Runs \ {r} : inputs'[s] = inputs[s]
  BY <1>2, <1>4 DEF Shape
<1>6. turn' \in [Runs -> TurnState] /\ \A s \in Runs \ {r} : turn'[s] = turn[s]
  BY <1>2, <1>3 DEF Shape, TurnState
<1>7. /\ events' \in [Connections -> Seq(EventState)]
      /\ \A h \in Connections : \A i \in 1..Len(events'[h]) :
           \/ i \in 1..Len(events[h]) /\ events'[h][i] = events[h][i]
           \/ events'[h][i].kind = "turn_started" /\ events'[h][i].turn = r
  <2>1. "turn_started" \in Kinds /\ r \in Names /\ None \in Prompts \cup {None}
    BY DEF Kinds, Names
  <2>2. EventOf("turn_started", None, r).kind = "turn_started" /\ EventOf("turn_started", None, r).turn = r
    BY DEF EventOf
  <2> QED BY <1>2, <1>3, <2>1, <2>2, QueuesFacts
<1>8. /\ job' \in [Jobs -> JobState] /\ \A k \in Jobs \ {j} : job'[k] = job[k]
      /\ job'[j].pc = "taken"
  <2>1. "taken" \in Steps
    BY DEF Steps
  <2>2. /\ job' \in [Jobs -> JobState] /\ \A k \in Jobs \ {j} : job'[k] = job[k]
        /\ job'[j] = [job[j] EXCEPT !.pc = "taken"]
    BY <1>1, <1>2, <2>1, GoesFacts
  <2> QED BY <1>1, <2>1, <2>2, NextState DEF Shape
<1> HIDE DEF j
<1>9. UNCHANGED <<session, run, latest, prompt, service, connection, loaded, opened>>
  BY <1>2 DEF rows, owner, counters
<1>10. Shape'
  BY <1>2, <1>5, <1>6, <1>7, <1>8, <1>9 DEF Shape
<1>11. \A s \in Runs \ {r} : job'[Work(s)] = job[Work(s)]
  BY <1>1, <1>8, JobNames DEF j
<1>12. job'[Delete] = job[Delete] /\ job'[Work(r)].pc = "taken"
  BY <1>1, <1>8, JobNames DEF j
<1>13. JobsKnow'
  <2>1. \A s \in Runs \ {r} : Knows(s)'
    BY <1>5, <1>9, <1>11 DEF JobsKnow, Knows, Unsent, Closing, Deleted
  <2>2. Knows(r)'
    BY <1>4, <1>5, <1>9, <1>12 DEF Knows, Unsent, Closing, Deleted
  <2> QED BY <1>9, <1>12, <2>1, <2>2 DEF JobsKnow, Deleted
<1>14. RunsAreInOrder'
  <2>1. \A s \in Runs : Active(run[s]) => Up /\ (Serves(s) => Serves(s)')
    BY <1>2, <1>11, <1>12 DEF Serves, Unsent, Closing
  <2>2. \A s \in Runs : inputs'[s] = 0 \/ (inputs'[s] = 1 /\ (run[s].started \/ Deleted))
    BY <1>4, <1>5 DEF RunsAreInOrder
  <2> QED BY <1>9, <2>1, <2>2 DEF RunsAreInOrder, Deleted
<1>15. TurnsAreTold'
  <2>1. \A s \in Runs : inputs[s] # 0 => inputs'[s] # 0
    BY <1>4, <1>5
  <2>2. \A s \in Runs : turn'[s].state = "running" => turn[s].state = "running" \/ inputs'[s] # 0
    BY <1>5, <1>6
  <2>3. \A h \in Connections : \A i \in 1..Len(events'[h]) :
              \/ events'[h][i].turn = None \/ inputs'[events'[h][i].turn] # 0
              \/ \E k \in 1..Len(events[h]) : events'[h][i] = events[h][k]
    BY <1>5, <1>7
  <2> QED BY <1>9, <2>1, <2>2, <2>3, TurnsKept
<1>16. PromptsAreNew'
  BY <1>2, <1>7, <1>9, PromptsStay
<1>17. ThreadIsSaved'
  BY <1>9 DEF ThreadIsSaved
<1>18. StopHolds /\ OutcomesStay
  <2>1. run[r].stop => run[r].started
    BY <1>4 DEF RunsAreInOrder, NoRow
  <2> QED BY <1>5, <1>9, <2>1 DEF StopHolds, OutcomesStay
<1> QED BY <1>10, <1>13, <1>14, <1>15, <1>16, <1>17, <1>18 DEF GoesWell

-----------------------------------------------------------------------------
(* Interrupts, answers and events. *)

LEMMA InterruptFinishesStep ==
    ASSUME SessionInv, NEW r \in Runs, InterruptFinishes(r)
    PROVE  GoesWell
<1> USE DEF SessionInv
<1> DEFINE j == Interrupt(r)
<1>1. j \in Jobs /\ j # Delete /\ \A s \in Runs : j # Work(s)
  BY JobNames
<1>2. /\ job' = [job EXCEPT ![j] = Idle]
      /\ UNCHANGED <<service, session, latest, owner, harness, counters>>
      /\ \/ BusyWith(r) /\ Finish(run, r, "interrupted")
         \/ ~BusyWith(r) /\ UNCHANGED <<run, prompt>>
  BY DEF InterruptFinishes
<1> HIDE DEF j
<1>3. job' \in [Jobs -> JobState] /\ \A k \in Jobs \ {j} : job'[k] = job[k]
  BY <1>1, <1>2, IdleState, JobUpdate
<1>4. /\ run' \in [Runs -> Row] /\ prompt' \in [Prompts -> PromptRow]
      /\ \A s \in Runs : run'[s].turn = run[s].turn /\ RunGoesOn(s)
      /\ \A p \in Prompts : PromptGoesOn(p)
  <2>1. CASE BusyWith(r) /\ Finish(run, r, "interrupted")
    <3>1. "interrupted" \in Final /\ Active(run[r])
      BY <2>1, BusyIsActive DEF Final, BusyWith
    <3> QED BY <2>1, <3>1, RowsOfStore, FinishFacts
  <2>2. CASE ~BusyWith(r) /\ UNCHANGED <<run, prompt>>
    BY <2>2, SameRuns DEF Shape, PromptGoesOn
  <2> QED BY <1>2, <2>1, <2>2
<1>5. Shape' /\ Quiet
  BY <1>2, <1>3, <1>4, NothingIsQuiet DEF Shape, owner, harness, counters
<1>6. \A s \in Runs : JobGoesOn(s)
  BY <1>1, <1>2, <1>3, JobNames DEF JobGoesOn, Up
<1>7. /\ loaded' => session'.thread # NoConnection
      /\ Deleted' <=> Deleted
      /\ Deleted => job'[Delete].pc = "idle"
  BY <1>1, <1>2, <1>3, JobNames DEF ThreadIsSaved, owner, Deleted, JobsKnow
<1> QED BY <1>2, <1>4, <1>5, <1>6, <1>7, Carried

\* An answer settles its own prompt only.
LEMMA SettlesFacts ==
    ASSUME Shape, NEW p \in Prompts, NEW status \in {"resolved", "expired"},
           \/ UNCHANGED prompt
           \/ IsOpen(prompt[p]) /\ prompt' = [prompt EXCEPT ![p] = Settled(status)]
    PROVE  prompt' \in [Prompts -> PromptRow] /\ \A q \in Prompts : PromptGoesOn(q)
<1>1. Settled(status) \in PromptRow /\ Settled(status).status = status
  BY DEF Settled, NoPrompt, PromptRow, PromptStatus, Origins, Names
<1>2. CASE UNCHANGED prompt
  BY <1>2 DEF Shape, PromptGoesOn
<1>3. CASE IsOpen(prompt[p]) /\ prompt' = [prompt EXCEPT ![p] = Settled(status)]
  BY <1>1, <1>3 DEF Shape, PromptGoesOn, IsOpen
<1> QED BY <1>2, <1>3

LEMMA AnswerMovesStep ==
    ASSUME SessionInv, NEW p \in Prompts, NEW pc \in Steps, Goes(Reply(p), pc),
           prompt' \in [Prompts -> PromptRow], \A q \in Prompts : PromptGoesOn(q), Quiet,
           UNCHANGED <<service, session, run, latest, owner, counters>>
    PROVE  GoesWell
<1> USE DEF SessionInv
<1> DEFINE j == Reply(p)
<1>1. j \in Jobs /\ j # Delete /\ \A s \in Runs : j # Work(s)
  BY JobNames
<1>2. job' \in [Jobs -> JobState] /\ \A k \in Jobs \ {j} : job'[k] = job[k]
  BY <1>1, GoesFacts
<1> HIDE DEF j
<1>3. run' \in [Runs -> Row] /\ \A s \in Runs : run'[s].turn = run[s].turn /\ RunGoesOn(s)
  BY SameRuns
<1>4. Shape'
  BY <1>2, <1>3 DEF Shape, Quiet, owner, counters
<1>5. \A s \in Runs : JobGoesOn(s)
  BY <1>1, <1>2, JobNames DEF JobGoesOn, Up
<1>6. /\ loaded' => session'.thread # NoConnection
      /\ Deleted' <=> Deleted
      /\ Deleted => job'[Delete].pc = "idle"
  BY <1>1, <1>2, JobNames DEF ThreadIsSaved, owner, Deleted, JobsKnow
<1> QED BY <1>3, <1>4, <1>5, <1>6, Carried

LEMMA AnswerRespondsStep ==
    ASSUME SessionInv, NEW p \in Prompts, AnswerResponds(p)
    PROVE  GoesWell
<1> USE DEF SessionInv
<1>1. UNCHANGED <<service, session, run, latest, owner, counters, events, threadOf, threads, turn, inputs>>
  BY DEF AnswerResponds
<1>2. "written" \in Steps /\ "done" \in Steps
  BY DEF Steps
<1>3. OverRequest \in RequestState /\ OverRequest.state = "over"
  BY DEF OverRequest, NoRequest, RequestState, Origins, Names
<1>4. CASE Goes(Reply(p), "written") /\ asked' = [asked EXCEPT ![p] = OverRequest] /\ UNCHANGED prompt
  <2>1. Quiet
    BY <1>1, <1>3, <1>4 DEF Quiet, Shape
  <2>2. prompt' \in [Prompts -> PromptRow] /\ \A q \in Prompts : PromptGoesOn(q)
    BY <1>4 DEF Shape, PromptGoesOn
  <2> QED BY <1>1, <1>2, <1>4, <2>1, <2>2, AnswerMovesStep
<1>5. CASE /\ Goes(Reply(p), "done") /\ UNCHANGED asked
           /\ prompt' = IF StillAnswering(p) THEN [prompt EXCEPT ![p] = Settled("expired")] ELSE prompt
  <2>1. Quiet
    BY <1>1, <1>5, NothingIsQuiet
  <2>2. prompt' \in [Prompts -> PromptRow] /\ \A q \in Prompts : PromptGoesOn(q)
    BY <1>5, SettlesFacts DEF StillAnswering, IsOpen
  <2> QED BY <1>1, <1>2, <1>5, <2>1, <2>2, AnswerMovesStep
<1> QED BY <1>4, <1>5 DEF AnswerResponds

LEMMA AnswerSettlesStep ==
    ASSUME SessionInv, NEW p \in Prompts, AnswerSettles(p)
    PROVE  GoesWell
<1> USE DEF SessionInv
<1>1. /\ Goes(Reply(p), "done") /\ UNCHANGED <<service, session, run, latest, owner, harness, counters>>
      /\ prompt' = IF StillAnswering(p) THEN [prompt EXCEPT ![p] = Settled("resolved")] ELSE prompt
  BY DEF AnswerSettles
<1>2. Quiet
  BY <1>1, NothingIsQuiet DEF harness
<1>3. prompt' \in [Prompts -> PromptRow] /\ \A q \in Prompts : PromptGoesOn(q)
  BY <1>1, SettlesFacts DEF StillAnswering, IsOpen
<1>4. "done" \in Steps
  BY DEF Steps
<1> QED BY <1>1, <1>2, <1>3, <1>4, AnswerMovesStep

\* An event is taken: the runs and prompts go on.
LEMMA EventGoesStep ==
    ASSUME SessionInv, NEW g \in Connections, events[g] # <<>>, Dequeues(g), TurnsAreTold',
           UNCHANGED <<service, session, latest, counters>>,
           run' \in [Runs -> Row], \A r \in Runs : RunGoesOn(r),
           prompt' \in [Prompts -> PromptRow],
           \A p \in Prompts : PromptGoesOn(p)
             \/ (prompt[p].status = "absent" /\ Event(g).kind = "prompt" /\ Event(g).of = p),
           job' \in [Jobs -> JobState], job'[Delete] = job[Delete],
           \A r \in Runs : job'[Work(r)] = job[Work(r)],
           connection' \in Origins, loaded' \in BOOLEAN, loaded' => loaded
    PROVE  GoesWell
<1> USE DEF SessionInv
<1>1. events' \in [Connections -> Seq(EventState)] /\ UNCHANGED <<threadOf, threads, turn, inputs, asked>>
  BY DequeuesFacts DEF Dequeues
<1>2. Shape'
  BY <1>1 DEF Shape, counters
<1>3. \A r \in Runs : JobGoesOn(r)
  BY DEF JobGoesOn, Up
<1>4. JobsKnow' /\ RunsAreInOrder' /\ StopHolds /\ OutcomesStay
  BY <1>1, <1>3, RowsCarry DEF Deleted, JobsKnow
<1>5. PromptsAreNew'
  BY PromptTaken DEF PromptGoesOn
<1>6. ThreadIsSaved'
  BY DEF ThreadIsSaved
<1> QED BY <1>2, <1>4, <1>5, <1>6 DEF GoesWell

LEMMA EventTurns ==
    ASSUME SessionInv, NEW g \in Connections, events[g] # <<>>, Dequeues(g),
           UNCHANGED latest, \A r \in Runs : run'[r].turn = run[r].turn
    PROVE  TurnsAreTold'
<1>1. \A h \in Connections : \A i \in 1..Len(events'[h]) :
                \E k \in 1..Len(events[h]) : events'[h][i] = events[h][k]
  BY EventTaken DEF SessionInv
<1>2. UNCHANGED <<turn, inputs>>
  BY DEF Dequeues
<1> QED BY <1>1, <1>2, TurnsKept DEF SessionInv

LEMMA EventIsIgnoredStep ==
    ASSUME SessionInv, NEW g \in Connections, EventIsIgnored(g)
    PROVE  GoesWell
<1> USE DEF SessionInv
<1>1. events[g] # <<>> /\ Dequeues(g) /\ UNCHANGED <<service, rows, owner, job, counters>>
  BY DEF EventIsIgnored
<1>2. UNCHANGED <<session, run, latest, prompt, connection, loaded>>
  BY <1>1 DEF rows, owner
<1>3. TurnsAreTold'
  BY <1>1, <1>2, EventTurns
<1>4. /\ run' \in [Runs -> Row] /\ prompt' \in [Prompts -> PromptRow] /\ job' \in [Jobs -> JobState]
      /\ connection' \in Origins /\ loaded' \in BOOLEAN
  BY <1>1, <1>2 DEF Shape
<1> QED BY <1>1, <1>2, <1>3, <1>4, SameRows, EventGoesStep

\* The run in progress hears of its turn.
LEMMA MatchesFacts ==
    ASSUME SessionInv, NEW e \in EventState, Matches(e)
    PROVE  /\ latest \in Runs /\ BusyWith(latest) /\ e.turn \in Runs
           /\ \A s \in Runs \ {latest} : run[s].turn # e.turn
<1> USE DEF SessionInv
<1>1. Busy /\ e.turn # None /\ latest \in Runs
  BY BusyIsActive DEF Matches
<1>2. e.turn \in Runs
  BY <1>1 DEF EventState, Names
<1>3. run[latest].turn = e.turn \/ e.turn \notin KnownTurns
  BY DEF Matches
<1>4. ASSUME NEW s \in Runs \ {latest}, run[s].turn = e.turn
      PROVE  FALSE
  <2>1. e.turn \in KnownTurns
    BY <1>1, <1>4 DEF KnownTurns
  <2>2. run[latest].turn = e.turn
    BY <1>3, <2>1
  <2> QED BY <1>1, <1>4, <2>2 DEF TurnsAreTold
<1> QED BY <1>1, <1>2, <1>4 DEF BusyWith

LEMMA TurnStartedStep ==
    ASSUME SessionInv, NEW g \in Connections, TurnStarted(g)
    PROVE  GoesWell
<1> USE DEF SessionInv
<1> DEFINE t == Event(g).turn
           rs == WithTurn(latest, t)
<1>1. /\ events[g] # <<>> /\ Dequeues(g) /\ Matches(Event(g)) /\ run' = rs
      /\ job' = WithInterrupt(job, rs)
      /\ UNCHANGED <<service, session, latest, prompt, owner, counters>>
  BY DEF TurnStarted, Arrives, Applies
<1>2. Event(g) \in EventState
  BY <1>1, DequeuesFacts
<1>3. /\ latest \in Runs /\ BusyWith(latest) /\ t \in Runs
      /\ \A s \in Runs \ {latest} : run[s].turn # t
  BY <1>1, <1>2, MatchesFacts
<1>4. inputs[t] # 0
  BY <1>1, <1>3, EventTaken, SessionBounds
<1>5. /\ run' \in [Runs -> Row] /\ run'[latest].turn = t
      /\ \A s \in Runs \ {latest} : run'[s].turn = run[s].turn
      /\ \A s \in Runs : RunGoesOn(s)
  BY <1>1, <1>3, WithTurnGoesOn
<1>6. job \in [Jobs -> JobState]
  BY DEF Shape
<1>7. /\ job' \in [Jobs -> JobState] /\ job'[Delete] = job[Delete]
      /\ \A r \in Runs : job'[Work(r)] = job[Work(r)]
  BY <1>1, <1>6, InterruptsAside
<1>8. TurnsAreTold'
  <2>1. \A h \in Connections : \A i \in 1..Len(events'[h]) :
                \E k \in 1..Len(events[h]) : events'[h][i] = events[h][k]
    BY <1>1, EventTaken
  <2>2. UNCHANGED <<turn, inputs>>
    BY <1>1 DEF Dequeues
  <2> HIDE DEF t
  <2> QED BY <1>1, <1>3, <1>4, <1>5, <2>1, <2>2, TurnIsTold
<1>9. /\ prompt' \in [Prompts -> PromptRow] /\ \A p \in Prompts : PromptGoesOn(p)
      /\ connection' \in Origins /\ loaded' \in BOOLEAN /\ (loaded' => loaded)
  BY <1>1 DEF Shape, PromptGoesOn, owner
<1> QED BY <1>1, <1>5, <1>7, <1>8, <1>9, EventGoesStep

LEMMA TurnCompletedStep ==
    ASSUME SessionInv, NEW g \in Connections, TurnCompleted(g)
    PROVE  GoesWell
<1> USE DEF SessionInv
<1> DEFINE t == Event(g).turn
           rs == WithTurn(latest, t)
<1>1. /\ events[g] # <<>> /\ Dequeues(g) /\ Matches(Event(g))
      /\ UNCHANGED <<service, session, latest, owner, job, counters>>
  BY DEF TurnCompleted, Arrives, Applies
<1>2. PICK status \in Final : Finish(rs, latest, status)
  BY DEF TurnCompleted, Final
<1>3. Event(g) \in EventState
  BY <1>1, DequeuesFacts
<1>4. /\ latest \in Runs /\ BusyWith(latest) /\ t \in Runs
      /\ \A s \in Runs \ {latest} : run[s].turn # t
  BY <1>1, <1>3, MatchesFacts
<1>5. inputs[t] # 0
  BY <1>1, <1>4, EventTaken, SessionBounds
<1>6. /\ rs \in [Runs -> Row] /\ rs[latest].turn = t /\ rs[latest].started = run[latest].started
      /\ \A s \in Runs \ {latest} : rs[s] = run[s]
  BY <1>4, WithTurnFacts
<1>7. ~Deleted /\ Active(run[latest])
  BY <1>4, BusyIsActive DEF BusyWith
<1>8. run' = [rs EXCEPT ![latest].status = status]
  BY <1>2 DEF Finish
<1> HIDE DEF rs
<1>9. /\ run' \in [Runs -> Row] /\ run'[latest].turn = t /\ run'[latest].status = status
      /\ run'[latest].started = run[latest].started
      /\ \A s \in Runs \ {latest} : run'[s] = run[s]
  <2>1. rs[latest] \in Row /\ run' = [rs EXCEPT ![latest] = [rs[latest] EXCEPT !.status = status]]
    BY <1>4, <1>6, <1>8
  <2>2. status \in RunStatus
    BY DEF Final, RunStatus
  <2>3. /\ [rs[latest] EXCEPT !.status = status] \in Row
        /\ [rs[latest] EXCEPT !.status = status].status = status
        /\ [rs[latest] EXCEPT !.status = status].started = rs[latest].started
        /\ [rs[latest] EXCEPT !.status = status].turn = rs[latest].turn
    BY <2>1, <2>2 DEF Row
  <2> QED BY <1>4, <1>6, <2>1, <2>3
<1>10. \A s \in Runs : RunGoesOn(s)
  <2>1. RunGoesOn(latest)
    BY <1>7, <1>9 DEF RunGoesOn, Active, Final
  <2>2. \A s \in Runs \ {latest} : RunGoesOn(s)
    BY <1>7, <1>9 DEF RunGoesOn
  <2> QED BY <2>1, <2>2
<1>11. TurnsAreTold'
  <2>1. \A h \in Connections : \A i \in 1..Len(events'[h]) :
                \E k \in 1..Len(events[h]) : events'[h][i] = events[h][k]
    BY <1>1, EventTaken
  <2>2. UNCHANGED <<turn, inputs>>
    BY <1>1 DEF Dequeues
  <2> HIDE DEF t
  <2> QED BY <1>1, <1>4, <1>5, <1>9, <2>1, <2>2, TurnIsTold
<1>12. prompt' \in [Prompts -> PromptRow] /\ \A p \in Prompts : PromptGoesOn(p)
  <2>1. \A p \in Prompts : prompt'[p] = prompt[p] \/ (IsOpen(prompt[p]) /\ prompt'[p] = Settled("expired"))
    BY <1>2 DEF Finish
  <2>2. Settled("expired") \in PromptRow /\ Settled("expired").status = "expired"
    BY DEF Settled, NoPrompt, PromptRow, PromptStatus, Origins, Names
  <2>3. prompt' \in [Prompts -> PromptRow]
    BY <1>2, <2>2 DEF Finish, Shape
  <2> QED BY <2>1, <2>2, <2>3 DEF PromptGoesOn, IsOpen
<1>13. /\ job' \in [Jobs -> JobState] /\ connection' \in Origins /\ loaded' \in BOOLEAN
       /\ (loaded' => loaded)
  BY <1>1 DEF Shape, owner
<1> QED BY <1>1, <1>9, <1>10, <1>11, <1>12, <1>13, EventGoesStep

LEMMA PromptArrivesStep ==
    ASSUME SessionInv, NEW g \in Connections, PromptArrives(g)
    PROVE  GoesWell
<1> USE DEF SessionInv
<1> DEFINE row == [status |-> "pending", on |-> g, turn |-> Event(g).turn]
<1>1. /\ events[g] # <<>> /\ Dequeues(g) /\ Event(g).kind = "prompt"
      /\ prompt' = [prompt EXCEPT ![Event(g).of] = row]
      /\ UNCHANGED <<service, session, run, latest, owner, job, counters>>
  BY DEF PromptArrives, Arrives
<1>2. Event(g) = events[g][1] /\ Event(g) \in EventState /\ 1 \in 1..Len(events[g])
  BY <1>1, DequeuesFacts
<1>3. row \in PromptRow
  BY <1>2 DEF EventState, PromptRow, PromptStatus, Origins
<1> HIDE DEF row
<1>4. prompt' \in [Prompts -> PromptRow]
  BY <1>1, <1>3 DEF Shape
<1>5. \A p \in Prompts : PromptGoesOn(p) \/ (prompt[p].status = "absent" /\ Event(g).of = p)
  <2> TAKE p \in Prompts
  <2>1. CASE Event(g).of = p
    BY <1>1, <1>2, <2>1 DEF PromptsAreNew, Announces
  <2>2. CASE Event(g).of # p
    BY <1>1, <2>2 DEF Shape, PromptGoesOn
  <2> QED BY <2>1, <2>2
<1>6. TurnsAreTold'
  BY <1>1, EventTurns
<1>7. /\ run' \in [Runs -> Row] /\ \A r \in Runs : RunGoesOn(r)
  BY <1>1, SameRuns
<1>8. /\ job' \in [Jobs -> JobState] /\ connection' \in Origins /\ loaded' \in BOOLEAN
      /\ (loaded' => loaded)
  BY <1>1 DEF Shape, owner
<1> QED BY <1>1, <1>4, <1>5, <1>6, <1>7, <1>8, EventGoesStep

LEMMA PromptIsResolvedStep ==
    ASSUME SessionInv, NEW g \in Connections, PromptIsResolved(g)
    PROVE  GoesWell
<1> USE DEF SessionInv
<1> DEFINE p == Event(g).of
<1>1. /\ events[g] # <<>> /\ Dequeues(g) /\ IsOpen(prompt[p])
      /\ prompt' = [prompt EXCEPT ![p] = Settled("resolved")]
      /\ UNCHANGED <<service, session, run, latest, owner, job, counters>>
  BY DEF PromptIsResolved, Arrives, Applies
<1> HIDE DEF p
<1>2. prompt' \in [Prompts -> PromptRow] /\ \A q \in Prompts : PromptGoesOn(q)
  <2>1. CASE p \in Prompts
    BY <1>1, <2>1, SettlesFacts
  <2>2. CASE p \notin Prompts
    BY <1>1, <2>2 DEF Shape, PromptGoesOn
  <2> QED BY <2>1, <2>2
<1>3. TurnsAreTold'
  BY <1>1, EventTurns
<1>4. /\ run' \in [Runs -> Row] /\ \A r \in Runs : RunGoesOn(r)
  BY <1>1, SameRuns
<1>5. /\ job' \in [Jobs -> JobState] /\ connection' \in Origins /\ loaded' \in BOOLEAN
      /\ (loaded' => loaded)
  BY <1>1 DEF Shape, owner
<1> QED BY <1>1, <1>2, <1>3, <1>4, <1>5, EventGoesStep

LEMMA ConnectionIsClosedStep ==
    ASSUME SessionInv, NEW g \in Connections, ConnectionIsClosed(g)
    PROVE  GoesWell
<1> USE DEF SessionInv
<1>1. /\ events[g] # <<>> /\ Dequeues(g) /\ connection' = NoConnection /\ loaded' = FALSE
      /\ run' = IF ~Busy THEN run ELSE
                [run EXCEPT ![latest].status = IF run[latest].stop THEN "interrupted" ELSE "failed"]
      /\ prompt' = Expired
      /\ UNCHANGED <<service, session, latest, job, counters>>
  BY DEF ConnectionIsClosed, Arrives
<1>2. /\ run' \in [Runs -> Row] /\ \A r \in Runs : run'[r].turn = run[r].turn /\ RunGoesOn(r)
  <2>1. CASE Busy
    <3>1. latest \in Runs /\ Active(run[latest])
      BY <2>1, BusyIsActive
    <3>2. PICK status \in Final : run' = [run EXCEPT ![latest].status = status]
      BY <1>1, <2>1 DEF Final
    <3> QED BY <3>1, <3>2, EndedGoesOn
  <2>2. CASE ~Busy
    BY <1>1, <2>2, SameRuns
  <2> QED BY <2>1, <2>2
<1>3. prompt' \in [Prompts -> PromptRow] /\ \A p \in Prompts : PromptGoesOn(p)
  BY <1>1, ExpiredFacts
<1>4. TurnsAreTold'
  BY <1>1, <1>2, EventTurns
<1>5. job' \in [Jobs -> JobState] /\ connection' \in Origins
  BY <1>1 DEF Shape, Origins
<1> QED BY <1>1, <1>2, <1>3, <1>4, <1>5, EventGoesStep

-----------------------------------------------------------------------------
(* The app-server processes, the shutdown and the start. *)

LEMMA TurnEndsStep ==
    ASSUME SessionInv, NEW r \in Runs, TurnEnds(r)
    PROVE  GoesWell
<1> USE DEF SessionInv
<1> DEFINE g == turn[r].on
<1>1. /\ turn[r].state = "running" /\ turn' = [turn EXCEPT ![r] = EndedTurn]
      /\ Queues(g, "turn_completed", None, r)
      /\ asked' = [p \in Prompts |-> IF asked[p].state = "yes" /\ asked[p].turn = r
                                  THEN OverRequest ELSE asked[p]]
      /\ UNCHANGED <<service, rows, owner, job, counters, threadOf, threads, inputs>>
  BY DEF TurnEnds
<1>2. g \in Origins /\ inputs[r] # 0
  BY <1>1 DEF Shape, TurnState, TurnsAreTold
<1> HIDE DEF g
<1>3. /\ events' \in [Connections -> Seq(EventState)]
      /\ \A h \in Connections : \A i \in 1..Len(events'[h]) :
           \/ i \in 1..Len(events[h]) /\ events'[h][i] = events[h][i]
           \/ events'[h][i].kind = "turn_completed" /\ events'[h][i].turn = r
  <2>1. "turn_completed" \in Kinds /\ r \in Names /\ None \in Prompts \cup {None}
    BY DEF Kinds, Names
  <2>2. /\ EventOf("turn_completed", None, r).kind = "turn_completed"
        /\ EventOf("turn_completed", None, r).turn = r
    BY DEF EventOf
  <2> QED BY <1>1, <1>2, <2>1, <2>2, QueuesFacts
<1>4. EndedTurn \in TurnState /\ EndedTurn.state = "ended"
  BY DEF EndedTurn, TurnState, Origins
<1>5. OverRequest \in RequestState /\ OverRequest.state = "over"
  BY DEF OverRequest, NoRequest, RequestState, Origins, Names
<1>6. turn' \in [Runs -> TurnState] /\ asked' \in [Prompts -> RequestState]
  BY <1>1, <1>4, <1>5 DEF Shape
<1>7. UNCHANGED <<session, run, latest, prompt, connection, loaded, opened, job, service, inputs>>
  BY <1>1 DEF rows, owner, counters
<1>8. Shape'
  BY <1>1, <1>3, <1>6, <1>7 DEF Shape
<1>9. TurnsAreTold'
  <2>1. \A s \in Runs : turn'[s].state = "running" => turn[s].state = "running"
    BY <1>1, <1>4 DEF Shape
  <2>2. \A h \in Connections : \A i \in 1..Len(events'[h]) :
              \/ events'[h][i].turn = None \/ inputs'[events'[h][i].turn] # 0
              \/ \E k \in 1..Len(events[h]) : events'[h][i] = events[h][k]
    BY <1>2, <1>3, <1>7
  <2> QED BY <1>7, <2>1, <2>2, TurnsKept
<1>10. PromptsAreNew'
  <2>1. \A p \in Prompts : asked'[p].state = "no" => asked[p].state = "no"
    BY <1>1, <1>5
  <2> QED BY <1>3, <1>7, <2>1, PromptsStay
<1>11. JobsKnow' /\ RunsAreInOrder' /\ StopHolds /\ OutcomesStay /\ ThreadIsSaved'
  <2>1. \A s \in Runs : JobGoesOn(s)
    BY <1>7 DEF JobGoesOn, Up
  <2> QED BY <1>7, <2>1, SameRows, RowsCarry DEF JobsKnow, ThreadIsSaved
<1> QED BY <1>8, <1>9, <1>10, <1>11 DEF GoesWell

\* A request is announced for the first time.
LEMMA AsksStep ==
    ASSUME SessionInv, NEW p \in Prompts, Asks(p)
    PROVE  GoesWell
<1> USE DEF SessionInv
<1>1. asked[p].state = "no"
      /\ UNCHANGED <<service, rows, owner, job, counters, threadOf, threads, turn, inputs>>
  BY DEF Asks
<1>2. PICK r \in Runs : \E t \in {r, None} :
        /\ turn[r].state = "running"
        /\ asked' = [asked EXCEPT ![p] = [state |-> "yes", on |-> turn[r].on, turn |-> t]]
        /\ Queues(turn[r].on, "prompt", p, t)
  BY DEF Asks
<1>2a. PICK t \in {r, None} :
        /\ turn[r].state = "running"
        /\ asked' = [asked EXCEPT ![p] = [state |-> "yes", on |-> turn[r].on, turn |-> t]]
        /\ Queues(turn[r].on, "prompt", p, t)
  BY <1>2
<1> DEFINE g == turn[r].on
<1>3. g \in Origins /\ inputs[r] # 0 /\ t \in Names
  BY <1>2a DEF Shape, TurnState, TurnsAreTold, Names
<1>4. /\ events' \in [Connections -> Seq(EventState)]
      /\ \A h \in Connections : \A i \in 1..Len(events'[h]) :
           \/ i \in 1..Len(events[h]) /\ events'[h][i] = events[h][i]
           \/ /\ h = g /\ i = Len(events[g]) + 1
              /\ events'[h][i].kind = "prompt" /\ events'[h][i].of = p /\ events'[h][i].turn = t
  <2>1. "prompt" \in Kinds /\ p \in Prompts \cup {None}
    BY DEF Kinds
  <2>2. EventOf("prompt", p, t).kind = "prompt" /\ EventOf("prompt", p, t).of = p
        /\ EventOf("prompt", p, t).turn = t
    BY DEF EventOf
  <2> QED BY <1>2a, <1>3, <2>1, <2>2, QueuesFacts
<1>5. /\ asked' \in [Prompts -> RequestState] /\ asked'[p].state = "yes"
      /\ \A q \in Prompts \ {p} : asked'[q] = asked[q]
  BY <1>2a, <1>3 DEF Shape, RequestState
<1> HIDE DEF g
<1>6. UNCHANGED <<session, run, latest, prompt, connection, loaded, opened, job, service, inputs, turn>>
  BY <1>1 DEF rows, owner, counters
<1>7. Shape'
  BY <1>1, <1>4, <1>5, <1>6 DEF Shape
<1>8. TurnsAreTold'
  <2>1. \A h \in Connections : \A i \in 1..Len(events'[h]) :
              \/ events'[h][i].turn = None \/ inputs'[events'[h][i].turn] # 0
              \/ \E k \in 1..Len(events[h]) : events'[h][i] = events[h][k]
    BY <1>3, <1>4, <1>6
  <2> QED BY <1>6, <2>1, TurnsKept
<1>9. prompt[p].status = "absent"
      /\ \A h \in Connections : \A i \in 1..Len(events[h]) : ~Announces(h, i, p)
  BY <1>1 DEF PromptsAreNew
<1>10. \A q \in Prompts : \A h \in Connections : \A i \in 1..Len(events'[h]) :
         Announces(h, i, q)' => \/ q # p /\ i \in 1..Len(events[h]) /\ Announces(h, i, q)
                                \/ q = p /\ h = g /\ i = Len(events[g]) + 1
  BY <1>4, <1>9 DEF Announces
<1>11. PromptsAreNew'
  <2>1. \A q \in Prompts : asked'[q].state = "no" => prompt'[q].status = "absent"
    BY <1>5, <1>6 DEF PromptsAreNew
  <2>2. \A q \in Prompts : \A h \in Connections : \A i \in 1..Len(events'[h]) :
          Announces(h, i, q)' => asked'[q].state # "no" /\ prompt'[q].status = "absent"
    BY <1>5, <1>6, <1>9, <1>10 DEF PromptsAreNew
  <2>3. \A q \in Prompts : \A h, l \in Connections :
          \A i \in 1..Len(events'[h]) : \A k \in 1..Len(events'[l]) :
            Announces(h, i, q)' /\ Announces(l, k, q)' => h = l /\ i = k
    BY <1>10 DEF PromptsAreNew
  <2> QED BY <2>1, <2>2, <2>3 DEF PromptsAreNew
<1>12. JobsKnow' /\ RunsAreInOrder' /\ StopHolds /\ OutcomesStay /\ ThreadIsSaved'
  <2>1. \A s \in Runs : JobGoesOn(s)
    BY <1>6 DEF JobGoesOn, Up
  <2> QED BY <1>6, <2>1, SameRows, RowsCarry DEF JobsKnow, ThreadIsSaved
<1> QED BY <1>7, <1>8, <1>11, <1>12 DEF GoesWell

LEMMA WithdrawsStep ==
    ASSUME SessionInv, NEW p \in Prompts, Withdraws(p)
    PROVE  GoesWell
<1> USE DEF SessionInv
<1>1. /\ asked' = [asked EXCEPT ![p] = OverRequest]
      /\ Queues(asked[p].on, "resolved", p, None)
      /\ UNCHANGED <<service, rows, owner, job, counters, threadOf, threads, turn, inputs>>
  BY DEF Withdraws
<1>2. asked[p].on \in Origins
  BY DEF Shape, RequestState
<1>3. OverRequest \in RequestState /\ OverRequest.state = "over"
  BY DEF OverRequest, NoRequest, RequestState, Origins, Names
<1>4. /\ events' \in [Connections -> Seq(EventState)]
      /\ \A h \in Connections : \A i \in 1..Len(events'[h]) :
           \/ i \in 1..Len(events[h]) /\ events'[h][i] = events[h][i]
           \/ events'[h][i].kind = "resolved" /\ events'[h][i].turn = None
  <2>1. "resolved" \in Kinds /\ None \in Names /\ p \in Prompts \cup {None}
    BY DEF Kinds, Names
  <2>2. EventOf("resolved", p, None).kind = "resolved" /\ EventOf("resolved", p, None).turn = None
    BY DEF EventOf
  <2> QED BY <1>1, <1>2, <2>1, <2>2, QueuesFacts
<1>5. asked' \in [Prompts -> RequestState] /\ \A q \in Prompts : asked'[q].state = "no" => asked[q].state = "no"
  BY <1>1, <1>3 DEF Shape
<1>6. Quiet
  BY <1>1, <1>4, <1>5 DEF Quiet, Shape
<1>7. /\ job' \in [Jobs -> JobState] /\ \A k \in Jobs \ {Shutdown} : job'[k] = job[k]
      /\ connection' \in Origins /\ loaded' \in BOOLEAN /\ (loaded' => loaded) /\ opened' \in Nat
  BY <1>1 DEF Shape, owner, counters
<1> QED BY <1>1, <1>6, <1>7, JobNames, OnlyAJob

LEMMA ShutdownBeginsStep ==
    ASSUME SessionInv, ShutdownBegins
    PROVE  GoesWell
<1> USE DEF SessionInv
<1> DEFINE jobs == [job EXCEPT ![Shutdown].pc = "wait"]
<1>1. /\ service = "up" /\ service' = "closing"
      /\ UNCHANGED <<session, latest, prompt, owner, harness, counters>>
      /\ \/ Busy /\ run' = Stopping(latest) /\ job' = WithInterrupt(jobs, Stopping(latest))
         \/ ~Busy /\ run' = run /\ job' = jobs
  BY DEF ShutdownBegins
<1>2. jobs \in [Jobs -> JobState] /\ \A k \in Jobs \ {Shutdown} : jobs[k] = job[k]
  <2>1. "wait" \in Steps /\ job[Shutdown] \in JobState
    BY JobNames DEF Steps, Shape
  <2> DEFINE state == [job[Shutdown] EXCEPT !.pc = "wait"]
  <2>2. state \in JobState
    BY <2>1 DEF JobState
  <2>3. jobs = [job EXCEPT ![Shutdown] = state]
    OBVIOUS
  <2> HIDE DEF state, jobs
  <2> QED BY <2>2, <2>3, JobNames DEF Shape
<1> HIDE DEF jobs
<1>3. /\ job' \in [Jobs -> JobState] /\ job'[Delete] = job[Delete]
      /\ \A s \in Runs : job'[Work(s)] = job[Work(s)]
  <2>1. jobs[Delete] = job[Delete] /\ \A s \in Runs : jobs[Work(s)] = job[Work(s)]
    BY <1>2, JobNames
  <2>2. CASE job' = WithInterrupt(jobs, Stopping(latest))
    BY <1>2, <2>1, <2>2, InterruptsAside
  <2> QED BY <1>1, <1>2, <2>1, <2>2
<1>4. /\ run' \in [Runs -> Row] /\ \A s \in Runs : run'[s].turn = run[s].turn /\ RunGoesOn(s)
  <2>1. CASE Busy /\ run' = Stopping(latest)
    <3>1. latest \in Runs /\ BusyWith(latest)
      BY <2>1, BusyIsActive DEF BusyWith
    <3> QED BY <2>1, <3>1, StoppedGoesOn
  <2>2. CASE run' = run
    BY <2>2, SameRuns
  <2> QED BY <1>1, <2>1, <2>2
<1>5. Quiet
  BY <1>1, NothingIsQuiet DEF harness
<1>6. Shape'
  BY <1>1, <1>3, <1>4 DEF Shape, owner, harness, counters
<1>7. \A s \in Runs : JobGoesOn(s)
  BY <1>1, <1>3 DEF JobGoesOn, Up
<1>8. /\ loaded' => session'.thread # NoConnection
      /\ Deleted' <=> Deleted
      /\ Deleted => job'[Delete].pc = "idle"
      /\ \A p \in Prompts : PromptGoesOn(p)
  BY <1>1, <1>3 DEF ThreadIsSaved, owner, Deleted, JobsKnow, PromptGoesOn
<1> QED BY <1>1, <1>4, <1>5, <1>6, <1>7, <1>8, Carried

\* The processes end with the server, and every job with it.
LEMMA ServerEndsStep ==
    ASSUME SessionInv, ServerEnds, service' \in {"down", "dead"}
    PROVE  GoesWell
<1> USE DEF SessionInv
<1>1. /\ connection' = NoConnection /\ loaded' = FALSE
      /\ job' = [j \in Jobs |-> Idle]
      /\ events' = [g \in Connections |-> <<>>]
      /\ turn' = [r \in Runs |-> IF turn[r].state = "running" THEN EndedTurn ELSE turn[r]]
      /\ asked' = [p \in Prompts |-> IF asked[p].state = "yes" THEN OverRequest ELSE asked[p]]
      /\ UNCHANGED <<rows, threadOf, threads, inputs, counters>>
  BY DEF ServerEnds
<1>2. EndedTurn \in TurnState /\ EndedTurn.state = "ended"
  BY DEF EndedTurn, TurnState, Origins
<1>3. OverRequest \in RequestState /\ OverRequest.state = "over"
  BY DEF OverRequest, NoRequest, RequestState, Origins, Names
<1>4. events' \in [Connections -> Seq(EventState)] /\ \A h \in Connections : Len(events'[h]) = 0
  BY <1>1
<1>5. Quiet
  <2>1. turn' \in [Runs -> TurnState] /\ \A r \in Runs : turn'[r].state # "running"
    BY <1>1, <1>2 DEF Shape
  <2>2. asked' \in [Prompts -> RequestState] /\ \A p \in Prompts : asked'[p].state = "no" => asked[p].state = "no"
    BY <1>1, <1>3 DEF Shape
  <2>3. \A h \in Connections : \A i \in 1..Len(events'[h]) : FALSE
    BY <1>4
  <2>4. UNCHANGED <<threadOf, threads, inputs>>
    BY <1>1
  <2> QED BY <1>4, <2>1, <2>2, <2>3, <2>4 DEF Quiet, Shape
<1>6. job' \in [Jobs -> JobState] /\ \A j \in Jobs : job'[j] = Idle
  BY <1>1, IdleState
<1>7. UNCHANGED <<session, run, latest, prompt>>
  BY <1>1 DEF rows
<1>8. Shape'
  BY <1>1, <1>5, <1>6, <1>7 DEF Shape, Quiet, Origins, counters
<1>9. ~Up'
  BY DEF Up
<1>10. \A r \in Runs : JobGoesOn(r)
  BY <1>6, <1>9, JobNames, IdleState DEF JobGoesOn, Knows, Unsent, Closing
<1>11. (loaded' => session'.thread # NoConnection) /\ (Deleted => job'[Delete].pc = "idle")
  BY <1>1, <1>6, JobNames, IdleState
<1> QED BY <1>5, <1>7, <1>8, <1>10, <1>11, SameRows, Carried

\* What was unfinished is settled.
LEMMA StartStep ==
    ASSUME SessionInv, Start
    PROVE  GoesWell
<1> USE DEF SessionInv
<1>1. /\ run' = [r \in Runs |-> IF Active(run[r]) THEN [run[r] EXCEPT !.status = "interrupted"] ELSE run[r]]
      /\ prompt' = Expired
      /\ job' = [j \in Jobs |-> IF j = Delete /\ session.status \in {"deleting", "delete_uncertain"}
                             THEN DeleteBegins("reconcile") ELSE Idle]
      /\ UNCHANGED <<session, latest, owner, harness, opened>>
  BY DEF Start
<1>2. job' \in [Jobs -> JobState] /\ \A r \in Runs : job'[Work(r)] = Idle
  BY <1>1, DeleteStates, IdleState, JobNames
<1>3. Deleted => job'[Delete] = Idle
  BY <1>1, JobNames DEF Deleted
<1>4. ASSUME NEW r \in Runs
      PROVE  /\ run'[r] \in Row /\ run'[r].turn = run[r].turn /\ RunGoesOn(r)
             /\ ~Active(run'[r])
  <2>1. run[r] \in Row /\ "interrupted" \in RunStatus
    BY DEF Shape, RunStatus
  <2>2. CASE Active(run[r])
    <3>1. run'[r] = [run[r] EXCEPT !.status = "interrupted"]
      BY <1>1, <2>2
    <3>2. /\ run'[r] \in Row /\ run'[r].turn = run[r].turn /\ run'[r].started = run[r].started
          /\ run'[r].status = "interrupted"
      BY <2>1, <3>1 DEF Row
    <3>3. ~Deleted
      BY <2>2, OnlyLatestIsActive
    <3> QED BY <2>2, <3>2, <3>3 DEF RunGoesOn, Active
  <2>3. CASE ~Active(run[r])
    BY <1>1, <2>1, <2>3 DEF RunGoesOn
  <2> QED BY <2>2, <2>3
<1>5. run' \in [Runs -> Row]
  <2>1. run' = [r \in Runs |-> run'[r]]
    BY <1>1
  <2> QED BY <1>4, <2>1
<1>6. prompt' \in [Prompts -> PromptRow] /\ \A p \in Prompts : PromptGoesOn(p)
  BY <1>1, ExpiredFacts
<1>7. Quiet
  BY <1>1, NothingIsQuiet DEF harness
<1>8. Shape'
  BY <1>1, <1>2, <1>5, <1>6 DEF Shape, owner, harness
<1>9. \A r \in Runs : JobGoesOn(r)
  BY <1>2, <1>4, IdleState DEF JobGoesOn, Knows, Unsent, Closing
<1>10. /\ loaded' => session'.thread # NoConnection
       /\ Deleted' <=> Deleted
       /\ Deleted => job'[Delete].pc = "idle"
  BY <1>1, <1>3, IdleState DEF ThreadIsSaved, owner, Deleted
<1> QED BY <1>1, <1>4, <1>6, <1>7, <1>8, <1>9, <1>10, Carried

-----------------------------------------------------------------------------
(* The session. *)

LEMMA InitHolds ==
    ASSUME Init
    PROVE  SessionInv
<1>1. /\ NoRow \in Row /\ NoRow.turn = None /\ NoRow.status = "absent" /\ ~NoRow.started
      /\ NoPrompt \in PromptRow /\ NoPrompt.status = "absent"
      /\ NoTurn \in TurnState /\ NoTurn.state = "none"
      /\ NoRequest \in RequestState
  BY DEF NoRow, Row, RunStatus, NoPrompt, PromptRow, PromptStatus, Origins, Names,
         NoTurn, TurnState, NoRequest, RequestState
<1>2. Shape
  <2>1. session \in SessionRow /\ latest \in Names /\ connection \in Origins
    BY DEF Init, SessionRow, Origins, Names
  <2>2. /\ run \in [Runs -> Row] /\ prompt \in [Prompts -> PromptRow] /\ loaded \in BOOLEAN
        /\ job \in [Jobs -> JobState]
    BY <1>1, IdleState DEF Init
  <2>3. /\ events \in [Connections -> Seq(EventState)]
        /\ threadOf \in [Connections -> Origins] /\ threads \subseteq Connections
    BY DEF Init, Origins
  <2>4. /\ turn \in [Runs -> TurnState] /\ inputs \in [Runs -> Nat]
        /\ asked \in [Prompts -> RequestState] /\ opened \in Nat
    BY <1>1 DEF Init
  <2> QED BY <2>1, <2>2, <2>3, <2>4 DEF Shape
<1>3. JobsKnow
  BY JobNames, IdleState DEF Init, JobsKnow, Knows, Unsent, Closing, Deleted
<1>4. RunsAreInOrder
  BY <1>1 DEF Init, RunsAreInOrder, Active, Deleted
<1>5. TurnsAreTold
  BY <1>1 DEF Init, TurnsAreTold
<1>6. PromptsAreNew
  BY <1>1 DEF Init, PromptsAreNew, Announces
<1>7. ThreadIsSaved
  BY DEF Init, ThreadIsSaved
<1> QED BY <1>2, <1>3, <1>4, <1>5, <1>6, <1>7 DEF SessionInv

LEMMA StepHolds ==
    ASSUME SessionInv, [Next]_vars
    PROVE  GoesWell
<1>1. CASE Command
  <2>1. ASSUME NEW r \in Runs, Send(r) \/ Stop(r) PROVE GoesWell
    BY <2>1, SendStep, StopStep
  <2>2. ASSUME NEW p \in Prompts, Answer(p) PROVE GoesWell
    BY <2>2, AnswerBeginsStep
  <2> QED BY <1>1, <2>1, <2>2, DeleteSessionStep DEF Command
<1>2. CASE HarnessStep
  <2>1. ASSUME NEW r \in Runs, HarnessCreates(r) \/ HarnessTakesInput(r) \/ TurnEnds(r)
        PROVE  GoesWell
    BY <2>1, HarnessCreatesStep, HarnessTakesInputStep, TurnEndsStep
  <2>2. ASSUME NEW p \in Prompts, Asks(p) \/ Withdraws(p) PROVE GoesWell
    BY <2>2, AsksStep, WithdrawsStep
  <2>3. ASSUME NEW g \in Connections, LinkDies(g) \/ StopsReading(g) \/ ReadsAgain(g)
        PROVE  GoesWell
    BY <2>3, LinkDiesStep, PipeStep
  <2> QED BY <1>2, <2>1, <2>2, <2>3, HarnessDeletesStep DEF HarnessStep
<1>3. ASSUME NEW r \in Runs, WorkStep(r) PROVE GoesWell
  BY <1>3, WorkClosesStep, WorkOpensStep, WorkCallFailsStep, WorkMissesThreadStep, WorkSubmitsStep,
     WorkAdoptsStep, WorkResumesStep, WorkRecordsTurnStep, WorkWaitsStep DEF WorkStep
<1>4. ASSUME NEW r \in Runs, InterruptStep(r) PROVE GoesWell
  BY <1>4, InterruptGivesUpStep, InterruptFinishesStep DEF InterruptStep
<1>5. ASSUME NEW p \in Prompts, AnswerStep(p) PROVE GoesWell
  BY <1>5, AnswerRespondsStep, AnswerSettlesStep, AnswerFailsStep DEF AnswerStep
<1>6. ASSUME NEW j \in Jobs, CommonStep(j) PROVE GoesWell
  BY <1>6, CloseReturnsStep, FailFinishesStep, JobEndsStep DEF CommonStep
<1>7. ASSUME NEW g \in Connections, EventStep(g) PROVE GoesWell
  BY <1>7, EventIsIgnoredStep, TurnStartedStep, TurnCompletedStep, PromptArrivesStep,
     PromptIsResolvedStep, ConnectionIsClosedStep DEF EventStep
<1>8. CASE DeleteStep
  BY <1>8, DeleteConnectsStep, DeleteCallFailsStep, DeleteLearnsStep, DeleteForgetsStep,
     DeleteDecidesStep DEF DeleteStep
<1>9. CASE ShutdownBegins
  BY <1>9, ShutdownBeginsStep
<1>10. CASE ShutdownStep
  BY <1>10, ShutdownWaitsStep, ShutdownFinishesStep, ServerEndsStep DEF ShutdownStep, ShutdownEnds
<1>11. CASE Crash
  BY <1>11, ServerEndsStep DEF Crash
<1>12. CASE Start
  BY <1>12, StartStep
<1>13. CASE UNCHANGED vars
  <2>1. Quiet
    BY <1>13, NothingIsQuiet DEF vars, harness, SessionInv
  <2>2. /\ UNCHANGED <<service, rows>> /\ opened' \in Nat /\ connection' \in Origins
        /\ loaded' \in BOOLEAN /\ (loaded' => loaded) /\ job' \in [Jobs -> JobState]
        /\ \A k \in Jobs \ {Shutdown} : job'[k] = job[k]
    BY <1>13 DEF vars, owner, counters, SessionInv, Shape
  <2> QED BY <2>1, <2>2, JobNames, OnlyAJob
<1> QED BY <1>1, <1>2, <1>3, <1>4, <1>5, <1>6, <1>7, <1>8, <1>9, <1>10, <1>11, <1>12, <1>13
           DEF Next

\* In every reachable state the invariant holds, for any number of runs, prompts, processes,
\* queued events and restarts, whatever is deleted, closed or crashes.
THEOREM SessionInvariant == Spec => []SessionInv
<1>1. Init => SessionInv
  BY InitHolds
<1>2. SessionInv /\ [Next]_vars => SessionInv'
  BY StepHolds DEF GoesWell
<1> QED BY <1>1, <1>2, PTL DEF Spec

\* The input of a run reaches the harness once at most, whatever fails around its
\* submission: a job submits a run that has no input yet, and no other job has it.
THEOREM InputsAreSentOnce == Spec => []InputIsSentOnce
<1>1. ASSUME SessionInv PROVE InputIsSentOnce
  <2>1. ASSUME NEW r \in Runs PROVE inputs[r] <= 1
    <3>1. inputs[r] \in {0, 1}
      BY <1>1 DEF SessionInv, RunsAreInOrder
    <3>2. \A n \in {0, 1} : n <= 1
      OBVIOUS
    <3> QED BY <3>1, <3>2
  <2> QED BY <2>1 DEF InputIsSentOnce
<1> QED BY <1>1, SessionInvariant, PTL

\* No turn counts for two runs, an unfinished run is the latest and has a job, and the thread
\* it runs in is saved.
THEOREM UnfinishedRunsAreOwned == Spec => []ActiveIsOwned
<1>1. ASSUME SessionInv PROVE ActiveIsOwned
  <2> USE <1>1 DEF SessionInv
  <2>1. \A r, s \in Runs : r # s => run[r].turn = None \/ run[r].turn # run[s].turn
    BY DEF TurnsAreTold
  <2>2. \A r \in Runs : Serves(r) => Running(Work(r))
    BY DEF Serves, Unsent, Closing, Running
  <2>3. \A r \in Runs : Active(run[r]) => latest = r /\ (Up => Running(Work(r)))
    BY <2>2 DEF RunsAreInOrder
  <2>4. loaded => session.thread # NoConnection
    BY DEF ThreadIsSaved
  <2> QED BY <2>1, <2>3, <2>4 DEF ActiveIsOwned
<1> QED BY <1>1, SessionInvariant, PTL

\* A stop that was acknowledged before the submission prevents it.
THEOREM StopsPreventInput == Spec => StopPreventsInput
<1>1. SessionInv /\ [Next]_vars =>
        [\A r \in Runs : run[r].stop /\ ~run[r].started
           => ~run'[r].started /\ inputs'[r] = inputs[r]]_vars
  BY StepHolds DEF GoesWell, StopHolds
<1> QED BY <1>1, SessionInvariant, PTL DEF Spec, StopPreventsInput

\* The outcome of a run, or of a prompt, is final.
THEOREM OutcomesAreFinal == Spec => OutcomeIsFinal
<1>1. SessionInv /\ [Next]_vars =>
        [~Deleted' =>
          /\ \A r \in Runs : run[r].status \in {"completed", "failed", "interrupted"}
                               => run'[r].status = run[r].status
          /\ \A p \in Prompts : prompt[p].status \in {"resolved", "expired"}
                               => prompt'[p].status = prompt[p].status]_vars
  BY StepHolds DEF GoesWell, OutcomesStay
<1> QED BY <1>1, SessionInvariant, PTL DEF Spec, OutcomeIsFinal

=============================================================================
