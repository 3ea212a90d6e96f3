---------------------------- MODULE CodeSessions ----------------------------
(***************************************************************************)
(* One coding session of CodeService (application/code_sessions/service.py) *)
(* with its rows in SQLiteCodeStore (runtime/code_sessions_sqlite.py) and   *)
(* the Codex app-server processes it owns (runtime/codex_app_server.py).    *)
(*                                                                          *)
(* Commands, jobs and events of the harness interleave.  An action is a     *)
(* stretch under the session's lock, together with the reply that leads to  *)
(* it: the lock is granted in turn, so who has its reply is served before   *)
(* what comes later.  A run is named by its operation id, the native turn   *)
(* of a run by that run, a connection by its generation and a native thread *)
(* by the connection that created it.  Rows and their copies in memory only *)
(* change together: there is one copy of them.  Transcript items, settings, *)
(* revisions (a stale one is refused) and a store that fails are left out.  *)
(***************************************************************************)
EXTENDS Naturals, Sequences

CONSTANTS Runs, Prompts, None,
          MaxConnections,  \* app-server processes ever started (a bound)
          MaxQueued,       \* events a process is ahead of the service (a bound)
          Disturbances,    \* which of "delete", "shutdown" and "crash" may happen
          MaxRestarts      \* times the server starts again (a bound)

ASSUME SessionBounds ==
    /\ None \notin Runs
    /\ MaxConnections \in Nat /\ MaxQueued \in Nat \ {0} /\ MaxRestarts \in Nat
    /\ Disturbances \subseteq {"delete", "shutdown", "crash"}

Connections == 1..MaxConnections
NoConnection == 0

Work(r) == <<"work", r>>
Interrupt(r) == <<"interrupt", r>>
Reply(p) == <<"answer", p>>
Delete == <<"delete", None>>
Shutdown == <<"shutdown", None>>
Jobs == {Work(r) : r \in Runs} \cup {Interrupt(r) : r \in Runs}
        \cup {Reply(p) : p \in Prompts} \cup {Delete, Shutdown}

VARIABLES
    service,       \* CodeService: "up", "closing", closed ("down") or killed ("dead")
    \* rows of the store
    session,       \* [status, thread]
    run, latest, prompt,
    \* _Owner
    connection,    \* connection and generation
    loaded,        \* loaded_thread_id is the session's thread
    job,           \* where each job is, the connection it holds, what follows a close
    \* the app-server processes
    link, events, threadOf, threads, turn, inputs, asked,
    clogged,       \* alive ones that do not read: what is written to them is not drained
    opened, restarts

rows == <<session, run, latest, prompt>>
owner == <<connection, loaded>>
harness == <<link, events, threadOf, threads, turn, inputs, asked, clogged>>
counters == <<opened, restarts>>
vars == <<service, rows, owner, job, harness, counters>>

Idle == [pc |-> "idle", conn |-> NoConnection, run |-> None, then |-> "done"]
NoRow == [status |-> "absent", stop |-> FALSE, started |-> FALSE, turn |-> None]
NoPrompt == [status |-> "absent", on |-> NoConnection, turn |-> None]
NoTurn == [state |-> "none", on |-> NoConnection]
EndedTurn == [state |-> "ended", on |-> NoConnection]
NoRequest == [state |-> "no", on |-> NoConnection, turn |-> None]
OverRequest == [NoRequest EXCEPT !.state = "over"]

Init ==
    /\ service = "up"
    /\ session = [status |-> "ready", thread |-> NoConnection]
    /\ run = [r \in Runs |-> NoRow] /\ latest = None
    /\ prompt = [p \in Prompts |-> NoPrompt]
    /\ connection = NoConnection /\ loaded = FALSE
    /\ job = [j \in Jobs |-> Idle]
    /\ link = [g \in Connections |-> "none"] /\ events = [g \in Connections |-> <<>>]
    /\ threadOf = [g \in Connections |-> NoConnection] /\ threads = {}
    /\ turn = [r \in Runs |-> NoTurn] /\ inputs = [r \in Runs |-> 0]
    /\ asked = [p \in Prompts |-> NoRequest] /\ clogged = {}
    /\ opened = 0 /\ restarts = 0

-----------------------------------------------------------------------------
Active(row) == row.status \in {"preparing", "running", "stopping"}
Busy == latest # None /\ Active(run[latest])
BusyWith(r) == latest = r /\ Busy
IsOpen(q) == q.status \in {"pending", "answering"}
Pending == \E p \in Prompts : IsOpen(prompt[p])
Accepting == service = "up"
Deleted == session.status = "gone"
MayHaveInput == \E r \in Runs : run[r].started
KnownTurns == {run[r].turn : r \in Runs} \ {None}

Up == service \in {"up", "closing"}
At(j, pc) == Up /\ job[j].pc = pc
Running(j) == job[j].pc \notin {"idle", "done"}
\* Only the interrupt of a run that goes on leaves a trace (interrupt_for).
Step(j, pc) == IF pc = "done" /\ ~(j[1] = "interrupt" /\ Active(run[j[2]]))
               THEN Idle ELSE [job[j] EXCEPT !.pc = pc]
Goes(j, pc) == job' = [job EXCEPT ![j] = Step(j, pc)]

\* The finally clause of _work; an answer has none.
Ends(j) == Goes(j, IF Accepting \/ j[1] # "work" THEN "done" ELSE "final")

\* _schedule_interrupt, at the end of a locked stretch that leaves these rows.
WithInterrupt(jobs, rs) ==
    IF /\ latest # None /\ connection # NoConnection
       /\ rs[latest].stop /\ rs[latest].turn # None /\ Active(rs[latest])
       /\ jobs[Interrupt(latest)].pc = "idle"
    THEN [jobs EXCEPT ![Interrupt(latest)] = [Idle EXCEPT !.pc = "call", !.conn = connection]]
    ELSE jobs

Settled(status) == [NoPrompt EXCEPT !.status = status]

\* _finish_locked
Finish(rs, r, status) ==
    /\ run' = [rs EXCEPT ![r].status = status]
    /\ prompt' = [p \in Prompts |->
                    IF IsOpen(prompt[p]) /\ prompt[p].turn # None /\ prompt[p].turn = rs[r].turn
                    THEN Settled("expired") ELSE prompt[p]]

\* _expire_prompts_locked
Expired == [p \in Prompts |-> IF IsOpen(prompt[p]) THEN Settled("expired") ELSE prompt[p]]

EventOf(kind, p, t) == [kind |-> kind, of |-> p, turn |-> t]
Queues(g, kind, p, t) == events' = [events EXCEPT ![g] = Append(@, EventOf(kind, p, t))]
MayAct(g) == link[g] = "alive" /\ Len(events[g]) < MaxQueued
Reads(g) == link[g] = "alive" /\ g \notin clogged

\* The process of connection g ends: _read fails what is pending and queues
\* "closed" behind the events that were read.
LinkEnds(g) ==
    IF g # NoConnection /\ link[g] = "alive"
    THEN /\ link' = [link EXCEPT ![g] = "ending"]
         /\ Queues(g, "closed", None, None)
         /\ turn' = [r \in Runs |-> IF turn[r].on = g THEN EndedTurn ELSE turn[r]]
         /\ asked' = [p \in Prompts |-> IF asked[p].on = g THEN OverRequest ELSE asked[p]]
         /\ clogged' = clogged \ {g}
         /\ UNCHANGED <<threadOf, threads, inputs>>
    ELSE UNCHANGED harness

\* close() has waited for the process and for the events it has queued.
IsEnded(g) == IF g = NoConnection THEN TRUE ELSE link[g] = "ended"

\* _close_connection takes the owner's connection away ...
Takes(j, then) ==
    /\ job' = [job EXCEPT ![j].pc = "closing", ![j].conn = connection, ![j].then = then]
    /\ connection' = NoConnection /\ loaded' = FALSE
    /\ LinkEnds(connection)

\* _fail of run r, the run of a work job or the current one of an answer.
Fails(j, r) ==
    IF BusyWith(r)
    THEN /\ job' = [job EXCEPT ![j] = [Idle EXCEPT !.pc = "closing", !.conn = connection,
                                                   !.run = r, !.then = "fail"]]
         /\ connection' = NoConnection /\ loaded' = FALSE
         /\ LinkEnds(connection)
    ELSE Ends(j) /\ UNCHANGED <<owner, harness>>

-----------------------------------------------------------------------------
\* Commands.

\* _work, before its first await.  A connection in use is kept when it is alive
\* and was started for the selected model.
WorkBegins(r) ==
    \/ /\ connection = NoConnection
       /\ job' = [job EXCEPT ![Work(r)].pc = "open"]
    \/ /\ connection # NoConnection
       /\ job' = [job EXCEPT ![Work(r)].pc = "close"]
    \/ /\ connection # NoConnection /\ link[connection] = "alive"
       /\ job' = [job EXCEPT ![Work(r)].conn = connection,
                             ![Work(r)].pc = IF session.thread = NoConnection THEN "create"
                                             ELSE IF loaded THEN "submit" ELSE "resume"]

\* Mutant: the receipt of an earlier admission is not looked up.
MutSend(r) ==
    /\ Accepting /\ session.status = "ready"
    /\ ~Busy /\ ~Pending /\ ~Running(Work(r))
    /\ run' = [run EXCEPT ![r] = [NoRow EXCEPT !.status = "preparing"]] /\ latest' = r
    /\ WorkBegins(r)
    /\ UNCHANGED <<service, session, prompt, owner, harness, counters>>

\* _send, admit_run: a known operation id returns its receipt.
Send(r) ==
    /\ Accepting /\ session.status = "ready"
    /\ run[r] = NoRow
    /\ ~Busy /\ ~Pending
    /\ run' = [run EXCEPT ![r].status = "preparing"] /\ latest' = r
    /\ WorkBegins(r)
    /\ UNCHANGED <<service, session, prompt, owner, harness, counters>>

Stopping(r) == [run EXCEPT ![r].stop = TRUE, ![r].status = "stopping"]

\* _stop
Stop(r) ==
    /\ Accepting /\ BusyWith(r) /\ ~run[r].stop
    /\ run' = Stopping(r)
    /\ job' = WithInterrupt(job, Stopping(r))
    /\ UNCHANGED <<service, session, latest, prompt, owner, harness, counters>>

\* _answer, prepare_answer, claim_prompt
Answer(p) ==
    /\ Accepting /\ ~Deleted /\ prompt[p].status = "pending"
    /\ connection # NoConnection /\ prompt[p].on = connection
    /\ asked[p].state = "yes"
    /\ prompt' = [prompt EXCEPT ![p].status = "answering"]
    /\ job' = [job EXCEPT ![Reply(p)] = [Idle EXCEPT !.pc = "respond", !.conn = connection]]
    /\ UNCHANGED <<service, session, run, latest, owner, harness, counters>>

\* The call of a deletion, or of its check.
CallOf(pc) == IF pc = "remove" THEN "remove_call" ELSE "reconcile_call"

\* _delete_native, before its first await: "remove", or its check, "reconcile".
DeleteBegins(pc) ==
    IF session.thread = NoConnection THEN [Idle EXCEPT !.pc = "untracked"]
    ELSE IF connection = NoConnection THEN [Idle EXCEPT !.pc = pc]
    ELSE [Idle EXCEPT !.pc = CallOf(pc), !.conn = connection]

\* _delete of a session that is ready, or whose deletion ended uncertain.
DeleteSession ==
    /\ "delete" \in Disturbances /\ Accepting
    /\ \/ /\ session.status = "ready" /\ ~Busy /\ ~Pending
          /\ session' = [session EXCEPT !.status = "deleting"]
          /\ job' = [job EXCEPT ![Delete] = DeleteBegins("remove")]
       \/ /\ session.status = "delete_uncertain" /\ ~Running(Delete)
          /\ job' = [job EXCEPT ![Delete] = DeleteBegins("reconcile")]
          /\ UNCHANGED session
    /\ UNCHANGED <<service, run, latest, prompt, owner, harness, counters>>

Command ==
    \/ \E r \in Runs : Send(r) \/ Stop(r)
    \/ \E p \in Prompts : Answer(p)
    \/ DeleteSession

-----------------------------------------------------------------------------
\* ... and, when the process is gone, _close_connection records a thread whose
\* creation was not, expires the prompts, and its caller goes on: _work, _fail,
\* _delete_native or _close.

Closes(j, then) == At(j, "closing") /\ IsEnded(job[j].conn) /\ job[j].then = then
LateThread(j) ==
    IF ~Deleted /\ session.thread = NoConnection /\ job[j].conn # NoConnection
    THEN threadOf[job[j].conn] ELSE session.thread
Closed(j, status) ==
    /\ session' = [status |-> status, thread |-> LateThread(j)]
    /\ prompt' = Expired
    /\ UNCHANGED <<service, owner, harness, counters>>

CloseReturns(j) ==
    /\ Closes(j, "open") \/ Closes(j, "done")
    /\ Closed(j, session.status)
    /\ job' = [job EXCEPT ![j] = IF @.then = "open" THEN [Idle EXCEPT !.pc = "open"]
                                                    ELSE Step(j, "done")]
    /\ UNCHANGED <<run, latest>>

FailFinishes(j) ==
    LET r == job[j].run IN
    /\ Closes(j, "fail")
    /\ Closed(j, session.status)
    /\ run' = IF ~BusyWith(r) THEN run ELSE
                [run EXCEPT ![r].status = IF run[r].stop THEN "interrupted" ELSE "failed"]
    /\ job' = [job EXCEPT ![j] = IF Accepting \/ j[1] # "work" THEN Idle ELSE [Idle EXCEPT !.pc = "final"]]
    /\ UNCHANGED latest

\* Mutant: the run in progress is left to its job.
MutShutdownFinishes ==
    /\ Closes(Shutdown, "finish")
    /\ Closed(Shutdown, session.status)
    /\ Goes(Shutdown, "gather")
    /\ UNCHANGED <<run, latest>>

ShutdownFinishes ==
    /\ Closes(Shutdown, "finish")
    /\ Closed(Shutdown, session.status)
    /\ run' = IF Busy THEN [run EXCEPT ![latest].status = "interrupted"] ELSE run
    /\ Goes(Shutdown, "gather")
    /\ UNCHANGED latest

\* The rows are removed, a tombstone stays.
DeleteForgets ==
    /\ Closes(Delete, "forget")
    /\ session' = [status |-> "gone", thread |-> LateThread(Delete)]
    /\ run' = [r \in Runs |-> NoRow] /\ latest' = None
    /\ prompt' = [p \in Prompts |-> NoPrompt]
    /\ Goes(Delete, "done")
    /\ UNCHANGED <<service, owner, harness, counters>>

\* Refused, or not known; the first time that is checked.
DeleteDecides ==
    \E then \in {"keep", "unsure", "check"} :
        /\ Closes(Delete, then)
        /\ Closed(Delete, IF then = "keep" THEN "ready" ELSE "delete_uncertain")
        /\ job' = [job EXCEPT ![Delete] = IF then = "check" THEN DeleteBegins("reconcile") ELSE Idle]
        /\ UNCHANGED <<run, latest>>

-----------------------------------------------------------------------------
\* _work

WorkCloses(r) ==
    /\ At(Work(r), "close") /\ Takes(Work(r), "open")
    /\ UNCHANGED <<service, rows, counters>>

\* selection.open, open_history: the process may be gone before it is stored.
Opens ==
    /\ opened < MaxConnections /\ opened' = opened + 1
    /\ connection' = opened + 1
    /\ \E state \in {"alive", "ended"} : link' = [link EXCEPT ![opened + 1] = state]
    /\ UNCHANGED <<loaded, restarts, events, threadOf, threads, turn, inputs, asked, clogged>>

\* A stop before a thread exists ends the run.
WorkOpens(r) ==
    LET j == Work(r) fresh == session.thread = NoConnection IN
    /\ At(j, "open") /\ Opens
    /\ IF fresh /\ latest # None /\ run[latest].stop
         THEN /\ IF Busy THEN Finish(run, latest, "interrupted") ELSE UNCHANGED <<run, prompt>>
              /\ Ends(j)
         ELSE /\ job' = [job EXCEPT ![j].pc = IF fresh THEN "create" ELSE "resume",
                                    ![j].conn = opened + 1]
              /\ UNCHANGED <<run, prompt>>
    /\ UNCHANGED <<service, session, latest>>

\* Opening fails, or a call does.
WorkCallFails(r) ==
    /\ Up /\ job[Work(r)].pc \in {"open", "create", "created", "resume", "start", "taken"}
    /\ Fails(Work(r), r)
    /\ UNCHANGED <<service, rows, counters>>

\* thread/start; its reply is adopted or comes too late.
HarnessCreates(r) ==
    LET g == job[Work(r)].conn IN
    /\ At(Work(r), "create") /\ Reads(g)
    /\ threads' = threads \cup {g} /\ threadOf' = [threadOf EXCEPT ![g] = g]
    /\ Goes(Work(r), "created")
    /\ UNCHANGED <<service, rows, owner, counters, link, events, turn, inputs, asked, clogged>>

\* The harness need not keep a thread that never got input.
WorkMissesThread(r) ==
    /\ At(Work(r), "resume") /\ Reads(job[Work(r)].conn)
    /\ session.thread \in threads => \A s \in Runs : inputs[s] = 0
    /\ IF MayHaveInput THEN Fails(Work(r), r)
                       ELSE Goes(Work(r), "create") /\ UNCHANGED <<owner, harness>>
    /\ UNCHANGED <<service, rows, counters>>

\* _recover_locked: match the turns of the history to runs by turn id or, where
\* the history has it, by client id; one turn left goes to the one run left.
History == {r \in Runs : inputs[r] > 0}
Recovered(identified) ==
    LET candidates(t) == {s \in Runs : run[s].turn = t \/ (s = t /\ t \in identified)}
        matched == {s \in Runs : \E t \in History : s \in candidates(t)}
        left == {t \in History : candidates(t) = {}}
        waiting == {s \in Runs \ matched : run[s].started /\ run[s].turn = None}
    IN  [ok |-> /\ \A t \in History : \A s \in candidates(t) :
                      candidates(t) = {s} /\ run[s].started /\ run[s].turn \in {None, t}
                /\ left = {} \/ \E t, s \in Runs : left = {t} /\ waiting = {s},
         rows |-> [s \in Runs |->
                     IF s \in matched
                       THEN [run[s] EXCEPT !.turn = CHOOSE t \in History : s \in candidates(t)]
                     ELSE IF s \in waiting /\ left # {}
                       THEN [run[s] EXCEPT !.turn = CHOOSE t \in left : TRUE]
                     ELSE run[s]]]

\* Mutant: a stop that came before the submission is noticed after it.
MutSubmits(r, rs) ==
    IF ~(latest = r /\ Active(rs[r]))
      THEN Ends(Work(r)) /\ run' = rs /\ UNCHANGED prompt
    ELSE Goes(Work(r), "start") /\ run' = [rs EXCEPT ![r].started = TRUE] /\ UNCHANGED prompt

\* The rest of the locked stretch: submit the input unless the run is over.
Submits(r, rs) ==
    IF ~(latest = r /\ Active(rs[r]))
      THEN Ends(Work(r)) /\ run' = rs /\ UNCHANGED prompt
    ELSE IF rs[r].stop \/ ~Accepting
      THEN Ends(Work(r)) /\ Finish(rs, r, "interrupted")
    ELSE Goes(Work(r), "start") /\ run' = [rs EXCEPT ![r].started = TRUE] /\ UNCHANGED prompt

WorkSubmits(r) ==
    /\ At(Work(r), "submit")
    /\ Submits(r, run)
    /\ UNCHANGED <<service, session, latest, owner, harness, counters>>

\* Mutant: the thread is used but not saved.
MutWorkAdopts(r) ==
    /\ At(Work(r), "created") /\ link[job[Work(r)].conn] = "alive" /\ ~Deleted
    /\ loaded' = TRUE
    /\ Submits(r, run)
    /\ UNCHANGED <<service, session, latest, connection, harness, counters>>

\* The reply to thread/start is saved, unless the session is gone ...
WorkAdopts(r) ==
    LET g == job[Work(r)].conn IN
    /\ At(Work(r), "created") /\ link[g] = "alive" /\ ~Deleted
    /\ session' = [session EXCEPT !.thread = g] /\ loaded' = TRUE
    /\ Submits(r, run)
    /\ UNCHANGED <<service, latest, connection, harness, counters>>

\* ... and that to thread/resume matched; if it cannot be, the call fails.
WorkResumes(r) ==
    LET g == job[Work(r)].conn IN
    /\ At(Work(r), "resume") /\ Reads(g)
    /\ session.thread \in threads /\ ~Deleted
    /\ threadOf' = [threadOf EXCEPT ![g] = session.thread] /\ loaded' = TRUE
    /\ \E identified \in SUBSET History :
         Recovered(identified).ok /\ Submits(r, Recovered(identified).rows)
    /\ UNCHANGED <<service, session, latest, connection, counters,
                   link, events, threads, turn, inputs, asked, clogged>>

\* turn/start reaches the harness ...
HarnessTakesInput(r) ==
    LET g == job[Work(r)].conn IN
    /\ At(Work(r), "start") /\ MayAct(g) /\ Reads(g)
    /\ inputs' = [inputs EXCEPT ![r] = @ + 1]
    /\ turn' = [turn EXCEPT ![r] = [state |-> "running", on |-> g]]
    /\ Queues(g, "turn_started", None, r)
    /\ Goes(Work(r), "taken")
    /\ UNCHANGED <<service, rows, owner, counters, link, threadOf, threads, asked, clogged>>

WithTurn(r, t) == [run EXCEPT ![r].turn = t,
                              ![r].status = IF run[r].stop THEN "stopping" ELSE "running"]

\* Mutant: the turn is recorded for the run that is current by now.
MutWorkRecordsTurn(r) ==
    LET j == Work(r) IN
    /\ At(j, "taken") /\ link[job[j].conn] = "alive"
    /\ IF ~Busy THEN Ends(j) /\ UNCHANGED <<run, owner, harness>>
       ELSE /\ run' = WithTurn(latest, r)
            /\ job' = [job EXCEPT ![j] = [Idle EXCEPT !.pc = "wait"]]
            /\ UNCHANGED <<owner, harness>>
    /\ UNCHANGED <<service, session, latest, prompt, counters>>

\* ... and its reply reaches the job.
WorkRecordsTurn(r) ==
    LET j == Work(r) IN
    /\ At(j, "taken") /\ link[job[j].conn] = "alive"
    /\ IF ~BusyWith(r) THEN Ends(j) /\ UNCHANGED <<run, owner, harness>>
       ELSE IF run[r].turn \notin {None, r} THEN Fails(j, r) /\ UNCHANGED run
       ELSE /\ run' = WithTurn(r, r)
            /\ job' = WithInterrupt([job EXCEPT ![j] = [Idle EXCEPT !.pc = "wait"]], WithTurn(r, r))
            /\ UNCHANGED <<owner, harness>>
    /\ UNCHANGED <<service, session, latest, prompt, counters>>

WorkWaits(r) ==
    /\ At(Work(r), "wait") /\ ~Active(run[r])
    /\ Ends(Work(r))
    /\ UNCHANGED <<service, rows, owner, harness, counters>>

\* The finally clause of _work; an answer has none.
JobEnds(j) ==
    /\ At(j, "final") /\ Takes(j, "done")
    /\ UNCHANGED <<service, rows, counters>>

-----------------------------------------------------------------------------
\* _interrupt

\* Mutant: the job gives up and leaves the process to go on.
MutInterruptGivesUp(r) ==
    /\ At(Interrupt(r), "call")
    /\ Goes(Interrupt(r), "done")
    /\ UNCHANGED <<service, rows, owner, harness, counters>>

\* The call fails, or finished is not set within five seconds: the process is
\* closed, unless the run is over or another connection is in use.
InterruptGivesUp(r) ==
    LET j == Interrupt(r) IN
    /\ At(j, "call")
    /\ IF connection = job[j].conn /\ BusyWith(r)
         THEN /\ connection' = NoConnection /\ loaded' = FALSE /\ LinkEnds(connection)
              /\ Goes(j, "killing")
         ELSE Goes(j, "done") /\ UNCHANGED <<owner, harness>>
    /\ UNCHANGED <<service, rows, counters>>

InterruptFinishes(r) ==
    LET j == Interrupt(r) IN
    /\ At(j, "killing") /\ IsEnded(job[j].conn)
    /\ IF BusyWith(r) THEN Finish(run, r, "interrupted") ELSE UNCHANGED <<run, prompt>>
    /\ job' = [job EXCEPT ![j] = Idle]
    /\ UNCHANGED <<service, session, latest, owner, harness, counters>>

-----------------------------------------------------------------------------
\* _deliver_answer

\* Mutant: a prompt that was settled while the answer was written is settled again.
MutStillAnswering(p) == connection = prompt[p].on /\ prompt[p].status # "pending"

StillAnswering(p) == prompt[p].status = "answering" /\ connection = prompt[p].on

\* respond: written, or the request is over.
AnswerResponds(p) ==
    LET j == Reply(p) live == link[job[j].conn] = "alive" /\ asked[p].state = "yes" IN
    /\ At(j, "respond")
    /\ IF StillAnswering(p) /\ live
         THEN Goes(j, "written") /\ asked' = [asked EXCEPT ![p] = OverRequest] /\ UNCHANGED prompt
         ELSE /\ Goes(j, "done")
              /\ prompt' = IF StillAnswering(p) THEN [prompt EXCEPT ![p] = Settled("expired")]
                                                ELSE prompt
              /\ UNCHANGED asked
    /\ UNCHANGED <<service, session, run, latest, owner, counters,
                   link, events, threadOf, threads, turn, inputs, clogged>>

AnswerSettles(p) ==
    /\ At(Reply(p), "written")
    /\ prompt' = IF StillAnswering(p) THEN [prompt EXCEPT ![p] = Settled("resolved")] ELSE prompt
    /\ Goes(Reply(p), "done")
    /\ UNCHANGED <<service, session, run, latest, owner, harness, counters>>

\* The pipe breaks before it was drained: the current turn is failed.
AnswerFails(p) ==
    /\ At(Reply(p), "written") /\ link[job[Reply(p)].conn] # "alive"
    /\ IF Busy THEN Fails(Reply(p), latest) ELSE Takes(Reply(p), "done")
    /\ UNCHANGED <<service, rows, counters>>

-----------------------------------------------------------------------------
\* _event: what connection g has queued, in order.

Event(g) == Head(events[g])
Dequeues(g) ==
    /\ events' = [events EXCEPT ![g] = Tail(@)]
    /\ link' = IF Event(g).kind = "closed" THEN [link EXCEPT ![g] = "ended"] ELSE link
    /\ UNCHANGED <<threadOf, threads, turn, inputs, asked, clogged>>

\* Of the current connection, about the session's thread.
Current(g) ==
    /\ g = connection /\ session.status = "ready"
    /\ threadOf[g] \in {NoConnection, session.thread}

Matches(e) ==
    /\ Busy /\ run[latest].started /\ e.turn # None
    /\ \/ run[latest].turn = e.turn
       \/ run[latest].turn = None /\ e.kind = "turn_started" /\ e.turn \notin KnownTurns

\* What the event does when it does anything.
Applies(g) ==
    LET e == Event(g) IN
    /\ Current(g)
    /\ CASE e.kind \in {"turn_started", "turn_completed"} -> Matches(e)
         [] e.kind = "prompt" -> (e.turn # None => Matches(e))
         [] e.kind = "resolved" -> prompt[e.of].on = g /\ IsOpen(prompt[e.of])
         [] e.kind = "closed" -> TRUE
Arrives(g, kind) == Up /\ events[g] # <<>> /\ Event(g).kind = kind /\ Applies(g) /\ Dequeues(g)

EventIsIgnored(g) ==
    /\ Up /\ events[g] # <<>> /\ ~Applies(g) /\ Dequeues(g)
    /\ UNCHANGED <<service, rows, owner, job, counters>>

TurnStarted(g) ==
    /\ Arrives(g, "turn_started")
    /\ run' = WithTurn(latest, Event(g).turn)
    /\ job' = WithInterrupt(job, WithTurn(latest, Event(g).turn))
    /\ UNCHANGED <<service, session, latest, prompt, owner, counters>>

TurnCompleted(g) ==
    /\ Arrives(g, "turn_completed")
    /\ \E status \in {"completed", "failed", "interrupted"} :
          Finish(WithTurn(latest, Event(g).turn), latest, status)
    /\ UNCHANGED <<service, session, latest, owner, job, counters>>

PromptArrives(g) ==
    /\ Arrives(g, "prompt")
    /\ prompt' = [prompt EXCEPT ![Event(g).of] =
                    [status |-> "pending", on |-> g, turn |-> Event(g).turn]]
    /\ UNCHANGED <<service, session, run, latest, owner, job, counters>>

PromptIsResolved(g) ==
    /\ Arrives(g, "resolved")
    /\ prompt' = [prompt EXCEPT ![Event(g).of] = Settled("resolved")]
    /\ UNCHANGED <<service, session, run, latest, owner, job, counters>>

ConnectionIsClosed(g) ==
    /\ Arrives(g, "closed")
    /\ connection' = NoConnection /\ loaded' = FALSE
    /\ run' = IF ~Busy THEN run ELSE
                [run EXCEPT ![latest].status = IF run[latest].stop THEN "interrupted" ELSE "failed"]
    /\ prompt' = Expired
    /\ UNCHANGED <<service, session, latest, job, counters>>

-----------------------------------------------------------------------------
\* The app-server processes, of their own accord.

TurnEnds(r) ==
    LET g == turn[r].on IN
    /\ turn[r].state = "running" /\ MayAct(g)
    /\ turn' = [turn EXCEPT ![r] = EndedTurn]
    /\ Queues(g, "turn_completed", None, r)
    /\ asked' = [p \in Prompts |-> IF asked[p].state = "yes" /\ asked[p].turn = r
                                  THEN OverRequest ELSE asked[p]]
    /\ UNCHANGED <<service, rows, owner, job, counters, link, threadOf, threads, inputs,
                   clogged>>

\* A request for input, of the turn or of a subagent (without a turn).
Asks(p) ==
    /\ asked[p].state = "no"
    /\ \E r \in Runs : \E t \in {r, None} :
          /\ turn[r].state = "running" /\ MayAct(turn[r].on)
          /\ asked' = [asked EXCEPT ![p] = [state |-> "yes", on |-> turn[r].on, turn |-> t]]
          /\ Queues(turn[r].on, "prompt", p, t)
    /\ UNCHANGED <<service, rows, owner, job, counters, link, threadOf, threads, turn, inputs,
                   clogged>>

Withdraws(p) ==
    /\ asked[p].state = "yes" /\ MayAct(asked[p].on)
    /\ asked' = [asked EXCEPT ![p] = OverRequest]
    /\ Queues(asked[p].on, "resolved", p, None)
    /\ UNCHANGED <<service, rows, owner, job, counters, link, threadOf, threads, turn, inputs,
                   clogged>>

LinkDies(g) ==
    /\ link[g] = "alive" /\ LinkEnds(g)
    /\ UNCHANGED <<service, rows, owner, job, counters>>

\* A live process does not read its stdin while an input or an answer is written, which
\* may be larger than the pipe and the buffer before it, as no other message is: _write or
\* respond waits in drain(), and whoever writes next for its lock ...
StopsReading(g) ==
    /\ Reads(g)
    /\ \E j \in Jobs : job[j].pc \in {"start", "written"} /\ job[j].conn = g
    /\ clogged' = clogged \cup {g}
    /\ UNCHANGED <<service, rows, owner, job, counters,
                   link, events, threadOf, threads, turn, inputs, asked>>

\* ... until it reads again, if ever.
ReadsAgain(g) ==
    /\ g \in clogged
    /\ clogged' = clogged \ {g}
    /\ UNCHANGED <<service, rows, owner, job, counters,
                   link, events, threadOf, threads, turn, inputs, asked>>

-----------------------------------------------------------------------------
\* _delete_native

DeleteConnects ==
    \/ /\ At(Delete, "untracked") /\ Takes(Delete, "forget")
       /\ UNCHANGED <<service, rows, counters>>
    \/ \E pc \in {"remove", "reconcile"} :
         /\ At(Delete, pc) /\ Opens
         /\ job' = [job EXCEPT ![Delete].pc = CallOf(pc), ![Delete].conn = opened + 1]
         /\ UNCHANGED <<service, rows>>

\* Opening or calling fails.
DeleteCallFails ==
    /\ \/ (At(Delete, "remove") \/ At(Delete, "remove_call")) /\ Takes(Delete, "check")
       \/ (At(Delete, "reconcile") \/ At(Delete, "reconcile_call")) /\ Takes(Delete, "unsure")
    /\ UNCHANGED <<service, rows, counters>>

\* thread/delete, its reply perhaps lost.
HarnessDeletes ==
    /\ At(Delete, "remove_call") /\ Reads(job[Delete].conn)
    /\ threads' = threads \ {session.thread}
    /\ Goes(Delete, "removed")
    /\ UNCHANGED <<service, rows, owner, counters, link, events, threadOf, turn, inputs, asked,
                   clogged>>

\* The reply to thread/delete, done or refused, or to thread/read.
DeleteLearns ==
    /\ \/ At(Delete, "removed") /\ (Takes(Delete, "forget") \/ Takes(Delete, "check"))
       \/ At(Delete, "remove_call") /\ Reads(job[Delete].conn) /\ Takes(Delete, "keep")
       \/ /\ At(Delete, "reconcile_call") /\ Reads(job[Delete].conn)
          /\ Takes(Delete, IF session.thread \in threads THEN "keep" ELSE "forget")
    /\ UNCHANGED <<service, rows, counters>>

-----------------------------------------------------------------------------
\* close(), and the end of the server

\* begin_shutdown; the run in progress is stopped.
ShutdownBegins ==
    /\ "shutdown" \in Disturbances /\ service = "up" /\ service' = "closing"
    /\ LET jobs == [job EXCEPT ![Shutdown].pc = "wait"] IN
       IF Busy THEN run' = Stopping(latest) /\ job' = WithInterrupt(jobs, Stopping(latest))
               ELSE run' = run /\ job' = jobs
    /\ UNCHANGED <<session, latest, prompt, owner, harness, counters>>

\* The jobs end, or five seconds pass.
ShutdownWaits ==
    /\ At(Shutdown, "wait") /\ Takes(Shutdown, "finish")
    /\ UNCHANGED <<service, rows, counters>>

\* The server's process is gone, and the processes it owns with it.
ServerEnds ==
    /\ connection' = NoConnection /\ loaded' = FALSE
    /\ job' = [j \in Jobs |-> Idle]
    /\ link' = [g \in Connections |-> IF link[g] = "none" THEN "none" ELSE "ended"]
    /\ events' = [g \in Connections |-> <<>>]
    /\ turn' = [r \in Runs |-> IF turn[r].state = "running" THEN EndedTurn ELSE turn[r]]
    /\ asked' = [p \in Prompts |-> IF asked[p].state = "yes" THEN OverRequest ELSE asked[p]]
    /\ clogged' = {}
    /\ UNCHANGED <<rows, threadOf, threads, inputs, counters>>

ShutdownEnds ==
    /\ At(Shutdown, "gather") /\ \A j \in Jobs \ {Shutdown} : ~Running(j)
    /\ service' = "down" /\ ServerEnds

Crash == "crash" \in Disturbances /\ Up /\ service' = "dead" /\ ServerEnds

\* Mutant: unfinished runs are kept as they are.
MutStart ==
    /\ ~Up /\ restarts < MaxRestarts /\ restarts' = restarts + 1
    /\ service' = "up"
    /\ prompt' = Expired
    /\ job' = [j \in Jobs |-> Idle]
    /\ UNCHANGED <<session, run, latest, owner, harness, opened>>

\* start, _initialize_schema: unfinished runs are settled, never resumed, and
\* unfinished deletions are reconciled.
Start ==
    /\ ~Up /\ restarts < MaxRestarts /\ restarts' = restarts + 1
    /\ service' = "up"
    /\ run' = [r \in Runs |-> IF Active(run[r]) THEN [run[r] EXCEPT !.status = "interrupted"] ELSE run[r]]
    /\ prompt' = Expired
    /\ job' = [j \in Jobs |-> IF j = Delete /\ session.status \in {"deleting", "delete_uncertain"}
                             THEN DeleteBegins("reconcile") ELSE Idle]
    /\ UNCHANGED <<session, latest, owner, harness, opened>>

-----------------------------------------------------------------------------
WorkStep(r) ==
    WorkCloses(r) \/ WorkOpens(r) \/ WorkCallFails(r) \/ WorkMissesThread(r) \/ WorkSubmits(r)
    \/ WorkAdopts(r) \/ WorkResumes(r) \/ WorkRecordsTurn(r) \/ WorkWaits(r)
InterruptStep(r) == InterruptGivesUp(r) \/ InterruptFinishes(r)
AnswerStep(p) == AnswerResponds(p) \/ AnswerSettles(p) \/ AnswerFails(p)
CommonStep(j) == CloseReturns(j) \/ FailFinishes(j) \/ JobEnds(j)
DeleteStep == DeleteConnects \/ DeleteCallFails \/ DeleteLearns \/ DeleteForgets \/ DeleteDecides
ShutdownStep == ShutdownWaits \/ ShutdownFinishes \/ ShutdownEnds
EventStep(g) ==
    EventIsIgnored(g) \/ TurnStarted(g) \/ TurnCompleted(g) \/ PromptArrives(g)
    \/ PromptIsResolved(g) \/ ConnectionIsClosed(g)
HarnessStep ==
    \/ \E r \in Runs : HarnessCreates(r) \/ HarnessTakesInput(r) \/ TurnEnds(r)
    \/ \E p \in Prompts : Asks(p) \/ Withdraws(p)
    \/ \E g \in Connections : LinkDies(g) \/ StopsReading(g) \/ ReadsAgain(g)
    \/ HarnessDeletes

Next ==
    \/ Command \/ HarnessStep
    \/ \E r \in Runs : WorkStep(r) \/ InterruptStep(r)
    \/ \E p \in Prompts : AnswerStep(p)
    \/ \E j \in Jobs : CommonStep(j)
    \/ \E g \in Connections : EventStep(g)
    \/ DeleteStep \/ ShutdownBegins \/ ShutdownStep
    \/ Crash \/ Start

Spec == Init /\ [][Next]_vars

\* The job may be waiting for its write to be drained.  The timeout of a call begins after
\* that, and respond has none: on a clogged connection only calls that were written before
\* can time out.
Stuck(j) ==
    /\ job[j].conn \in clogged
    /\ job[j].pc \in {"create", "resume", "start", "call", "respond", "written",
                     "remove_call", "reconcile_call"}

\* The event loop runs every job and dispatches every event, and a call that was written
\* has a timeout.  Nobody need ever read what waits to be written.
Fairness ==
    /\ \A r \in Runs : /\ WF_vars(~Stuck(Work(r)) /\ WorkStep(r))
                      /\ WF_vars(~Stuck(Interrupt(r)) /\ InterruptStep(r))
    /\ \A p \in Prompts : WF_vars(~Stuck(Reply(p)) /\ AnswerStep(p))
    /\ \A j \in Jobs : WF_vars(CommonStep(j))
    /\ \A g \in Connections : WF_vars(EventStep(g))
    /\ WF_vars(~Stuck(Delete) /\ DeleteStep) /\ WF_vars(ShutdownStep)

FairSpec == Spec /\ Fairness

-----------------------------------------------------------------------------
\* The input of a run reaches the harness once at most.
InputIsSentOnce == \A r \in Runs : inputs[r] <= 1

\* A stop that was acknowledged before the submission prevents it.
StopPreventsInput ==
    [][\A r \in Runs : run[r].stop /\ ~run[r].started
         => ~run'[r].started /\ inputs'[r] = inputs[r]]_vars

\* The outcome of a run, or of a prompt, is final.
OutcomeIsFinal ==
    [][~Deleted' =>
        /\ \A r \in Runs : run[r].status \in {"completed", "failed", "interrupted"}
                             => run'[r].status = run[r].status
        /\ \A p \in Prompts : prompt[p].status \in {"resolved", "expired"}
                             => prompt'[p].status = prompt[p].status]_vars

\* No turn of the harness counts for two runs.  An unfinished run is the latest and has a
\* job that will finish it, and the thread it runs in is saved, so that the next service
\* can resume the conversation.
ActiveIsOwned ==
    /\ \A r, s \in Runs : r # s => run[r].turn = None \/ run[r].turn # run[s].turn
    /\ \A r \in Runs : Active(run[r]) => latest = r /\ (Up => Running(Work(r)))
    /\ loaded => session.thread # NoConnection

\* A stopped run ends, whether the harness answers, dies or does neither, if from some
\* time on the processes read what is written: the wait for a write has no timeout.
StopSettles ==
    (\A g \in Connections : <>[](g \notin clogged)) =>
        \A r \in Runs : (Active(run[r]) /\ run[r].stop) ~> (~Active(run[r]) \/ ~Up)

\* A shutdown comes to its end even so, because it closes the process, and then no turn,
\* prompt or deletion is left half-way in the store.
ShutdownSettles ==
    (service = "closing") ~>
        (service = "dead" \/ (service = "down" /\ ~Busy /\ ~Pending /\ session.status # "deleting"))

\* Nothing keeps a shutdown waiting for ever, and nothing but a process that does not read
\* a stopped run.
EverythingSettles == StopSettles /\ ShutdownSettles

=============================================================================
