# Verification of Free Claude Code

Free Claude Code (FCC) is a local proxy between coding agents (Claude Code,
Codex, and others) and OpenAI-compatible providers. It also drives agents
itself: from Discord and Telegram chats, and from the coding sessions of its
admin page. Nearly everything happens in one asyncio event loop, so the hard part is
not data races but what other tasks did during an `await`: cancellations,
late answers, shutdown in the middle of an operation, and restarts.

This directory models that concurrency, and the one place where the data
is as hard as the schedule: the stream of one request, from an upstream that may
fail at any chunk to a client that must not notice. TLC checks each module on small
instances; for eight of them TLAPS proves the central safety properties for
every value of the constants. Paths below are relative to
`src/free_claude_code/`.

Contents: [Inventory](#inventory), [Modules](#modules-and-code),
[Runs](#runs), [Findings](#findings), [Proofs](#proofs),
[Plan](#plan), [Not modelled](#what-is-not-modelled).

## Inventory

| Component | State | Operations | Hard behaviour | Correct when |
|---|---|---|---|---|
| Provider admission (`providers/admission.py`) | semaphore, sliding window, recovery episode (leader, probe, waiters, generation), executions | open_attempt, accept, correct, reject, fail, aclose | a permit goes stale during two awaits; a leader is cancelled; exhaustion reaches sleeping followers | one probe at a time, no slot leaks, no lost wakeup, no bypass of recovery |
| Sliding-window limit (`core/rate_limit.py`) | stamps in a deque, lock | acquire, acquire_if | clock moves between check and stamp; sleepers race new callers | never more than the limit in one window |
| Provider generations (`runtime/provider_manager.py`) | current and retired generations, leases, refresh task, replace lock | acquire, release, replace, refresh, connected_provider_changed, close | a generation is replaced under streams; cleanups fail; shutdown meets everything | no client closed in use, none forgotten, shutdown is complete |
| Conversation trees (`messaging/trees/`, commands of `messaging/workflow.py`) | trees, queues, claims, reference index, one task per claim | admit, claim, complete, fail, stop, clear, stop all, clear chat, restore | claims' tasks race commands; drains time out; duplicates; restart | a queue is always served by one task; the index matches; the store restores |
| Session store (`messaging/session/`) | memory, JSON file, timers, locks, save generation | change, clear, flush, timer save | real threads: old snapshot against newer writes; crash | a flush or clear is durable, the file never goes back |
| Code sessions (`application/code_sessions/service.py`, `runtime/code_sessions_sqlite.py`) | rows of runs and prompts, owner (connection, job, loaded thread) | send, stop, answer, delete, events, shutdown, start | a harness that does not answer, does not read, dies or answers late; crash with input delivered | input sent once, stops kept, outcomes final, nothing left half-way |
| Messaging workflow (`messaging/workflow.py`, `turn_intake.py`) | state lock, stop and clear generations | handle_message, stop and clear by reply, startup notice, close | token taken before an await and tested after it; receipt after a clear | nothing admitted across a stop or clear |
| Voice notes (`messaging/voice.py`) | pending claims, handoff tasks, protected claims | reserve, handoff, discard, cancel | a handoff that is itself a /stop cancels other handoffs | a note is handed over or cancelled, never both; a status message has one owner; no mutual wait |
| Delivery queue (`messaging/limiter.py`, `platforms/outbox.py`) | compacting queue, worker, pause | enqueue, fire_and_forget, shutdown | retries overtake newer edits; callers leave; shutdown meets a pause | nobody waiting is forgotten; an answer is true; a close is final |
| Managed Claude sessions (`cli/managed/`) | sessions by temporary and real id, closing set, processes | get_or_create, register, remove, stop_all | a stop that fails keeps the session reserved | one session per id; no process without an owner |
| Codex connection (`runtime/codex_app_server.py`) | pending replies, native prompts, reader, dispatcher | rpc, respond, close | replies after a timeout; a broken pipe is not a dead process | closed is reported after the process is gone, and last |
| Request execution (`application/execution.py`, `api/response_streams.py`, `api/request_lifetime.py`) | candidate streams, progress deadline, response, lease | stream, first chunk, disconnect, close | fallback against commitment, deadline against close, disconnect against cleanup | no fallback after the first chunk; each stream closed once; the lease outlives the upstream |
| Stream recovery (`providers/stream_recovery.py`, `core/anthropic/streaming/`) | held-back events, block ledger, attempts | advance, flush, retry, repair, continue | an interrupted stream is retried invisibly or continued visibly | the client gets one well-formed stream with what its provider recorded |
| Provider transports (`providers/openai_chat/`, `providers/anthropic_messages/`, `providers/openai_responses/`) | output epoch, open blocks, tool calls | read a chunk, translate, relay, salvage | cut-offs in the middle of a block or a call; errors after the client saw content | half a call never looks finished; errors close what they can |
| Event feed (`application/session_events.py`) | bounded queue per observer, sequence | subscribe, publish, close | slow observer overflows, close and publish race | an observer misses nothing without being told |
| Application lifecycle (`runtime/application.py`) | lifecycle and config locks, draining, owned resources | start, apply_admin_config, close | teardown fails half-way and is retried | owners are closed after their users |
| Copilot broker (`providers/github_copilot/broker.py`) | discovery task, endpoint owners, leases | snapshot, lease, close | coalesced work under cancellation; close drains leases | no session closed under a lease |
| Connected accounts (`providers/openai_codex/`, `providers/github_copilot/`) | tokens, pending login, revision | refresh, login, cancel, disconnect | login and disconnect race a refresh | a disconnected account has no tokens |


How they interact. The HTTP interface leases a provider generation for each
request and keeps the lease until the response body has ended; the executor
resolves a provider of that generation; the provider opens attempts through its
admission controller, which waits on the sliding window. A chat message goes from a platform adapter through
the workflow to the trees; a claim's task runs a managed Claude session, whose
requests come back through the HTTP interface; trees and workflow save
snapshots in the session store; all UI goes through the delivery queue. A
coding session owns a Codex connection, whose events come back through a
sink. The application lifecycle starts and closes all of these in order.

`PROJECT.json` lists every component with its sources and status. Its
hazards name, at the line where each bites, what a test would hardly reach and
which properties watch it.

## Modules and code

Conventions. One action is a stretch of code between two awaits (or, for the
threads of the session store, between two lock operations). Handlers that hold
a lock and await nothing contended are one action. Operations the code shields
from cancellation are not cancelled. Mutated forms (`Mut...`) stand
before the definition they vary: each is a plausible bug that
breaks the property it is listed with.

How the modules compose:

```
ApplicationLifecycle -> ProviderGenerations
RequestExecution     -> ModelFallback
                     -> RelayStream -> ChatStream -> ChatOutput
                     follows StreamContract
DeliveryQueue        -> SlidingWindow
ProviderAdmission    implements CircuitBreaker
SessionPersistence, MessagingTrees, CodeSessions, PendingVoices
```

**ProviderAdmission** models `UpstreamAdmissionController` and
`ProviderExecution`. `pc[e]` is where the task of an execution is suspended;
`gen, leader, probing, ready, terminal, waiters` are the fields of the episode,
`gen = 0` meaning there is none. `OpenAttempt` is the gate; `LimiterAdmits`,
`SlotGranted` and their rejecting twins are the re-validations after each
await; `Accept`, `Correct`, `Reject` and the `Fail...` and `Exhaust...` actions are the
outcomes; `Cancel...` a cancellation in each await; `Finish` a caller that ends.
Clocks are two facts: the backoff has elapsed, the terminal window is over.
**CircuitBreaker** is what the controller promises, without attempts, slots,
generations and waiters: a circuit that is closed, waiting, ready for a probe or
probing, the owner of the probe, and who has a call upstream. `BreakerMode` reads the
mode off the episode (an episode whose terminal window is over is ready: the next
caller at the gate leads its successor), `ProbeOwner` and `Calling` the rest.

**SlidingWindow** models `StrictSlidingWindowLimiter`: the stamps, the pruned
prefix, and callers asleep until a computed time. `MaxLag` is how far the clock
may move between the check and the stamp of one pass. It has no run of its own:
the delivery queue drives it.

**DeliveryQueue** models `MessagingRateLimiter` and the background tasks of
`PlatformOutbox`. A call asks for a text of a message; its number stands for
the text. `entry` and `queue` are the compacting queue, `job` is what the worker
took; `FailTransiently` and `Retry` are the second life of a forgotten edit,
`FailForGood` and `FloodEnds` the pause; `CloseOutbox`, `ShutDown`, `WorkerStops`
and `ShutdownReturns` or `ShutdownInterrupted` are the close.

**ProviderGenerations** models `ProviderRuntimeManager`. A generation is a
number; `lockedBy` is the operation under `_replace_lock` and its stage;
`closer` is `close()`. A cleanup may raise; a candidate that is not published
may fail to clean up and is kept in `_unpublished`. The catalog is left out.

**ApplicationLifecycle** models `ApplicationRuntime` around it: `starting` is how
far `start()` is, `step` the teardown step in progress, `owned` what the
runtime still has a reference to and `open` what really accepts work; `config`
is how far a change of the configuration is. Parts other than the provider
manager are open, owned, in use, and closed by something that may fail. A
teardown stops at the first failure, and a later `close()` goes on from there.

**ModelFallback** models the candidate loop of `ProviderExecutor`: the provider
stream of a candidate is opened, read under one progress deadline and closed. It
knows no protocol, so it is an abstract specification (`ExecutorSpec`) and a
component at once.

**ChatOutput** models one output epoch of a chat attempt: each method of
`ChatStreamOutput`, of its two wire writers and of the tool-call assembler is an
operator on epochs that appends the client events it emits. **ChatStream** is the generator around
it: attempts, the holdback buffer, early retries, midstream recovery by repair
or continuation, corrections of the request, and the attempt scope.
**RelayStream** adds the native Messages and Responses transports, each
relayed verbatim to a client of its own protocol and translated for a client of
the other; the native Messages stream is validated, the Responses stream trusted.

**RequestExecution** puts a request together: the executor over relay streams,
the first-chunk response of the HTTP interface, a client that may leave anywhere,
and the lease of the provider generation. `view` is what the client received.

**StreamContract** is the abstract specification of a client stream, taken from
`core/anthropic/stream_contracts.py` with `allow_error`: a stream that ends, in an
error too, has every block closed and at least one. `FollowsContract` says that every step
of `RequestExecution`, seen through `view`, is a step of it or a `CutOff`. `CutOff` names
the errors with which the code ends a stream the contract rejects: when the progress
deadline passes, when a native Messages upstream or a verbatim relay fails, before any block
was started, and over malformed calls of a Responses answer. TLC reaches all four; the
property fails without any one of them.

**SessionPersistence** models `SessionStore` and its debounced writer, with
threads: the event loop's thread is writer `Main`, each timer thread is named
by its save generation. What is stored is abstracted to a version number: the
file holds the changes `1..disk`, memory `1..mem`. Both locks, the
atomic replacement of the file, failing writes and crashes are modelled.

**MessagingTrees** models the trees, the repository index, the processor's
tasks, the manager and the workflow commands. `slot` is one record per claim:
launched, running, finishing, recovering. A command holds `_state_lock` through
transition, drain, capture and save, which are separate steps because claims'
tasks save in between. `intake` is a message whose admission token is taken and
which is not admitted yet. One chat; sessions are "has one".

**PendingVoices** models `PendingVoiceRegistry` and `VoiceNoteFlow`: `flow[f]` is
where one delivery of a note stands, `task[f]` its handoff task, `op[o]` an
operation that cancels notes, given as a text command or spoken in a note.
`Interrupt` is the platform cancelling a handler; the send it then awaits
stays in the limiter's queue (`adrift`) and may arrive later (`StatusStrays`), with an id nobody has.

**CodeSessions** models one session of `CodeService`, its rows, its jobs
(`Work`, `Interrupt`, `Reply`, `Delete`, `Shutdown`) and the processes it
owns. `job[j].pc` is the await a job is in. A process has an ordered event queue, may
die at any time and may leave any call unanswered; a call then times out. It may also stop
reading while an input or an answer is written, the only messages that can be larger than the pipe
and its buffer: then the process is `clogged`, what is written to it waits in `drain()` or for
the lock of the writer, and that wait has no timeout (`Stuck`).
A native turn is named by the run whose input started it, which makes
"took another run's turn" expressible.

`MC...` modules add model values, symmetry and a view only. The definitions that model code are
mapped to their lines in `PROJECT.json`.

## Runs

| Run | Distinct states | Checks | Question |
|---|---|---|---|
| admission | 116 814 | 3 invariants, 1 refinement, 1 action, 1 liveness, deadlock | is recovery single-probe, shared, leak-free, and does everybody get an answer? |
| admission_orphan_leader | 2 365 | `FollowersAreReleased` (violated) | is a follower released when its leader's caller is gone? |
| code_turns | 464 496 | 2 invariants, 2 action | is each turn sent once, kept apart from others, and finished by its owner, over a crash? |
| code_life | 215 567 | 1 liveness | do stopped turns end against a silent harness, and a shutdown even against one that does not read? |
| lifecycle | 127 061 | 3 invariants, 1 liveness | is nothing closed under its users, and everything closed in the end, whatever fails? |
| request | 771 599 | 4 invariants, 1 refinement, 1 action, 1 liveness | does the client see one well-formed stream, but for the cut-offs named? |
| persistence | 104 582 | 1 safety, 1 liveness, deadlock | do durability and progress survive timers, faults, crashes? |
| delivery | 734 615 | 2 invariants, 2 action, 1 liveness | does every call get a true answer, at a strict rate, over failures and shutdown? |
| trees_safety | 585 425 | 2 invariants, 1 action | do queue, claims, tasks and index stay consistent under every command? |
| trees_store | 73 191 | 2 invariants, 1 action, 1 liveness | does the store stay restorable, cleared things cleared, and does every turn and command end? |
| trees_stop_raises | 1 318 | `StopIsTotal` (violated) | does a stop-all stop everything? |
| voices | 123 942 | 2 invariants, 1 action, 1 liveness | is a cancelled note silent, and do commands spoken in notes never wait for each other? |

What the properties say:

- *Admission*: `PermitsStayUsable` (the holder of a probe permit leads the
  episode it was given for, and its attempt can be claimed, through every await),
  `SlotsConserved`, `FollowersAreRegistered` (who sleeps in the condition will
  be notified by somebody), `IsCircuitBreaker` (the refinement of `CircuitBreaker`: a call
  behind the back of a recovery, an early or second probe, or a stale outcome that ends
  the recovery is a step the abstract circuit does not have), `ExhaustionIsShared`,
  `OpenSettles`.
- *Code sessions*: `InputIsSentOnce`, `ActiveIsOwned` (an unfinished run is the latest and
  has a live job, no turn of the harness counts for two runs, a loaded thread is saved),
  `StopPreventsInput`, `OutcomeIsFinal`, `EverythingSettles` (a stopped run ends if the
  processes read in the end, a shutdown in any case).
- *Lifecycle*: `NothingInUseCloses` (neither a leased client nor what handlers,
  turns and code sessions use), `EverythingIsReleased` (a close that reports
  success has left nothing), `SavedIsRunning` (file and runtime agree),
  `EverythingCloses`.
- *Request*: `FallbackIsInvisible`, `DeliveredIsRecorded` (a normal end delivered exactly
  what the provider recorded), `CutOffsAreContained` (half a call never looks finished,
  and the failure of a chat or a translated Responses upstream closes the blocks, malformed
  Responses calls excepted), `LeaseCoversUpstream`, `FollowsContract`
  (up to `CutOff`), `DeadlineIsFinal`, `RequestEnds`.
- *Session store*: `DurabilityIsKept` (what was promised is on disk, and the file
  never goes back), `ChangesReachDisk`.
- *Delivery*: `StrictWindow`, `NobodyIsForgotten`, `AnsweredIsShown` (an answer is
  never for a text that an older one displaced, retries and mixed ways excepted),
  `CloseIsFinal`, `CallsSettle`.
- *Trees*: `TurnsAreServed` (a pending turn is queued, a queue has a claim, a claim has
  one task), `IndexMatchesGraphs`, `SettledIsFinal`, `ClearedStaysCleared` (in memory and in
  the store), `StoreIsRestorable`, `CancellationIsFinal`, `EverythingSettles`.
- *Voices*: `CancelledStaysSilent`, `StatusHasOneOwner`, `EntriesAreTheirOwn`, `VoicesSettle`.

### Bounds, and why they are enough

- Admission: three executions (a leader, a follower and one that started before
  the episode), two attempts each (one to fail, one to probe), two slots
  (contention and an ordinary attempt beside a probe). Several episodes follow one another.
- Lifecycle: one request, `MaxGenerations` 2 (one retired under a lease, one
  current), `MaxUnpublished` 1. Its safety properties are proved for all
  bounds; the run is for liveness and for the composition.
- Request: two candidates (one to fail, one to fall back to), three attempts
  (one to fail early, one to recover midstream, one that must not happen),
  `MaxChunks` 3 chat chunks of every shape (enough for a reasoning block, a
  text block and half a call), `MaxLaterChunks` 1 in each later stream (every
  recovery meets content), `MaxNativeChunks` 2. Every candidate may have any of the three
  transports. `TaskTools` {1}: of the two calls one is a Task, whose arguments are
  buffered. `Quirks` is empty: it names what an upstream has to do for the
  [disagreements](#disagreements-without-a-run) below.
- Delivery: two calls on one or two messages (one replaces the other, or one waits behind the
  other), `MaxFailures` 2 (a retry that fails again), `RateLimit` 2 in a `Window` of 1,
  `MaxTime` 2: the window fills, passes and fills again. Every state is checked for
  `CallsSettle` except where the bounded clock ends before the worker's sleep does.
- Persistence: `MaxVersion` 3 (an old snapshot in a thread, a newer one in
  another, one in memory), one crash, one failed write.
- Trees: two messages give a parent and a reply, two trees, or a redelivery;
  two tree objects let a detached one live beside its successor; two claims are
  a running and a following one. `DrainTimeouts`, `Redelivery`, `Sessions` and
  `Restarts` switch dimensions, so that the product stays small: the safety run
  has timeouts and redelivery, the store run timeouts, sessions and restarts with
  one claim at a time. The safety run looks at states through a view
  without the stored snapshots, which nothing reads before a restart. The store run
  has no symmetry, because it checks liveness.
- Voices: two notes, each of which may be delivered twice, two deliveries in
  all, one text command: a note and its redelivery, or two notes that cancel each
  other while a text command cancels both.
- Code sessions: two runs (late events of the first meet the second), one
  prompt, `MaxConnections` 2 (a process that died and its successor),
  `MaxQueued` 1 event ahead of the service, one crash and restart in
  `code_turns`; deletion and shutdown, with one run, in `code_life`.
  `Disturbances` names which of them may happen. Two runs together with
  deletion is what the [second behaviour](#behaviour-met-while-modelling) below needs
  and is left out of the passing runs.

Deadlock checking is off where the system may rightly stop (everything was
delivered, closed or the bound is used up) and on in the admission and
persistence runs: there `AllDone` marks a rightful end, and in the session store a
flush is always possible when no operation is under way.

### Fairness

Only what the event loop, the operating system or a timeout guarantees is
fair. No caller, user or crash is obliged to act.

- Admission: ready tasks run, sleeps end, upstream calls end (HTTP timeouts).
  The semaphore is FIFO, hence strong fairness for a queued task. A leader goes
  round its retry loop; `OpenSettles` excepts a leader whose caller has ended,
  which is what `admission_orphan_leader` is about.
- Lifecycle: requests end, cleanups and discovery end, each part's close
  returns or raises, and a start or a teardown that began goes on. Teardown and
  configuration changes queue for the FIFO locks of asyncio that refreshes and
  account changes keep taking, hence strong fairness for them. Nobody has to call `close()`.
- Request: the clock does not stop, the loop runs what is ready, the client reads or leaves,
  closing an upstream stream ends. The upstream may be silent for ever.
- Session store: threads run; the writer lock is granted in turn (strong
  fairness of `WriteBegins`), and `ChangesReachDisk` excepts failed writes and
  crashes, which the code reports and does not retry.
- Delivery: the worker and the tasks run, sleeps and operations of the platform end.
- Trees: a runner ends (its CLI process exits or is stopped), a drained or
  timed-out command goes on.
- Voices: sends, downloads, transcriptions and message handlers end one way or another;
  a send without a waiter need not arrive.
- Code sessions: jobs run, events are dispatched, calls time out once they are written.
  A job whose write waits is not obliged to anything. Nothing is assumed of the harness for a
  shutdown: it need not answer, complete, read or die, as the shutdown closes it. That a
  stopped run ends has the hypothesis that from some time on the processes read
  (`StopSettles`); TLC refutes it without.

## Findings

Each has a run that reproduces it; `PROJECT.json` quotes the lines.

1. `admission_orphan_leader`: an execution becomes leader in `fail()` and its
   caller ends it before the next `open_attempt`. Nothing gives the leadership
   back, and every later caller of the provider waits for ever.
2. `trees_stop_raises`: after the answer of an active turn was cleared and its
   task outlived the drain, `cancel_all` raises half-way; other turns go on.

### Disagreements without a run

Code and words of the repository differ here too. The models reach these, or
exclude them by a named constant or exception, and no run is spent on them:

- A command captures a tree's snapshot (`trees/manager.py:371`), a turn completes and
  saves a newer one, the command saves its older one: after a restart a finished turn
  counts as interrupted and its session id is lost, against
  `trees/runtime.py:70` (only what was runnable is interrupted by a restore). `ClearedStaysCleared` covers what of this the code
  does prevent.
- `Quirks`, each of which breaks `FollowsContract` or a part of
  `CutOffsAreContained`: "mixed calls" (a model writes one call as text and
  makes others natively, and two calls get one index, `openai_chat/tool_calls.py:139`
  against `stream_contracts.py:138`); "late names" (arguments of a call before its name,
  `provider.py:1669` and `:291` against `tool_calls.py:36`); "slow
  close" (two terminal events of a Responses stream, against
  `stream_output.py:448`); "empty answers" (a verbatim relay of an answer
  without content ends normally, against `stream_contracts.py:165`); "early
  pings" (a ping before `message_start` may be released and commits the candidate, so
  that an error follows without a start, against `stream_contracts.py:106`).
- The progress deadline in the middle of a block, and a native Messages or verbatim
  relay that fails in one, leave Anthropic blocks open (`stream_contracts.py:164`), and a
  failure after `message_start` may come before any block (`:165`). `CutOff`, the exception
  of `FollowsContract`, names them; `FailureClosesBlocks` excepts those with open blocks.
- `CodeService.close` keeps its first close task, so one failure makes every later
  close fail, against "owned resources remain for retry" (`application.py:248`);
  the lifecycle model has it as `broken`.
- A retried older text may replace a newer one, against the promise of
  `limiter.py:18-22`; `AnsweredIsShown` excepts retries.

### Behaviour met while modelling

No document, comment or test states otherwise:

- The run of a subagent's prompt is stopped and the process has to be closed:
  the prompt stays pending, cannot be answered, and blocks the session until
  the server restarts (`service.py:1051`).
- `CodexAppServer.rpc` drains its write before its timeout begins and `respond` has none
  (`codex_app_server.py:200`, `:216`, `:226-230`): a live process that stops reading in the middle
  of a large input or answer keeps a stopped turn waiting, and its session busy, until it reads,
  dies or the server shuts down.
- A process dies while the next Send is admitted: the waiting closed event
  fails the new run, whose job goes on and may create a native thread after the
  session was deleted (`service.py:579`).
- `_deliver_answer` fails whatever run is current when an answer's pipe breaks,
  also when the prompt belonged to an earlier one (`service.py:816`). The job of the
  failed run goes on, opens a process and submits; a run admitted meanwhile is sent on
  that process and takes the `turn_started` of the failed run for its own. With two runs
  it cannot happen and with three it does, so `ActiveIsOwned` does not say that a run
  only ever has its own turn; that no turn counts for two runs is proved.
- The dirty flag of the session store is cleared after the lock under which
  that was decided is released (`persistence.py:123-128`); only tests read it.
- Every change restarts the debounce interval of the store, without a maximum
  delay (`persistence.py:51`).
- A refresh's test for a closed generation can never be true
  (`RefreshStaysCurrent` proves it).
- Two cancellations of a voice handler leave its status message to nobody, and
  `StatusHasOneOwner` excepts both by name: while the send waits in the limiter's queue
  (`voice_flow.py:172`; the worker delivers it all the same, `limiter.py:81-93`, and the id
  is lost), and after the handoff task was created and before its first step.

## Proofs

Every theorem holds for all values of the constants that satisfy the modules'
named assumptions (finite sets where a cardinality is counted, positive
limits). Each proof follows the same argument: an inductive invariant that
implies the properties, holds initially, and is kept by every action.

**ProviderAdmissionProofs.** `TypeOK` is not inductive with the properties
alone: `FollowersAreRegistered` needs to know that the leader is never among
the waiters and what it is doing (`LeaderKeepsItsRole`), the exhaustion of a
probe needs that no waiter has a call upstream (`WaitersHaveNoCall`), and the
end of a backoff needs that the episode is unchanged (`SleepingLeaderStillLeads`).
The invariant, `FullInv`, is `TypeOK`, these four, the two parts of
`PermitsStayUsable`, and `SlotsConserved`; its conjuncts are the theorems
`TypeCorrect`, `PermitsAreKept`, `SlotsAreConserved` and
`NoWakeupIsLost`. From the same invariant follow the step properties
`RecoveryIsNotBypassed`, `FailureIsFinal` and `ExhaustionReachesAll`. Slots are
counted with the library's cardinality facts. `AdmissionIsACircuitBreaker` is the
refinement: the invariant says whose permit is current and whose probe matches
(`ProbeFacts`), so that each action is one step of `CircuitBreaker` or none. What
holds of the abstract circuit then holds of the controller: `OnlyProbesEndRecovery`.

**DeliveryQueueProofs**, of `SlidingWindow` and `DeliveryQueue`. `WindowIsStrict`: no window
of time ever holds more than `RateLimit` admissions. `StrictWindow` becomes inductive with
`WindowTypeOK`, which says that whatever left the deque is at least a window old and that
the kept stamps number at most `RateLimit`. `DeliveryIsStrict` comes by refinement: every
step of the queue is a step of the window or leaves it alone, so `WindowIsStrict`
applies. `NobodyIsEverForgotten` and `CloseIsForever` need `QueueInv`: the shape
of the records (`Shape`), an entry is exactly what is queued, and once
(`EntriesAreQueued`), a queued call is in its entry or in the job (`Held`), and
what each phase of the close has already ruled out (`Closing`). `AnsweredTextsAreShown`
needs `Newest`: the text that an entry or the job holds is not older than any call that waits
for it, unless it is a retry or came another way. Nothing in an entry says why; it is
inductive only with `Line`, the order of the tasks that have not run yet. Tasks of one
way are ready in the order of their calls, the two steps of an outbox task keep that order,
and a call that was tried is older than every task of its way still to run, so a first
attempt never replaces a younger one.

**ApplicationLifecycleProofs**, of `ProviderGenerations` and `ApplicationLifecycle`. Of the
provider manager alone: `LeaseInv` conjoins the types, `Indexed`
(retired, tracked and cleaned generations have been published; the current one
is unretired until shutdown), `LockDiscipline` (who may hold the replace lock
when), `LeasesAreCounted`, `LeasedStaysOpen` and `RefreshIsCurrent`.
`LeasesAreCounted` carries the weight: a cleanup starts at counter zero, so
nobody can be using the generation exactly because the counter is the number
of holders. The theorems are `LeaseInvariant` and its parts `NothingInUseIsClosed`,
`RefreshStaysCurrent` and `GenerationsTypeCorrect`.
`ShutdownInv` adds what a shutdown needs: a retired generation is tracked or
cleaned, every earlier generation is retired, the targets of `close()` cover
what is not cleaned, and closed implies closing. With `LeaseInv` it gives
`ShutdownIsComplete`: a `close()` that reports success has missed nothing, even
after attempts that failed half-way.

Of the whole server: `LifecycleDrivesGenerations` (`AppSpec => Spec`) shows that the server around the provider manager implements the manager's
specification, so the theorems above hold in the whole server. `UserInv` is about the rest:
before the platform connects there is nothing to close (`NotYet`), work
has what it needs (`AtWork`), the step of a teardown says what is over
(`Passed`), what is no longer owned is closed (`Owned`), and a shutdown never gives way
to a start again (`Final`). Together they give
`NothingInUseIsEverClosed`, `SuccessReleasesEverything` and, with an invariant of two
variables, `TheFileIsNeverAhead`.

**RequestExecutionProofs.** `RequestDrivesExecutor` (`Spec => ExecutorSpec`): a
request, whatever its providers do, is an execution of `ModelFallback`. What the executor
promises follows from `ExecutorInv` (one stream is open, that of the current candidate;
what was shown is of it; a late request has its verdict): `OneCandidateIsSeen` and
`DeadlineIsKept`. `LeaseOutlivesUpstream` adds where in a provider stream an attempt can be
held (`Held`) and that between candidates the generator has ended (`Rests`).

What the client gets is the longest argument of the project. `StreamsFollowContract`:
a request takes the steps of `StreamContract` and those of `CutOff`, for any number of candidates,
attempts, chunks and blocks. `ErrorsAreNamed` shows that an error outside the contract is a `CutOff`,
from `FailureClosesBlocks`. `AnEndIsComplete` (of normal ends) and `ClosedIsClosed` are what
the contract promises; a `CutOff` keeps both. `RecordedIsDelivered` and
`CutOffsLeaveNoHalves` are the two other properties of the run.
All rest on `ClientInv`. Its part about a provider stream, `StreamInv`, says that the events that wait for
the client and those the hold-back buffer retains lead, each of them legal where it comes
(`Legal`), from what the client has to what the output has recorded. An attempt may be
thrown away exactly because nothing of it has left the buffer. Every method of the
output keeps it: it emits what it records (`Follows`), and leaves an output
whose open blocks and calls are where its fields say (`Closed` and what is coherent with it).
The lemmas follow the code from one block or call to `process_tool_call`, the salvage of calls
and the terminal event, then through each transport to the request. The loops over calls and blocks are functions on `0..n` that
refer to their own previous value; `Least` proves by the well-founded order of the natural
numbers what such a function is, and `UpTo` what holds of all its values.

The theorems say which upstreams they are about: `StreamsFollowContract`, and what follows
from it, allows at most the quirk "late names" (see Disagreements) because the code breaks the
contract under each of the others, `RecordedIsDelivered` all but
"mixed calls", `CutOffsLeaveNoHalves` all but these two. The other hypotheses are the
assumptions on the constants.

**SessionPersistenceProofs.** The invariant relates the version in memory, the
snapshots in pending and running writers, the file and what was promised: a
writer that may still replace the file has a snapshot at least as new as the
file, and one that holds the lock is the only one. What a store operation has
changed but not released yet is discounted while the store lock is held. From
it `PersistenceTypeCorrect`, and `DurabilityHolds` with its two halves.

**CodeSessionsProofs**, for any number of runs, prompts and processes, with every
disturbance, crash and restart. Jobs of earlier runs may still be under way, so
nothing follows from the run that is current; `SessionInv` says of each job by itself what
has happened to the run it works for (`JobsKnow`: before the await of the submission
its input has not been sent, during it the row says so), that an unfinished run is the
latest and has a job that will finish it or submit it (`RunsAreInOrder`), that whatever
the service is told or has recorded of a turn comes from an input, and who may still be told
(`TurnsAreTold`: a run whose turn went to another one is no longer the latest, or has a
turn of its own), that a prompt is announced once and before it has a row
(`PromptsAreNew`), and that a loaded thread is saved. Every action has a lemma that gives the
invariant and what `StopPreventsInput` and `OutcomeIsFinal` say of the step. The theorems
are `InputsAreSentOnce`, `UnfinishedRunsAreOwned`, `StopsPreventInput` and `OutcomesAreFinal`.

**PendingVoicesProofs**, for any number of notes, deliveries and commands. `VoicesInv`
rests on one fact: an entry that has left the registry before its own flow released it
is in the result of an operation, and no entry ever comes back. Around it, what the
stage of a flow says of its handoff task (`TasksFollowFlows`, `OutcomesFollowTasks`)
and of its status message (`CancelsHaveOwners`, `StatusesFollowFlows`). It gives
`CancelledNotesStaySilent`, `OneOwnerForTheStatus` (with the two exceptions of the property)
and `EntriesLeaveByTheirOwn`. The safety
half of `VoicesSettle` is proved as well: `CommandsNeverDeadlock`, as among any handoffs whose
operations wait, the one that began last waits for none of the others.

**MessagingTreesProofs**, for any number of messages, tree objects and claims, with drain
timeouts, redelivered messages, sessions and restarts. A graph is judged by what the code
itself demands of a stored one when it restores it. `TreesInv` says that every published graph
would pass those checks at any moment, that a detached tree holds nothing, that the index names
exactly the messages of the published graphs, that a queued message is pending and a pending
one queued (`PendingIsQueued`), that a claim has a task (`ClaimsHaveTasks`), that the turn
of a claim nobody cancelled is still in its graph, with its status message (`TurnsAreThere`),
that a stored tree can be restored and shares no message with another tree (`StoreIsSound`),
and that whatever the store holds beyond memory, the command under way will rewrite or drop
(`StoreIsRepaired`): between two of a command's awaits the store is behind, and that is why it
may not be compared with memory alone. The lemmas about graphs carry the proof: a reply added
to a sound graph (`GrownGraph`), a reply's subtree removed from it (`ClearedIsSound`: what
is left is connected, or nothing), states changed in it (`MarkedGraph`), a restored one
(`RestoredGraph`). Every action has a lemma that gives the invariant and the two step properties.
The theorems are `TreesInvariant` and the six properties the runs check of every step:
`TurnsServed`, `IndexIsExact`, `ClearIsFinal`, `StoreRestores`, `SettledStaysFinal` and
`CancellationStaysFinal`.

Only model-checked: liveness (`OpenSettles`, `EverythingCloses`, `RequestEnds`,
`ChangesReachDisk`, `CallsSettle`, both `EverythingSettles`, `VoicesSettle`), because
fairness and ENABLED are beyond the prover. Every other property of a passing run is also a
theorem. That the theorems exclude an upstream's quirks is no gap of the proof: with the excluded
ones the properties are false, and TLC shows it.
No module uses a RECURSIVE operator, so that all of them can be proved about.

## Plan

Done, most important behaviour first: provider admission, sliding window,
trees, provider generations, session store, code sessions, the request from
the client to the upstream, delivery queue, voice notes, application lifecycle.

Proved: every safety property, action property and refinement of the passing runs.

## What is not modelled

The model covers the part of the program where order matters. By lines most of the
repository is something else: the conversions of requests and
responses between three protocols, the quirks of two dozen vendors, settings and
their migration, rendering, launchers and the admin page.

- Conversions of requests and of whole responses (`core/anthropic/conversion.py`,
  `core/openai_responses`, vendor quirks), rendering and transcripts: sequential
  functions of data, tested well by examples. The streams are modelled, with
  content measured, not spelled.
- Within the transports: opaque reasoning, tool aliases, custom tools, the
  credentials of an endpoint beyond one refresh.
- Failure classification (`providers/failure_policy.py`): a verdict is an input
  of the admission and stream models.
- Managed Claude sessions, the Copilot broker, the event feed and the connected
  accounts keep state of their own. Each is smaller than what is modelled
  and stands behind one optional provider or one interface; the models have
  their contracts (a runner ends, an account changes, a queue overflows
  with a signal). They were left for the sake of depth in the components every
  request or turn passes.
- The startup notice of the workflow and the deletion of platform messages
  after a clear; a cancellation of `ApplicationRuntime.close()` itself.
- Configuration parsing and migration, launchers, installers, the admin page,
  web tools: sequential or not Python.
- The libraries: asyncio, SQLite, discord.py, python-telegram-bot, the Copilot
  SDK. The models rely on asyncio's documented scheduling, FIFO locks and
  cancellation as an exception at an await, and on atomic file replacement.
- Within modelled components: transcript items, settings and revisions of code
  sessions and storage errors there (`service.py:1108` stops the session); other
  chats than one in the trees (scopes partition the repository); contents of
  stored snapshots.
