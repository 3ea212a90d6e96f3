-------------------------- MODULE MessagingTrees --------------------------
(***************************************************************************)
(* The messaging conversation trees: MessageTree aggregates (trees/         *)
(* runtime.py, graph.py, queue.py), the repository that indexes them        *)
(* (repository.py), the processor that runs one task per claim              *)
(* (processor.py), the manager that serialises all of it (manager.py), and  *)
(* the workflow commands that drive it under _state_lock (workflow.py).     *)
(*                                                                          *)
(* Every manager handler is one atomic step: it holds the manager lock and  *)
(* awaits nothing but uncontended tree locks.  What interleaves is the       *)
(* handlers of one claim's task with those of other claims, with admissions  *)
(* and with the steps of a command: transition, drain, snapshot, save.       *)
(*                                                                          *)
(* One chat is modelled; scopes partition the repository and nothing crosses *)
(* them.  A prompt message is a member of Nodes; its FCC status message is   *)
(* the reference <<n, "status">>.  Session ids are reduced to "has one".     *)
(***************************************************************************)
EXTENDS Naturals, FiniteSets

CONSTANTS Nodes,          \* prompt messages the platform may deliver
          TreeObjects,    \* MessageTree objects alive at once (a bound)
          Claims,         \* claims with a task at once (a bound)
          NoNode, NoTree, NoClaim, NoRef,
          DrainTimeouts,  \* whether _drain_cancelled_tasks may time out
          Redelivery,     \* whether the platform may deliver a message twice
          Sessions,       \* whether turns report a CLI session id
          Restarts        \* whether the process may be restarted

ASSUME SentinelsAreFresh ==
    /\ NoNode \notin Nodes /\ NoTree \notin TreeObjects /\ NoClaim \notin Claims
    /\ NoRef \notin Nodes \X {"prompt", "status"}
    /\ {DrainTimeouts, Redelivery, Sessions, Restarts} \subseteq BOOLEAN

Prompt(n) == <<n, "prompt">>
Status(n) == <<n, "status">>
Refs == Nodes \X {"prompt", "status"}

Runnable == {"pending", "in_progress"}

\* A graph or a TreeSnapshot is a function from the nodes it holds to MessageNode records
\* of state (runnable, "completed" or "error"), status (the status message exists),
\* session (session_id is set) and ref, parent_reference_id, whose owner is parent_id.
NoGraph == [n \in {} |-> n]

VARIABLES
    trees,       \* repository._trees: root prompt -> tree object
    reference,   \* repository._reference_to_tree: reference -> root prompt
    graph,       \* per tree object: its nodes
    queue,       \* ... the queued nodes
    ahead,       \* ... the FIFO order of queue: <<a, b>> when a is before b
    active,      \* ... _active.claim
    cancelled,   \* ... _active.cancellation_requested
    slot,        \* processor._tasks, one record per claim
    intake,      \* messages past handle_message's token, before admission
    command,     \* the workflow command that holds _state_lock
    saved        \* session_store's tree snapshots, by root prompt

treeVars == <<graph, queue, ahead, active, cancelled>>
repoVars == <<trees, reference>>
vars == <<trees, reference, graph, queue, ahead, active, cancelled,
          slot, intake, command, saved>>

Free == [phase |-> "free", tree |-> NoTree, root |-> NoNode, node |-> NoNode,
         cancel |-> FALSE]
Idle == [op |-> "idle", phase |-> "none", waiting |-> {}, targets |-> {},
         dropped |-> {}, snaps |-> [r \in {} |-> NoGraph]]
NotWaiting == [ref |-> NoRef, current |-> FALSE, present |-> FALSE]

Published == {trees[r] : r \in Nodes} \ {NoTree}
Live(c) == slot[c].phase # "free"
\* Objects nothing refers to any more, neither the repository nor a task.
Garbage == TreeObjects \ (Published \cup {slot[c].tree : c \in Claims})

-----------------------------------------------------------------------------
\* Graph helpers

Resolves(g, r) == r[1] \in DOMAIN g /\ (r[2] = "status" => g[r[1]].status)

\* Mutant: the status message of a prompt is not followed.
MutRepliesTo(g, x) == {Prompt(m) : m \in {k \in DOMAIN g : g[k].ref = x}}

\* The platform messages that literally reply to, or report on, reference x.
RepliesTo(g, x) ==
    {Prompt(m) : m \in {k \in DOMAIN g : g[k].ref = x}}
        \cup {y \in {Status(x[1])} : x[2] = "prompt" /\ Resolves(g, y)}

\* get_reference_descendants: the least set that has r and is closed downwards.
ReplySubtree(g, r) ==
    IF ~Resolves(g, r) THEN {}
    ELSE {x \in Refs : \A S \in SUBSET Refs :
            (r \in S /\ \A y \in S : RepliesTo(g, y) \subseteq S) => x \in S}

\* get_descendants: closed under parent_id; n itself is included.
Descendants(g, n) ==
    {m \in DOMAIN g : \A S \in SUBSET DOMAIN g :
        (n \in S /\ \A k \in DOMAIN g : (g[k].ref # NoRef /\ g[k].ref[1] \in S) => k \in S)
            => m \in S}

Reopen(rec, st) == [rec EXCEPT !.state = st]
MarkError(g, S) ==
    [n \in DOMAIN g |-> IF n \in S /\ g[n].state \in Runnable
                          THEN Reopen(g[n], "error") ELSE g[n]]
\* Mutant: clearing an answer keeps its session.
MutClearStatus(g, n) ==
    [g EXCEPT ![n] = [@ EXCEPT !.state = "error", !.status = FALSE]]
ClearStatus(g, n) ==
    [g EXCEPT ![n] = [@ EXCEPT !.state = "error", !.status = FALSE, !.session = FALSE]]
RemoveNodes(g, S) == [n \in DOMAIN g \ S |-> g[n]]

References(g) == {Prompt(n) : n \in DOMAIN g}
                   \cup {Status(n) : n \in {m \in DOMAIN g : g[m].status}}

\* The UI target of an active node that is already ERROR: _ui_target raises
\* when its status message has been cleared.
RaisesOnCancel(t) ==
    /\ active[t] # NoClaim
    /\ LET n == slot[active[t]].node IN
         n \in DOMAIN graph[t] /\ graph[t][n].state = "error" /\ ~graph[t][n].status

-----------------------------------------------------------------------------
Init ==
    /\ trees = [n \in Nodes |-> NoTree]
    /\ reference = [r \in Refs |-> NoNode]
    /\ graph = [t \in TreeObjects |-> NoGraph]
    /\ queue = [t \in TreeObjects |-> {}]
    /\ ahead = [t \in TreeObjects |-> {}]
    /\ active = [t \in TreeObjects |-> NoClaim]
    /\ cancelled = [t \in TreeObjects |-> FALSE]
    /\ slot = [c \in Claims |-> Free]
    /\ intake = [n \in Nodes |-> NotWaiting]
    /\ command = Idle
    /\ saved = [n \in Nodes |-> NoGraph]

\* handle_message captures the admission token, which needs _state_lock, and
\* resolves the reply; a reply to an unknown message starts a conversation.
Deliver(n, r) ==
    /\ command.op = "idle"
    /\ ~intake[n].present
    /\ reference[Prompt(n)] # NoNode => Redelivery
    /\ r # NoRef => reference[r] # NoNode
    /\ intake' = [intake EXCEPT ![n] = [ref |-> r, current |-> TRUE, present |-> TRUE]]
    /\ UNCHANGED <<repoVars, treeVars, slot, command, saved>>

\* _claim: node n of graph g becomes the active one of tree t.
Claim(t, g, n, c) ==
    /\ graph' = [graph EXCEPT ![t] = [g EXCEPT ![n] = Reopen(@, "in_progress")]]
    /\ active' = [active EXCEPT ![t] = c]
    /\ cancelled' = [cancelled EXCEPT ![t] = FALSE]

\* launch attaches the task of a claim in the step that makes the claim.
\* Mutant: the claim is made but its task is never attached.
MutLaunched(t, r, n) == Free
Launched(t, r, n) ==
    [phase |-> "launched", tree |-> t, root |-> r, node |-> n, cancel |-> FALSE]

\* Mutant: a claim is made whether or not another one is active.
MutEnqueueOrClaim(t, r, g, n) ==
    /\ g[n].state = "pending"
    /\ \E c \in Claims :
         /\ slot[c] = Free
         /\ Claim(t, g, n, c)
         /\ slot' = [slot EXCEPT ![c] = Launched(t, r, n)]
    /\ saved' = [saved EXCEPT ![r] = graph'[t]]
    /\ UNCHANGED <<queue, ahead>>

\* _enqueue_or_claim on node n of graph g, with the snapshot saved by the caller.
EnqueueOrClaim(t, r, g, n) ==
    \/ /\ g[n].state = "pending" /\ active[t] = NoClaim
       /\ \E c \in Claims :
            /\ slot[c] = Free
            /\ Claim(t, g, n, c)
            /\ slot' = [slot EXCEPT ![c] = Launched(t, r, n)]
       /\ saved' = [saved EXCEPT ![r] = graph'[t]]
       /\ UNCHANGED <<queue, ahead>>
    \/ /\ g[n].state = "pending" /\ active[t] # NoClaim /\ n \notin queue[t]
       /\ graph' = [graph EXCEPT ![t] = g]
       /\ queue' = [queue EXCEPT ![t] = @ \cup {n}]
       /\ ahead' = [ahead EXCEPT ![t] = @ \cup (queue[t] \X {n})]
       /\ saved' = [saved EXCEPT ![r] = g]
       /\ UNCHANGED <<active, cancelled, slot>>

NewNode(r) == [state |-> "pending", status |-> TRUE, ref |-> r, session |-> FALSE]

Register(n, r) ==
    reference' = [reference EXCEPT ![Prompt(n)] = r, ![Status(n)] = r]

Dequeued(n) == intake' = [intake EXCEPT ![n] = NotWaiting]

\* A token from before a stop or a clear, a message already admitted, or a
\* reply whose target has been removed: rejected with no effect on any tree.
\* (admit calls enqueue_or_claim on the admitted node; it would claim or queue it
\* only if it were pending and not queued, which PendingIsQueued excludes.)
Reject(n) ==
    /\ command.op = "idle"
    /\ intake[n].present
    /\ \/ ~intake[n].current
       \/ reference[Prompt(n)] # NoNode
       \/ intake[n].ref # NoRef /\ reference[intake[n].ref] = NoNode
    /\ Dequeued(n)
    /\ UNCHANGED <<repoVars, treeVars, slot, command, saved>>

\* _admit_if_current, new conversation: admit publishes a tree whose root it claims.
AdmitRoot(n) ==
    /\ command.op = "idle"
    /\ intake[n].present /\ intake[n].current /\ intake[n].ref = NoRef
    /\ reference[Prompt(n)] = NoNode
    /\ \E t \in Garbage :
         /\ EnqueueOrClaim(t, n, [m \in {n} |-> NewNode(NoRef)], n)
         /\ trees' = [trees EXCEPT ![n] = t]
    /\ Register(n, n)
    /\ Dequeued(n)
    /\ UNCHANGED command

\* Mutant: a redelivered reply is admitted again.
MutAdmitReply(n) ==
    /\ command.op = "idle"
    /\ intake[n].present /\ intake[n].current /\ intake[n].ref # NoRef
    /\ reference[intake[n].ref] # NoNode
    /\ LET r == reference[intake[n].ref]
           t == trees[r]
           g == [m \in DOMAIN graph[t] \cup {n} |->
                   IF m = n THEN NewNode(intake[n].ref) ELSE graph[t][m]]
       IN /\ EnqueueOrClaim(t, r, g, n)
          /\ Register(n, r)
    /\ Dequeued(n)
    /\ UNCHANGED <<trees, command>>

\* _admit_if_current, reply: add_node, then queue or claim, then register.
AdmitReply(n) ==
    /\ command.op = "idle"
    /\ intake[n].present /\ intake[n].current /\ intake[n].ref # NoRef
    /\ reference[Prompt(n)] = NoNode
    /\ reference[intake[n].ref] # NoNode
    /\ LET r == reference[intake[n].ref]
           t == trees[r]
           g == [m \in DOMAIN graph[t] \cup {n} |->
                   IF m = n THEN NewNode(intake[n].ref) ELSE graph[t][m]]
       IN /\ EnqueueOrClaim(t, r, g, n)
          /\ Register(n, r)
    /\ Dequeued(n)
    /\ UNCHANGED <<trees, command>>

-----------------------------------------------------------------------------
\* The task of one claim.  The runner is any NodeProcessor: it may report at any
\* time until it ends, even after task.cancel(), but it ends only once its node
\* is settled, as node_runner.py does.

BeginRunner(c) ==
    /\ slot[c].phase = "launched" /\ ~slot[c].cancel
    /\ slot' = [slot EXCEPT ![c].phase = "running"]
    /\ UNCHANGED <<repoVars, treeVars, intake, command, saved>>

\* Mutant: no recovery for a task cancelled before its runner.
MutCancelledBeforeRunner(c) == slot[c].phase = "none" /\ UNCHANGED vars

\* A task cancelled before its runner: _run_claim's finally clause when its body
\* was entered, the recovery task of a finished task when it was not.
CancelledBeforeRunner(c) ==
    /\ slot[c].phase = "launched" /\ slot[c].cancel
    /\ \E p \in {"finishing", "recovering"} : slot' = [slot EXCEPT ![c].phase = p]
    /\ UNCHANGED <<repoVars, treeVars, intake, command, saved>>

\* The tree a report of claim c reaches: the published tree of its identity.
TreeOf(c) == trees[slot[c].root]
\* Mutant: a cancelled claim may still report.
MutMayReport(c) ==
    /\ slot[c].phase = "running"
    /\ TreeOf(c) # NoTree
    /\ active[TreeOf(c)] = c
    /\ slot[c].node \in DOMAIN graph[TreeOf(c)]
MayReport(c) ==
    /\ slot[c].phase = "running"
    /\ TreeOf(c) # NoTree
    /\ active[TreeOf(c)] = c
    /\ ~cancelled[TreeOf(c)]
    /\ slot[c].node \in DOMAIN graph[TreeOf(c)]
NodeOf(c) == graph[TreeOf(c)][slot[c].node]

\* A report changes the graph and its snapshot is stored before anyone else runs.
Report(c, g) ==
    /\ graph' = [graph EXCEPT ![TreeOf(c)] = g]
    /\ saved' = [saved EXCEPT ![slot[c].root] = g]

RecordSession(c) ==
    /\ Sessions /\ MayReport(c) /\ NodeOf(c).state = "in_progress"
    /\ Report(c, [graph[TreeOf(c)] EXCEPT ![slot[c].node].session = TRUE])
    /\ UNCHANGED <<repoVars, queue, ahead, active, cancelled, slot, intake, command>>

CompleteClaim(c) ==
    /\ MayReport(c) /\ NodeOf(c).state \in {"in_progress", "error"}
    /\ \E s \in {NodeOf(c).session, Sessions} :
         Report(c, [graph[TreeOf(c)] EXCEPT ![slot[c].node] =
                      [@ EXCEPT !.state = "completed", !.session = s]])
    /\ UNCHANGED <<repoVars, queue, ahead, active, cancelled, slot, intake, command>>

\* Mutant: settled nodes stay in the queue.
MutWithout(t, S) == UNCHANGED <<queue, ahead>>
Without(t, S) ==
    /\ queue' = [queue EXCEPT ![t] = @ \ S]
    /\ ahead' = [ahead EXCEPT ![t] = {e \in @ : e[1] \notin S /\ e[2] \notin S}]

\* fail_claim: the node, and with propagate its pending descendants.
FailEffect(c, propagate) ==
    LET t == TreeOf(c)
        n == slot[c].node
        hit == IF ~propagate \/ NodeOf(c).state = "completed" THEN {}
               ELSE {m \in Descendants(graph[t], n) \ {n} : graph[t][m].state = "pending"}
    IN /\ Report(c, IF NodeOf(c).state = "completed" THEN graph[t]
                    ELSE MarkError(graph[t], {n} \cup hit))
       /\ Without(t, hit)

FailClaim(c, propagate) ==
    /\ MayReport(c)
    /\ FailEffect(c, propagate)
    /\ UNCHANGED <<repoVars, active, cancelled, slot, intake, command>>

RunnerReturns(c) ==
    /\ slot[c].phase = "running"
    /\ MayReport(c) => NodeOf(c).state # "in_progress"
    /\ slot' = [slot EXCEPT ![c].phase = "finishing"]
    /\ UNCHANGED <<repoVars, treeVars, intake, command, saved>>

\* An exception escapes the runner: _handle_processor_failure, then finally.
RunnerRaises(c) ==
    /\ slot[c].phase = "running"
    /\ slot' = [slot EXCEPT ![c].phase = "finishing"]
    /\ IF MayReport(c) THEN FailEffect(c, TRUE)
       ELSE UNCHANGED <<graph, queue, ahead, saved>>
    /\ UNCHANGED <<repoVars, active, cancelled, intake, command>>

\* Queued nodes finish_and_claim_next may claim; it pops past the others.
Claimable(t) == {n \in queue[t] \cap DOMAIN graph[t] : graph[t][n].state = "pending"}
Before(t, n) == {m \in queue[t] : <<m, n>> \in ahead[t]}

\* _finish_claim: release the claim, select and launch its successor, drop the
\* task.  The successor's claim takes over the name c: nothing refers to the old
\* claim once its task is gone.
FinishClaim(c) ==
    LET t == slot[c].tree
        r == slot[c].root
    IN
    /\ slot[c].phase \in {"finishing", "recovering"}
    /\ command' = [command EXCEPT !.waiting = @ \ {c}]
    /\ \/ /\ active[t] = c /\ Claimable(t) = {}
          /\ active' = [active EXCEPT ![t] = NoClaim]
          /\ cancelled' = [cancelled EXCEPT ![t] = FALSE]
          /\ Without(t, queue[t])
          /\ slot' = [slot EXCEPT ![c] = Free]
          /\ UNCHANGED graph
       \/ \E n \in Claimable(t) :
          /\ active[t] = c /\ Before(t, n) \cap Claimable(t) = {}
          /\ Claim(t, graph[t], n, c)
          /\ Without(t, Before(t, n) \cup {n})
          /\ slot' = [slot EXCEPT ![c] = IF trees[r] = t THEN Launched(t, r, n) ELSE Free]
    /\ UNCHANGED <<repoVars, intake, saved>>

-----------------------------------------------------------------------------
\* Workflow commands.  _state_lock is held from the transition to the save, so
\* no admission and no other command runs between; the claims' tasks do.

\* processor.cancel on claims C; the drain waits for their tasks, but not for a
\* task that is already done and left to its recovery task.
CancelTasks(C) ==
    slot' = [c \in Claims |-> IF c \in C THEN [slot[c] EXCEPT !.cancel = TRUE] ELSE slot[c]]
Drained(C) == {c \in C : slot[c].phase \notin {"free", "recovering"}}

Commit(op, C, targets, dropped) ==
    /\ CancelTasks(C)
    /\ command' = [Idle EXCEPT !.op = op, !.phase = "draining", !.waiting = Drained(C),
                     !.targets = targets, !.dropped = dropped]

\* The transition raises: the exception reaches the workflow instead of a result.
Fail(op) == command' = [Idle EXCEPT !.op = op, !.phase = "failed"]

ActiveIn(t, S) == {c \in {active[t]} \ {NoClaim} : slot[c].node \in S}
Flag(t) == cancelled' = [cancelled EXCEPT ![t] = TRUE]

\* _stop_reply: cancel_node on the node that owns the reference.
StopReply(ref) ==
    LET r == reference[ref]
        t == trees[r]
        n == ref[1]
        C == ActiveIn(t, {n})
    IN
    /\ command.op = "idle" /\ r # NoNode
    /\ IF C # {} THEN Flag(t) ELSE UNCHANGED cancelled
    /\ Without(t, {n})
    /\ graph' = [graph EXCEPT ![t] = MarkError(@, {n})]
    /\ IF C # {} /\ RaisesOnCancel(t) THEN Fail("stop_reply") /\ UNCHANGED slot
       ELSE Commit("stop_reply", C, {<<r, t>>}, {})
    /\ UNCHANGED <<repoVars, active, intake, saved>>

\* Mutant: only prompts are unregistered.
MutUnregister(R) ==
    reference' = [x \in Refs |-> IF x \in R /\ x[2] = "prompt" THEN NoNode ELSE reference[x]]
Unregister(R) == reference' = [x \in Refs |-> IF x \in R THEN NoNode ELSE reference[x]]

\* _clear_reply: remove_message_subtree cancels and detaches the literal reply
\* subtree; for a status reference the prompt stays, its answer is cleared.
ClearReply(ref) ==
    LET r == reference[ref]
        t == trees[r]
        owner == {n \in {ref[1]} : ref[2] = "status"}
        below == ReplySubtree(graph[t], ref)
        removed == {n \in DOMAIN graph[t] : Prompt(n) \in below}
        affected == removed \cup owner
        C == ActiveIn(t, affected)
        marked == MarkError(graph[t], affected)
        whole == r \in removed
    IN
    /\ command.op = "idle" /\ r # NoNode
    /\ ~(C # {} /\ RaisesOnCancel(t))
    /\ IF C # {} THEN Flag(t) ELSE UNCHANGED cancelled
    /\ Without(t, affected)
    /\ graph' = [graph EXCEPT ![t] =
         RemoveNodes(IF owner = {} THEN marked ELSE ClearStatus(marked, ref[1]), removed)]
    /\ trees' = IF whole THEN [trees EXCEPT ![r] = NoTree] ELSE trees
    /\ Unregister(IF whole THEN {x \in Refs : reference[x] = r}
                  ELSE {x \in below : reference[x] = r})
    /\ Commit("clear_reply", C, IF whole THEN {} ELSE {<<r, t>>}, {r} \cap removed)
    /\ UNCHANGED <<active, intake, saved>>

\* The same with _ui_target raising on the active node: some of the affected
\* nodes are already cancelled and dequeued, nothing is detached or drained.
ClearReplyFails(ref) ==
    LET t == trees[reference[ref]]
        affected == {n \in DOMAIN graph[t] : \/ Prompt(n) \in ReplySubtree(graph[t], ref)
                                             \/ n = ref[1]}
    IN
    /\ command.op = "idle" /\ reference[ref] # NoNode
    /\ ActiveIn(t, affected) # {} /\ RaisesOnCancel(t)
    /\ Flag(t)
    /\ \E done \in SUBSET affected :
         /\ Without(t, done)
         /\ graph' = [graph EXCEPT ![t] = MarkError(@, done)]
    /\ Fail("clear_reply")
    /\ UNCHANGED <<repoVars, active, slot, intake, saved>>

\* Advancing _stop_generation or the clear generation.  The reply target of a
\* message with an old token is never looked at again.
ExpireTokens ==
    intake' = [n \in Nodes |-> [intake[n] EXCEPT !.current = FALSE, !.ref = NoRef]]

\* cancel_all on the trees of T, flagging also the tree F it raises in, if any.
CancelTrees(T, F) ==
    /\ cancelled' = [t \in TreeObjects |-> cancelled[t] \/ (t \in T \cup F /\ active[t] # NoClaim)]
    /\ queue' = [t \in TreeObjects |-> IF t \in T THEN {} ELSE queue[t]]
    /\ ahead' = [t \in TreeObjects |-> IF t \in T THEN {} ELSE ahead[t]]

ActiveOf(T) == {active[t] : t \in T} \ {NoClaim}
Cancelled(t) == MarkError(graph[t], DOMAIN graph[t])
Raising == {t \in Published : RaisesOnCancel(t)}

\* _stop_all_tasks.
StopAll ==
    /\ command.op = "idle" /\ Raising = {}
    /\ ExpireTokens
    /\ CancelTrees(Published, {})
    /\ graph' = [t \in TreeObjects |-> IF t \in Published THEN Cancelled(t) ELSE graph[t]]
    /\ Commit("stop_all", ActiveOf(Published),
              {e \in Nodes \X Published : trees[e[1]] = e[2]}, {})
    /\ UNCHANGED <<repoVars, active, saved>>

\* cancel_all raises in the tree F; the trees before it in the repository, T,
\* are cancelled, those after it are not reached.
StopAllFails ==
    /\ command.op = "idle"
    /\ ExpireTokens
    /\ \E f \in Raising, T \in SUBSET (Published \ Raising) :
         /\ CancelTrees(T, {f})
         /\ graph' = [t \in TreeObjects |-> IF t \in T THEN Cancelled(t) ELSE graph[t]]
         /\ CancelTasks(ActiveOf(T))
    /\ Fail("stop_all")
    /\ UNCHANGED <<repoVars, active, saved>>

\* Detaching the trees of T: their nodes are unreachable, their claims finish alone.
Detach(T) ==
    /\ trees' = [r \in Nodes |-> IF trees[r] \in T THEN NoTree ELSE trees[r]]
    /\ Unregister({x \in Refs : reference[x] # NoNode /\ trees[reference[x]] \in T})
    /\ graph' = [t \in TreeObjects |-> IF t \in T THEN NoGraph ELSE graph[t]]

\* _clear_chat: every tree is cancelled and detached before the drain.
ClearChat ==
    /\ command.op = "idle" /\ Raising = {}
    /\ ExpireTokens
    /\ CancelTrees(Published, {})
    /\ Detach(Published)
    /\ Commit("clear_chat", ActiveOf(Published), {}, Nodes)
    /\ UNCHANGED <<active, saved>>

\* clear_scope raises in the tree F.
ClearChatFails ==
    /\ command.op = "idle"
    /\ ExpireTokens
    /\ \E f \in Raising, T \in SUBSET (Published \ Raising) :
         /\ CancelTrees(T, {f})
         /\ Detach(T)
         /\ CancelTasks(ActiveOf(T))
    /\ Fail("clear_chat")
    /\ UNCHANGED <<active, saved>>

\* _drain_cancelled_tasks ends, _current_snapshot reads every tree still published.
\* Only a runner's own cleanup (a CLI process to stop) can outlast its 5 seconds;
\* every other phase of a task is a few turns of the loop.
DrainEnds ==
    \/ command.waiting = {}
    \/ DrainTimeouts /\ \E c \in command.waiting : slot[c].phase = "running"
CaptureSnapshots ==
    LET kept == {e \in command.targets : trees[e[1]] = e[2]} IN
    /\ command.phase = "draining"
    /\ DrainEnds
    /\ command' = [command EXCEPT !.phase = "captured", !.waiting = {},
                     !.snaps = [r \in {e[1] : e \in kept} |-> graph[trees[r]]]]
    /\ UNCHANGED <<repoVars, treeVars, slot, intake, saved>>

\* Mutant: removed trees stay in the store.
MutApplyResult ==
    /\ command.phase = "captured"
    /\ saved' = [r \in Nodes |-> IF r \in DOMAIN command.snaps THEN command.snaps[r] ELSE saved[r]]
    /\ command' = Idle
    /\ UNCHANGED <<repoVars, treeVars, slot, intake>>

\* The result reaches the workflow through _finish_transition's task, a few loop
\* turns later; it saves the snapshots, drops the removed trees, frees the lock.
ApplyResult ==
    /\ command.phase = "captured"
    /\ saved' = [r \in Nodes |-> IF r \in DOMAIN command.snaps THEN command.snaps[r]
                                 ELSE IF r \in command.dropped THEN NoGraph ELSE saved[r]]
    /\ command' = Idle
    /\ UNCHANGED <<repoVars, treeVars, slot, intake>>

\* Mutant: an exception leaves the lock taken.
MutRaiseFailure ==
    /\ command.phase = "failed"
    /\ saved' = IF command.op = "clear_chat" THEN [r \in Nodes |-> NoGraph] ELSE saved
    /\ UNCHANGED <<repoVars, treeVars, slot, intake, command>>

\* The exception frees the lock; _clear_chat clears the store all the same.
RaiseFailure ==
    /\ command.phase = "failed"
    /\ saved' = IF command.op = "clear_chat" THEN [r \in Nodes |-> NoGraph] ELSE saved
    /\ command' = Idle
    /\ UNCHANGED <<repoVars, treeVars, slot, intake>>

-----------------------------------------------------------------------------
\* Restart: from_snapshot of the stored trees.  Restarting from an older save
\* is restarting at the earlier moment at which that save was the latest.

\* What graph.from_snapshot and node_from_snapshot accept.
Restorable(g, r) ==
    /\ r \in DOMAIN g /\ g[r].ref = NoRef
    /\ \A n \in DOMAIN g :
         /\ g[n].state \in Runnable => g[n].status
         /\ n # r => g[n].ref # NoRef /\ Resolves(g, g[n].ref)
    /\ Descendants(g, r) = DOMAIN g

Restored(g) == MarkError(g, DOMAIN g)
StoredRoots == {r \in Nodes : saved[r] # NoGraph}

\* The process ends at any point: tasks, commands and messages in flight vanish.
Restart ==
    LET roots == {r \in StoredRoots : Restorable(saved[r], r)} IN
    /\ Restarts
    /\ \E object \in [roots -> TreeObjects] :
         /\ \A r1, r2 \in roots : object[r1] = object[r2] => r1 = r2
         /\ trees' = [r \in Nodes |-> IF r \in roots THEN object[r] ELSE NoTree]
         /\ graph' = [t \in TreeObjects |->
                        IF \E r \in roots : object[r] = t
                          THEN Restored(saved[CHOOSE r \in roots : object[r] = t])
                          ELSE NoGraph]
    /\ reference' = [x \in Refs |->
                       IF \E r \in roots : x \in References(saved[r])
                         THEN CHOOSE r \in roots : x \in References(saved[r])
                         ELSE NoNode]
    /\ saved' = [r \in Nodes |-> IF r \in roots THEN Restored(saved[r]) ELSE NoGraph]
    /\ queue' = [t \in TreeObjects |-> {}]
    /\ ahead' = [t \in TreeObjects |-> {}]
    /\ active' = [t \in TreeObjects |-> NoClaim]
    /\ cancelled' = [t \in TreeObjects |-> FALSE]
    /\ slot' = [c \in Claims |-> Free]
    /\ intake' = [n \in Nodes |-> NotWaiting]
    /\ command' = Idle

Next ==
    \/ \E n \in Nodes : \/ \E r \in Refs \cup {NoRef} : Deliver(n, r)
                        \/ Reject(n) \/ AdmitRoot(n) \/ AdmitReply(n)
    \/ \E c \in Claims : \/ BeginRunner(c) \/ CancelledBeforeRunner(c)
                         \/ RecordSession(c) \/ CompleteClaim(c)
                         \/ \E p \in BOOLEAN : FailClaim(c, p)
                         \/ RunnerReturns(c) \/ RunnerRaises(c) \/ FinishClaim(c)
    \/ \E r \in Refs : StopReply(r) \/ ClearReply(r) \/ ClearReplyFails(r)
    \/ StopAll \/ StopAllFails \/ ClearChat \/ ClearChatFails
    \/ CaptureSnapshots \/ ApplyResult \/ RaiseFailure
    \/ Restart

Spec == Init /\ [][Next]_vars

\* The event loop runs every ready task; a turn's runner ends (the CLI process
\* exits or is stopped); a drained or timed-out command goes on; a message past
\* its token reaches admission.  Nothing makes a user or a crash act.
Fairness ==
    /\ \A c \in Claims : /\ WF_vars(BeginRunner(c))
                          /\ WF_vars(CancelledBeforeRunner(c))
                          /\ WF_vars(RunnerReturns(c) \/ RunnerRaises(c))
                          /\ WF_vars(FinishClaim(c))
    /\ WF_vars(CaptureSnapshots) /\ WF_vars(ApplyResult) /\ WF_vars(RaiseFailure)

FairSpec == Spec /\ Fairness

-----------------------------------------------------------------------------
\* Properties

StateOf(t, n) == graph[t][n].state

\* No admitted node is forgotten: a node of a published tree is PENDING exactly
\* while it is queued there (runtime.py: every path that dequeues also settles).
PendingIsQueued ==
    \A t \in Published : queue[t] = {n \in DOMAIN graph[t] : StateOf(t, n) = "pending"}

\* A queue always has a claim ahead of it to hand over to its head, and a claim
\* always has a live task to finish it (_finish_claim launches the successor).
QueueIsServed ==
    \A t \in TreeObjects :
        /\ queue[t] # {} => active[t] # NoClaim
        /\ active[t] # NoClaim => slot[active[t]].phase # "free" /\ slot[active[t]].tree = t

\* A tree runs one claim at a time: no second task exists for the same aggregate.
OneTaskPerTree ==
    \A c, d \in Claims :
        Live(c) /\ Live(d) /\ slot[c].tree = slot[d].tree => c = d

\* No admitted turn is forgotten: it waits in its queue, and something serves the queue.
TurnsAreServed == PendingIsQueued /\ QueueIsServed /\ OneTaskPerTree

\* The repository index names exactly the live references of published trees, so
\* a reply reaches the tree that owns the message and no removed message resolves.
IndexMatchesGraphs ==
    \A x \in Refs : \A r \in Nodes :
        reference[x] = r <=> trees[r] # NoTree /\ x \in References(graph[trees[r]])

\* Every stored snapshot passes the restore checks: no conversation is skipped
\* as invalid after a restart (graph.py from_snapshot, repository.py).
StoreIsRestorable ==
    /\ \A r \in StoredRoots : Restorable(saved[r], r)
    /\ \A q, r \in StoredRoots : q # r => References(saved[q]) \cap References(saved[r]) = {}

\* An answer that has been cleared can never be resumed: no late report gives
\* the node a session again.
ClearedHasNoSession ==
    \A t \in Published : \A n \in DOMAIN graph[t] :
        ~graph[t][n].status => ~graph[t][n].session /\ StateOf(t, n) = "error"

\* What was cleared does not come back: with no command in flight the store holds no
\* message that memory does not hold, whatever a task that outlived its drain saved.
RemovedStaysRemoved ==
    command.op = "idle" =>
        \A r \in Nodes :
            References(saved[r]) \subseteq IF trees[r] = NoTree THEN {} ELSE References(graph[trees[r]])

\* A clear is final, in memory and in the store, whatever reports late.
ClearedStaysCleared == ClearedHasNoSession /\ RemovedStaysRemoved

AnyRunnable == \E t \in Published : \E n \in DOMAIN graph[t] : StateOf(t, n) \in Runnable

\* "Atomically cancel every runnable node present at the transition": from the
\* transition of a stop-all to its end nothing is queued, running or admitted.
StopIsTotal == command.op = "stop_all" => ~AnyRunnable

\* A committed cancellation is final: as long as its claim is active, a node its
\* command marked ERROR stays so, whatever its runner still reports.
CancellationIsFinal ==
    [][\A t \in TreeObjects : cancelled[t] /\ cancelled'[t] /\ active'[t] = active[t] =>
         LET n == slot[active[t]].node IN
           n \in DOMAIN graph[t] \cap DOMAIN graph'[t] /\ graph[t][n].state = "error"
             => graph'[t][n].state = "error" /\ (graph'[t][n].session => graph[t][n].session)]_vars

\* A redelivered message never runs again: a settled node is never runnable again.
SettledIsFinal ==
    [][\A t \in TreeObjects : \A n \in DOMAIN graph[t] \cap DOMAIN graph'[t] :
         graph[t][n].state \notin Runnable => graph'[t][n].state \notin Runnable]_vars

\* Every admitted turn is eventually settled or removed.
TurnsSettle ==
    \A r \in Nodes, n \in Nodes :
        (trees[r] # NoTree /\ n \in DOMAIN graph[trees[r]] /\ StateOf(trees[r], n) \in Runnable)
          ~> ~(trees[r] # NoTree /\ n \in DOMAIN graph[trees[r]] /\ StateOf(trees[r], n) \in Runnable)

\* _state_lock is always given back, whatever the tasks it waits for do.
CommandsEnd == command.op # "idle" ~> command.op = "idle"

\* Both at once: neither a turn nor a command waits for the other for ever.
EverythingSettles == TurnsSettle /\ CommandsEnd
=============================================================================
