------------------------ MODULE MessagingTreesProofs ------------------------
(***************************************************************************)
(* MessagingTrees for every set of messages, tree objects and claims, with *)
(* drains that time out, redeliveries, sessions and restarts.              *)
(*                                                                         *)
(* TreesInv is about four relations: a published graph would pass the      *)
(* restore checks at any moment (GraphsAreSound), a claim and its task     *)
(* belong to one tree (ClaimsHaveTasks), the turn of a claim that is not   *)
(* cancelled is still in its graph (TurnsAreThere), and whatever the store *)
(* holds beyond memory the command under way removes (StoreIsRepaired).    *)
(***************************************************************************)
EXTENDS MessagingTrees, TLAPS

USE SentinelsAreFresh

States == {"pending", "in_progress", "completed", "error"}
NodeRecord == [state : States, status : BOOLEAN, ref : Refs \cup {NoRef}, session : BOOLEAN]
IsGraph(g) == DOMAIN g \in SUBSET Nodes /\ g \in [DOMAIN g -> NodeRecord]

Phases == {"free", "launched", "running", "finishing", "recovering"}
Slot == [phase : Phases, tree : TreeObjects \cup {NoTree}, root : Nodes \cup {NoNode},
         node : Nodes \cup {NoNode}, cancel : BOOLEAN]

Intake == [ref : Refs \cup {NoRef}, current : BOOLEAN, present : BOOLEAN]

\* Entries of ahead need no type: Before looks at queued nodes only.
Shape ==
    /\ trees \in [Nodes -> TreeObjects \cup {NoTree}]
    /\ reference \in [Refs -> Nodes \cup {NoNode}]
    /\ DOMAIN graph = TreeObjects /\ \A t \in TreeObjects : IsGraph(graph[t])
    /\ queue \in [TreeObjects -> SUBSET Nodes]
    /\ active \in [TreeObjects -> Claims \cup {NoClaim}]
    /\ cancelled \in [TreeObjects -> BOOLEAN]
    /\ slot \in [Claims -> Slot]
    /\ intake \in [Nodes -> Intake]
    /\ DOMAIN saved = Nodes /\ \A r \in Nodes : IsGraph(saved[r])

\* A cleared answer left neither a session nor a state that would use it.
Clean(g) == \A n \in DOMAIN g : ~g[n].status => ~g[n].session /\ g[n].state = "error"

Sound(g, r) == Restorable(g, r) /\ Clean(g)

\* A tree has one root, its graph could be restored as it is; a detached tree is empty.
GraphsAreSound ==
    /\ \A q, r \in Nodes : trees[q] = trees[r] /\ trees[q] # NoTree => q = r
    /\ \A r \in Nodes : trees[r] # NoTree => Sound(graph[trees[r]], r)
    /\ \A t \in TreeObjects : t \notin Published => DOMAIN graph[t] = {} /\ queue[t] = {}

\* A claim has a task and a task its claim; a tree without a claim has no queue and
\* nothing to cancel.
ClaimsHaveTasks ==
    /\ \A t \in TreeObjects :
        /\ active[t] # NoClaim => Live(active[t]) /\ slot[active[t]].tree = t
        /\ active[t] = NoClaim => queue[t] = {} /\ ~cancelled[t]
    /\ \A c \in Claims : Live(c) =>
        /\ slot[c].tree \in TreeObjects /\ active[slot[c].tree] = c
        /\ slot[c].root \in Nodes /\ slot[c].node \in Nodes
        /\ slot[c].tree \in Published => trees[slot[c].root] = slot[c].tree

\* The turn of a claim is in the graph with its status message, and claimed, unless a
\* command has cancelled it.
TurnsAreThere ==
    \A t \in Published : active[t] # NoClaim /\ ~cancelled[t] =>
        LET n == slot[active[t]].node IN
          n \in DOMAIN graph[t] /\ graph[t][n].status /\ graph[t][n].state # "pending"

\* Snapshots could be restored, and no message is in two of them or in a snapshot and in
\* another tree.
StoreIsSound ==
    /\ \A r \in Nodes : DOMAIN saved[r] # {} => Sound(saved[r], r)
    /\ \A q, r \in Nodes : q # r =>
        /\ DOMAIN saved[q] \cap DOMAIN saved[r] = {}
        /\ trees[q] # NoTree => DOMAIN graph[trees[q]] \cap DOMAIN saved[r] = {}

\* The command under way will write the snapshot of r, or drop it.
WillRewrite(r) ==
    \/ command.phase = "draining" /\ trees[r] # NoTree /\ <<r, trees[r]>> \in command.targets
    \/ command.phase = "draining" /\ trees[r] = NoTree /\ r \in command.dropped
    \/ command.phase = "captured" /\ r \in DOMAIN command.snaps \cup command.dropped
    \/ command.phase = "failed" /\ command.op = "clear_chat"

Remembered(r) == IF trees[r] = NoTree THEN {} ELSE References(graph[trees[r]])

\* What a command has captured is still so in memory, but for the states.
StoreIsRepaired ==
    /\ command.op = "idle" => command.phase = "none"
    /\ command.op # "idle" => command.phase \in {"draining", "captured", "failed"}
    /\ command.targets \subseteq Nodes \X TreeObjects
    /\ \A r \in Nodes : References(saved[r]) \subseteq Remembered(r) \/ WillRewrite(r)
    /\ command.phase = "captured" =>
        \A r \in DOMAIN command.snaps :
            /\ r \in Nodes /\ trees[r] # NoTree
            /\ IsGraph(command.snaps[r]) /\ Sound(command.snaps[r], r)
            /\ References(command.snaps[r]) \subseteq References(graph[trees[r]])

TreesInv ==
    /\ Shape /\ GraphsAreSound /\ IndexMatchesGraphs /\ PendingIsQueued
    /\ ClaimsHaveTasks /\ TurnsAreThere /\ StoreIsSound /\ StoreIsRepaired

\* What SettledIsFinal and CancellationIsFinal say of one step.
SettledStay ==
    \A t \in TreeObjects : \A n \in DOMAIN graph[t] \cap DOMAIN graph'[t] :
        graph[t][n].state \notin Runnable => graph'[t][n].state \notin Runnable

CancelledStay ==
    \A t \in TreeObjects : cancelled[t] /\ cancelled'[t] /\ active'[t] = active[t] =>
        LET n == slot[active[t]].node IN
          n \in DOMAIN graph[t] \cap DOMAIN graph'[t] /\ graph[t][n].state = "error"
            => graph'[t][n].state = "error" /\ (graph'[t][n].session => graph[t][n].session)

\* No task begins or ends, and each stays the task of its turn.
TasksGoOn ==
    /\ slot' \in [Claims -> Slot]
    /\ \A c \in Claims :
         /\ slot'[c].tree = slot[c].tree /\ slot'[c].root = slot[c].root
         /\ slot'[c].node = slot[c].node
         /\ slot'[c].phase = "free" <=> slot[c].phase = "free"

GoesWell == TreesInv' /\ SettledStay /\ CancelledStay

-----------------------------------------------------------------------------
(* Graphs and references. *)

LEMMA RefFacts ==
    ASSUME NEW x \in Refs
    PROVE  /\ x[1] \in Nodes /\ x # NoRef
           /\ \/ x = Prompt(x[1]) /\ x[2] = "prompt" /\ x # Status(x[1])
              \/ x = Status(x[1]) /\ x[2] = "status" /\ x # Prompt(x[1])
BY DEF Refs, Prompt, Status

LEMMA NodeRefs ==
    ASSUME NEW n \in Nodes
    PROVE  /\ Prompt(n) \in Refs /\ Status(n) \in Refs /\ Prompt(n) # Status(n)
           /\ Prompt(n)[1] = n /\ Status(n)[1] = n
           /\ Prompt(n)[2] = "prompt" /\ Status(n)[2] = "status"
           /\ \A m \in Nodes : m # n => Prompt(m) # Prompt(n) /\ Status(m) # Status(n)
           /\ \A m \in Nodes : Prompt(m) # Status(n)
BY DEF Refs, Prompt, Status

LEMMA ReferenceOf ==
    ASSUME NEW g, NEW x \in Refs
    PROVE  x \in References(g) <=> Resolves(g, x)
BY RefFacts DEF References, Resolves, Prompt, Status

LEMMA ReferencesAreRefs ==
    ASSUME NEW g, DOMAIN g \subseteq Nodes
    PROVE  References(g) \subseteq Refs
BY NodeRefs DEF References

\* Closed under get_children.
Closed(g, S) == \A k \in DOMAIN g : g[k].ref # NoRef /\ g[k].ref[1] \in S => k \in S

Connected(g, r) == \A S \in SUBSET DOMAIN g : r \in S /\ Closed(g, S) => DOMAIN g \subseteq S

LEMMA ConnectedGraph ==
    ASSUME NEW g, NEW r
    PROVE  Descendants(g, r) = DOMAIN g <=> Connected(g, r)
BY DEF Descendants, Connected, Closed

\* What the restore checks ask of a graph, without the states.
Formed(g, r) ==
    /\ r \in DOMAIN g /\ g[r].ref = NoRef
    /\ \A n \in DOMAIN g : n # r => g[n].ref # NoRef /\ Resolves(g, g[n].ref)
    /\ Connected(g, r)

LEMMA SoundGraph ==
    ASSUME NEW g, NEW r
    PROVE  Sound(g, r) <=> Formed(g, r) /\ Clean(g)
<1>1. Clean(g) => \A n \in DOMAIN g : g[n].state \in Runnable => g[n].status
  BY DEF Clean, Runnable
<1> QED BY <1>1, ConnectedGraph DEF Sound, Formed, Restorable

\* The same messages in the same places.
Alike(g, h) ==
    /\ DOMAIN h = DOMAIN g
    /\ \A n \in DOMAIN g : h[n].ref = g[n].ref /\ h[n].status = g[n].status

LEMMA AlikeReferences ==
    ASSUME NEW g, NEW h, Alike(g, h)
    PROVE  References(h) = References(g)
BY DEF Alike, References

LEMMA AlikeIsSound ==
    ASSUME NEW g, NEW h, NEW r, Alike(g, h), Sound(g, r), Clean(h)
    PROVE  Sound(h, r)
<1>1. Formed(g, r)
  BY SoundGraph
<1>2. \A S : Closed(h, S) => Closed(g, S)
  BY DEF Alike, Closed
<1>3. Connected(h, r)
  BY <1>1, <1>2 DEF Formed, Connected, Alike
<1>4. \A x : Resolves(g, x) => Resolves(h, x)
  BY DEF Alike, Resolves
<1>5. r \in DOMAIN h /\ h[r].ref = NoRef
  BY <1>1 DEF Formed, Alike
<1>6. ASSUME NEW n \in DOMAIN h, n # r PROVE h[n].ref # NoRef /\ Resolves(h, h[n].ref)
  BY <1>1, <1>4, <1>6 DEF Formed, Alike
<1>7. Formed(h, r)
  BY <1>3, <1>5, <1>6 DEF Formed
<1> QED BY <1>7, SoundGraph

LEMMA MarkedGraph ==
    ASSUME NEW g, IsGraph(g), NEW S
    PROVE  /\ IsGraph(MarkError(g, S)) /\ Alike(g, MarkError(g, S))
           /\ Clean(g) => Clean(MarkError(g, S))
           /\ \A n \in DOMAIN g :
                /\ MarkError(g, S)[n].state = "pending" <=> g[n].state = "pending" /\ n \notin S
                /\ g[n].state \notin Runnable => MarkError(g, S)[n] = g[n]
                /\ MarkError(g, S)[n].session = g[n].session
                /\ g[n].state = "error" => MarkError(g, S)[n].state = "error"
                /\ MarkError(g, S)[n].state \in Runnable => g[n].state \in Runnable /\ n \notin S
<1> DEFINE h == MarkError(g, S)
<1>1. DOMAIN h = DOMAIN g
  BY DEF MarkError
<1>2. ASSUME NEW n \in DOMAIN g
      PROVE  /\ h[n] \in NodeRecord /\ h[n].ref = g[n].ref /\ h[n].status = g[n].status
             /\ h[n].session = g[n].session
             /\ h[n].state = IF n \in S /\ g[n].state \in Runnable THEN "error" ELSE g[n].state
             /\ g[n].state \notin Runnable => h[n] = g[n]
  <2>1. g[n] \in NodeRecord
    BY DEF IsGraph
  <2>2. h[n] = IF n \in S /\ g[n].state \in Runnable THEN Reopen(g[n], "error") ELSE g[n]
    BY DEF MarkError
  <2> QED BY <2>1, <2>2 DEF NodeRecord, Reopen, States
<1>3. h = [n \in DOMAIN g |-> h[n]]
  BY DEF MarkError
<1>4. IsGraph(h)
  BY <1>1, <1>2, <1>3 DEF IsGraph
<1> QED BY <1>1, <1>2, <1>4 DEF Alike, Clean, Runnable

\* One record changes, and not its place.
LEMMA ChangedRecord ==
    ASSUME NEW g, IsGraph(g), NEW n \in DOMAIN g, NEW rec \in NodeRecord,
           rec.ref = g[n].ref, rec.status = g[n].status,
           rec.status \/ (~rec.session /\ rec.state = "error")
    PROVE  /\ IsGraph([g EXCEPT ![n] = rec]) /\ Alike(g, [g EXCEPT ![n] = rec])
           /\ Clean(g) => Clean([g EXCEPT ![n] = rec])
           /\ \A m \in DOMAIN g : [g EXCEPT ![n] = rec][m] = IF m = n THEN rec ELSE g[m]
<1> DEFINE h == [g EXCEPT ![n] = rec]
<1>1. DOMAIN h = DOMAIN g /\ \A m \in DOMAIN g : h[m] = IF m = n THEN rec ELSE g[m]
  BY DEF IsGraph
<1>2. h \in [DOMAIN g -> NodeRecord]
  BY DEF IsGraph
<1>3. IsGraph(h)
  BY <1>1, <1>2 DEF IsGraph
<1>4. Alike(g, h)
  BY <1>1 DEF Alike
<1>5. Clean(g) => Clean(h)
  BY <1>1 DEF Clean
<1> QED BY <1>1, <1>3, <1>4, <1>5

\* _claim.
LEMMA ClaimedGraph ==
    ASSUME NEW g, IsGraph(g), NEW n \in DOMAIN g, g[n].state = "pending", Clean(g)
    PROVE  LET h == [g EXCEPT ![n] = Reopen(@, "in_progress")] IN
             /\ IsGraph(h) /\ Alike(g, h) /\ Clean(h)
             /\ \A m \in DOMAIN g : m # n => h[m] = g[m]
             /\ h[n].state = "in_progress" /\ h[n].status
<1> DEFINE rec == Reopen(g[n], "in_progress")
<1>1. g[n] \in NodeRecord /\ g[n].status
  BY DEF IsGraph, Clean
<1>2. /\ rec \in NodeRecord /\ rec.ref = g[n].ref /\ rec.status = g[n].status
      /\ rec.state = "in_progress"
  BY <1>1 DEF Reopen, NodeRecord, States
<1>3. [g EXCEPT ![n] = Reopen(@, "in_progress")] = [g EXCEPT ![n] = rec]
  OBVIOUS
<1> HIDE DEF rec
<1> QED BY <1>1, <1>2, <1>3, ChangedRecord

LEMMA NewRecord ==
    ASSUME NEW x \in Refs \cup {NoRef}
    PROVE  /\ NewNode(x) \in NodeRecord /\ NewNode(x).state = "pending" /\ NewNode(x).status
           /\ NewNode(x).ref = x
BY DEF NewNode, NodeRecord, States

\* admit: a new conversation.
LEMMA NewGraph ==
    ASSUME NEW n \in Nodes
    PROVE  LET g == [m \in {n} |-> NewNode(NoRef)] IN
             /\ IsGraph(g) /\ Sound(g, n) /\ DOMAIN g = {n} /\ g[n].state = "pending"
             /\ References(g) = {Prompt(n), Status(n)}
<1> DEFINE g == [m \in {n} |-> NewNode(NoRef)]
<1>1. DOMAIN g = {n} /\ g[n] = NewNode(NoRef)
  OBVIOUS
<1>2. IsGraph(g)
  BY <1>1, NewRecord DEF IsGraph
<1>3. Formed(g, n)
  BY <1>1, NewRecord DEF Formed, Connected
<1>4. Clean(g)
  BY <1>1, NewRecord DEF Clean
<1>5. \A m : m \in DOMAIN g /\ g[m].status <=> m = n
  BY <1>1, NewRecord
<1>6. References(g) = {Prompt(n), Status(n)}
  BY <1>1, <1>5 DEF References
<1> QED BY <1>1, <1>2, <1>3, <1>4, <1>6, SoundGraph, NewRecord

\* add_node: a reply to a message of the tree.
LEMMA GrownGraph ==
    ASSUME NEW g, IsGraph(g), NEW r, Sound(g, r), NEW n \in Nodes, n \notin DOMAIN g,
           NEW x \in Refs, x \in References(g)
    PROVE  LET h == [m \in DOMAIN g \cup {n} |-> IF m = n THEN NewNode(x) ELSE g[m]] IN
             /\ IsGraph(h) /\ Sound(h, r) /\ DOMAIN h = DOMAIN g \cup {n}
             /\ h[n].state = "pending" /\ \A m \in DOMAIN g : h[m] = g[m]
             /\ References(h) = References(g) \cup {Prompt(n), Status(n)}
<1> DEFINE h == [m \in DOMAIN g \cup {n} |-> IF m = n THEN NewNode(x) ELSE g[m]]
<1>1. DOMAIN h = DOMAIN g \cup {n} /\ h[n] = NewNode(x) /\ \A m \in DOMAIN g : h[m] = g[m]
  OBVIOUS
<1>2. h = [m \in DOMAIN h |-> h[m]]
  OBVIOUS
<1> HIDE DEF h
<1>3. NewNode(x) \in NodeRecord /\ NewNode(x).status /\ NewNode(x).ref = x
      /\ NewNode(x).state = "pending"
  BY NewRecord
<1>4. \A m \in DOMAIN h : h[m] \in NodeRecord
  BY <1>1, <1>3 DEF IsGraph
<1>5. IsGraph(h)
  BY <1>1, <1>2, <1>4 DEF IsGraph
<1>6. Formed(g, r) /\ Clean(g)
  BY SoundGraph
<1>7. Resolves(g, x) /\ x[1] \in DOMAIN g /\ x # NoRef
  BY ReferenceOf, RefFacts DEF Resolves
<1>8. Connected(h, r)
  <2> SUFFICES ASSUME NEW S \in SUBSET DOMAIN h, r \in S, Closed(h, S)
               PROVE  DOMAIN h \subseteq S
    BY DEF Connected
  <2>1. Closed(g, S \cap DOMAIN g)
    BY <1>1 DEF Closed
  <2>2. r \in DOMAIN g
    BY <1>6 DEF Formed
  <2>3. DOMAIN g \subseteq S
    BY <1>6, <2>1, <2>2 DEF Formed, Connected
  <2>4. n \in S
    BY <1>1, <1>3, <1>7, <2>3 DEF Closed
  <2> QED BY <1>1, <2>3, <2>4
<1>9. \A y : Resolves(g, y) => Resolves(h, y)
  BY <1>1 DEF Resolves
<1>10. Formed(h, r)
  <2>1. r \in DOMAIN h /\ h[r].ref = NoRef
    BY <1>1, <1>6 DEF Formed
  <2>2. ASSUME NEW m \in DOMAIN h, m # r PROVE h[m].ref # NoRef /\ Resolves(h, h[m].ref)
    BY <1>1, <1>3, <1>6, <1>7, <1>9, <2>2 DEF Formed
  <2> QED BY <1>8, <2>1, <2>2 DEF Formed
<1>11. Clean(h)
  BY <1>1, <1>3, <1>6 DEF Clean
<1>12. References(h) = References(g) \cup {Prompt(n), Status(n)}
  BY <1>1, <1>3 DEF References
<1> QED BY <1>1, <1>3, <1>5, <1>10, <1>11, <1>12, SoundGraph DEF h

-----------------------------------------------------------------------------
(* Removing what literally replies to a message. *)

LEMMA RepliesAreRefs ==
    ASSUME NEW g, IsGraph(g), NEW x \in Refs
    PROVE  RepliesTo(g, x) \subseteq Refs
BY RefFacts, NodeRefs DEF RepliesTo, IsGraph

LEMMA SubtreeIsClosed ==
    ASSUME NEW g, IsGraph(g), NEW r \in Refs, Resolves(g, r)
    PROVE  /\ ReplySubtree(g, r) \subseteq Refs /\ r \in ReplySubtree(g, r)
           /\ \A x \in ReplySubtree(g, r) : RepliesTo(g, x) \subseteq ReplySubtree(g, r)
<1> DEFINE T == ReplySubtree(g, r)
<1>1. T = {x \in Refs : \A S \in SUBSET Refs :
            (r \in S /\ \A y \in S : RepliesTo(g, y) \subseteq S) => x \in S}
  BY DEF ReplySubtree
<1>2. T \subseteq Refs /\ r \in T
  BY <1>1
<1>3. ASSUME NEW x \in T, NEW y \in RepliesTo(g, x) PROVE y \in T
  <2>1. x \in Refs /\ y \in Refs
    BY <1>2, <1>3, RepliesAreRefs
  <2>2. ASSUME NEW S \in SUBSET Refs, r \in S, \A z \in S : RepliesTo(g, z) \subseteq S
        PROVE  y \in S
    <3>1. x \in S
      BY <1>1, <1>3, <2>2
    <3> QED BY <1>3, <2>2, <3>1
  <2> QED BY <1>1, <2>1, <2>2
<1> QED BY <1>2, <1>3

\* A status message is removed with its prompt, or because it is the one to remove.
LEMMA SubtreeIsLeast ==
    ASSUME NEW g, IsGraph(g), NEW r \in Refs, Resolves(g, r), NEW m \in Nodes,
           Status(m) \in ReplySubtree(g, r), Status(m) # r
    PROVE  Prompt(m) \in ReplySubtree(g, r)
<1> DEFINE T == ReplySubtree(g, r)
           S == T \ {Status(m)}
<1>1. SUFFICES ASSUME Prompt(m) \notin T PROVE FALSE
  OBVIOUS
<1>2. S \in SUBSET Refs /\ r \in S
  BY SubtreeIsClosed
<1>3. ASSUME NEW y \in S, NEW z \in RepliesTo(g, y) PROVE z \in S
  <2>1. z \in T
    BY <1>3, SubtreeIsClosed
  <2>2. z # Status(m)
    <3>1. y \in Refs /\ y # Prompt(m)
      BY <1>1, <1>2, <1>3
    <3>2. CASE z \in {Prompt(k) : k \in {j \in DOMAIN g : g[j].ref = y}}
      BY <3>2, NodeRefs DEF IsGraph
    <3>3. CASE z = Status(y[1]) /\ y[2] = "prompt"
      BY <3>1, <3>3, RefFacts, NodeRefs
    <3> QED BY <1>3, <3>2, <3>3 DEF RepliesTo
  <2> QED BY <2>1, <2>2
<1>4. T = {x \in Refs : \A Q \in SUBSET Refs :
            (r \in Q /\ \A y \in Q : RepliesTo(g, y) \subseteq Q) => x \in Q}
  BY DEF ReplySubtree
<1>5. Status(m) \in S
  BY <1>2, <1>3, <1>4
<1> QED BY <1>5

\* What _clear_reply takes and what it leaves.
Owner(r) == {n \in {r[1]} : r[2] = "status"}
Removed(g, r) == {n \in DOMAIN g : Prompt(n) \in ReplySubtree(g, r)}
Affected(g, r) == Removed(g, r) \cup Owner(r)
Cleared(g, r) ==
    LET marked == MarkError(g, Affected(g, r)) IN
      RemoveNodes(IF Owner(r) = {} THEN marked ELSE ClearStatus(marked, r[1]), Removed(g, r))

LEMMA ClearedGraph ==
    ASSUME NEW g, IsGraph(g), NEW r \in Refs, Resolves(g, r)
    PROVE  /\ IsGraph(Cleared(g, r)) /\ DOMAIN Cleared(g, r) = DOMAIN g \ Removed(g, r)
           /\ Clean(g) => Clean(Cleared(g, r))
           /\ Affected(g, r) \subseteq DOMAIN g
           /\ \A n \in DOMAIN g \ Removed(g, r) :
                /\ Cleared(g, r)[n].ref = g[n].ref
                /\ Cleared(g, r)[n].status <=> g[n].status /\ n \notin Owner(r)
                /\ n \in Owner(r) => Cleared(g, r)[n].state = "error" /\ ~Cleared(g, r)[n].session
                /\ n \notin Owner(r) => Cleared(g, r)[n] = g[n]
<1> DEFINE A == Affected(g, r)
           D == DOMAIN g \ Removed(g, r)
           k == MarkError(g, A)
           h == Cleared(g, r)
<1>1. IsGraph(k) /\ DOMAIN k = DOMAIN g /\ (Clean(g) => Clean(k))
  BY MarkedGraph DEF Alike
<1>2. r[1] \in DOMAIN g
  BY DEF Resolves
<1>3. A \subseteq DOMAIN g
  BY <1>2 DEF Affected, Removed, Owner
<1>4. ASSUME NEW n \in D, n \notin Owner(r) PROVE k[n] = g[n]
  BY <1>4 DEF MarkError, Affected
<1>5. /\ DOMAIN h = D /\ h = [n \in D |-> h[n]]
      /\ \A n \in D : h[n] = IF n \in Owner(r)
                               THEN [k[n] EXCEPT !.state = "error", !.status = FALSE, !.session = FALSE]
                               ELSE k[n]
  <2>1. CASE Owner(r) = {}
    <3>1. h = RemoveNodes(k, Removed(g, r))
      BY <2>1 DEF Cleared
    <3> QED BY <1>1, <2>1, <3>1 DEF RemoveNodes
  <2>2. CASE Owner(r) # {}
    <3>1. h = RemoveNodes(ClearStatus(k, r[1]), Removed(g, r)) /\ Owner(r) = {r[1]}
      BY <2>2 DEF Cleared, Owner
    <3>2. /\ DOMAIN ClearStatus(k, r[1]) = DOMAIN g
          /\ \A n \in DOMAIN g : ClearStatus(k, r[1])[n] =
                IF n = r[1] THEN [k[n] EXCEPT !.state = "error", !.status = FALSE, !.session = FALSE]
                ELSE k[n]
      BY <1>1 DEF ClearStatus, IsGraph
    <3> QED BY <3>1, <3>2 DEF RemoveNodes
  <2> QED BY <2>1, <2>2
<1> HIDE DEF h, k
<1>6. ASSUME NEW n \in D
      PROVE  /\ h[n] \in NodeRecord /\ h[n].ref = g[n].ref
             /\ n \in Owner(r) => h[n].state = "error" /\ ~h[n].session /\ ~h[n].status
             /\ n \notin Owner(r) => h[n] = g[n]
  <2>1. k[n] \in NodeRecord /\ k[n].ref = g[n].ref
    BY <1>1, MarkedGraph DEF IsGraph, Alike, k
  <2>2. CASE n \in Owner(r)
    BY <1>5, <2>1, <2>2 DEF NodeRecord, States
  <2>3. CASE n \notin Owner(r)
    BY <1>4, <1>5, <2>1, <2>3
  <2> QED BY <2>2, <2>3
<1>7. IsGraph(h)
  BY <1>5, <1>6 DEF IsGraph
<1>8. Clean(g) => Clean(h)
  BY <1>5, <1>6 DEF Clean
<1> QED BY <1>3, <1>5, <1>6, <1>7, <1>8 DEF h

\* The rest of a tree is a tree again; without its root nothing is left of it.
LEMMA ClearedIsSound ==
    ASSUME NEW g, IsGraph(g), NEW q, Sound(g, q), NEW r \in Refs, Resolves(g, r)
    PROVE  /\ q \in Removed(g, r) => DOMAIN Cleared(g, r) = {}
           /\ q \notin Removed(g, r) => Sound(Cleared(g, r), q)
           /\ \A x \in Refs : x \in References(Cleared(g, r))
                                <=> x \in References(g) /\ x \notin ReplySubtree(g, r)
<1> DEFINE h == Cleared(g, r)
           T == ReplySubtree(g, r)
           R == Removed(g, r)
<1>1. /\ DOMAIN h = DOMAIN g \ R /\ Clean(h)
      /\ \A n \in DOMAIN g \ R : h[n].ref = g[n].ref
      /\ \A n \in DOMAIN g \ R : h[n].status <=> g[n].status /\ n \notin Owner(r)
  BY ClearedGraph, SoundGraph
<1>2. Formed(g, q) /\ R \subseteq DOMAIN g /\ DOMAIN g \subseteq Nodes
  BY SoundGraph DEF Removed, IsGraph
<1> HIDE DEF h
<1>3. T \subseteq Refs /\ r \in T /\ \A x \in T : RepliesTo(g, x) \subseteq T
  BY SubtreeIsClosed
\* whatever replies to something removed is removed
<1>4. ASSUME NEW n \in DOMAIN g, g[n].ref # NoRef, g[n].ref \in T \/ g[n].ref[1] \in R,
             Resolves(g, g[n].ref)
      PROVE  n \in R
  <2>1. g[n].ref \in Refs
    BY <1>4 DEF IsGraph, NodeRecord
  <2>2. g[n].ref \in T
    <3>1. CASE g[n].ref[1] \in R
      <4>1. Prompt(g[n].ref[1]) \in T /\ g[n].ref[1] \in Nodes
        BY <1>2, <3>1 DEF Removed
      <4>2. CASE g[n].ref = Status(g[n].ref[1])
        <5>1. g[n].ref \in RepliesTo(g, Prompt(g[n].ref[1]))
          BY <1>4, <4>1, <4>2, NodeRefs DEF RepliesTo
        <5> QED BY <1>3, <4>1, <5>1
      <4> QED BY <2>1, <4>1, <4>2, RefFacts
    <3> QED BY <1>4, <3>1
  <2>3. Prompt(n) \in RepliesTo(g, g[n].ref)
    BY DEF RepliesTo
  <2> QED BY <1>3, <2>2, <2>3 DEF Removed
<1>5. q \in R => R = DOMAIN g
  <2>1. ASSUME NEW n \in DOMAIN g, g[n].ref # NoRef, g[n].ref[1] \in R PROVE n \in R
    <3>1. n # q
      BY <1>2, <2>1 DEF Formed
    <3> QED BY <1>2, <1>4, <2>1, <3>1 DEF Formed
  <2>2. Closed(g, R)
    BY <2>1 DEF Closed
  <2> QED BY <1>2, <2>2 DEF Formed, Connected
<1>6. ASSUME q \notin R PROVE Sound(h, q)
  <2>1. q \in DOMAIN h /\ h[q].ref = NoRef
    BY <1>1, <1>2, <1>6 DEF Formed
  <2>2. ASSUME NEW n \in DOMAIN h, n # q PROVE h[n].ref # NoRef /\ Resolves(h, h[n].ref)
    <3>1. n \in DOMAIN g /\ n \notin R /\ h[n].ref = g[n].ref /\ g[n].ref # NoRef
          /\ Resolves(g, g[n].ref)
      BY <1>1, <1>2, <2>2 DEF Formed
    <3>2. g[n].ref \in Refs /\ g[n].ref \notin T /\ g[n].ref[1] \notin R
      BY <1>4, <3>1 DEF IsGraph, NodeRecord
    <3>3. g[n].ref[1] \in DOMAIN h
      BY <1>1, <3>1, <3>2 DEF Resolves
    <3>4. g[n].ref[2] = "status" => h[g[n].ref[1]].status
      <4>1. SUFFICES ASSUME g[n].ref[2] = "status" PROVE g[n].ref[1] \notin Owner(r)
        BY <1>1, <3>1, <3>3 DEF Resolves
      <4>2. g[n].ref = Status(g[n].ref[1])
        BY <3>2, <4>1, RefFacts
      <4>3. g[n].ref[1] \in Owner(r) => r = g[n].ref
        BY <4>2, RefFacts DEF Owner
      <4> QED BY <1>3, <3>2, <4>3
    <3> QED BY <3>1, <3>3, <3>4 DEF Resolves
  <2>3. Connected(h, q)
    <3> SUFFICES ASSUME NEW S \in SUBSET DOMAIN h, q \in S, Closed(h, S)
                 PROVE  DOMAIN h \subseteq S
      BY DEF Connected
    <3>1. ASSUME NEW n \in DOMAIN g, g[n].ref # NoRef, g[n].ref[1] \in S \cup R PROVE n \in S \cup R
      <4>1. CASE n \in R
        BY <4>1
      <4>2. CASE n \notin R
        <5>1. n # q
          BY <1>2, <3>1 DEF Formed
        <5>2. g[n].ref[1] \in S
          BY <1>2, <1>4, <3>1, <4>2, <5>1 DEF Formed
        <5> QED BY <1>1, <3>1, <4>2, <5>2 DEF Closed
      <4> QED BY <4>1, <4>2
    <3>2. Closed(g, S \cup R)
      BY <3>1 DEF Closed
    <3>3. S \cup R \in SUBSET DOMAIN g
      BY <1>1, <1>2
    <3>4. DOMAIN g \subseteq S \cup R
      BY <1>2, <3>2, <3>3 DEF Formed, Connected
    <3> QED BY <1>1, <3>4
  <2> QED BY <1>1, <2>1, <2>2, <2>3, SoundGraph DEF Formed
<1>7. ASSUME NEW x \in Refs PROVE x \in References(h) <=> x \in References(g) /\ x \notin T
  <2>1. x[1] \in Nodes /\ (x[1] \in R => x[1] \in DOMAIN g)
    BY <1>2, RefFacts
  <2>2. CASE x = Prompt(x[1])
    <3>1. x \in References(h) <=> x[1] \in DOMAIN h
      BY <2>2, ReferenceOf, RefFacts DEF Resolves
    <3>2. x \in References(g) <=> x[1] \in DOMAIN g
      BY <2>2, ReferenceOf, RefFacts DEF Resolves
    <3>3. x[1] \in DOMAIN g => (x[1] \in R <=> x \in T)
      BY <2>2 DEF Removed
    <3> QED BY <1>1, <3>1, <3>2, <3>3
  <2>3. CASE x = Status(x[1])
    <3>1. x \in References(h) <=> x[1] \in DOMAIN h /\ h[x[1]].status
      BY <2>3, ReferenceOf, RefFacts DEF Resolves
    <3>2. x \in References(g) <=> x[1] \in DOMAIN g /\ g[x[1]].status
      BY <2>3, ReferenceOf, RefFacts DEF Resolves
    <3>3. x[1] \in Owner(r) <=> r = x
      BY <2>3, RefFacts DEF Owner
    <3>4. x[1] \in R /\ x \in References(g) => x \in T
      <4>1. SUFFICES ASSUME x[1] \in R, x \in References(g) PROVE x \in RepliesTo(g, Prompt(x[1]))
        BY <1>3 DEF Removed
      <4>2. Resolves(g, x)
        BY <4>1, ReferenceOf
      <4> QED BY <2>1, <2>3, <4>2, NodeRefs DEF RepliesTo
    <3>5. x \in T /\ x # r => Prompt(x[1]) \in T
      BY <2>1, <2>3, SubtreeIsLeast
    <3>6. x[1] \in DOMAIN g => (x[1] \in R <=> Prompt(x[1]) \in T)
      BY DEF Removed
    <3> QED BY <1>1, <1>3, <3>1, <3>2, <3>3, <3>4, <3>5, <3>6
  <2> QED BY <2>2, <2>3, RefFacts
<1> QED BY <1>1, <1>5, <1>6, <1>7 DEF h

-----------------------------------------------------------------------------
(* What a step that leaves something alone leaves true. *)

LEMMA PublishedTrees ==
    ASSUME TreesInv, NEW t \in Published
    PROVE  /\ t \in TreeObjects /\ t # NoTree
           /\ \E r \in Nodes : trees[r] = t /\ Sound(graph[t], r)
BY DEF TreesInv, Shape, Published, GraphsAreSound

LEMMA AllClean ==
    ASSUME TreesInv, NEW t \in TreeObjects
    PROVE  Clean(graph[t])
<1>1. CASE t \in Published
  BY <1>1, PublishedTrees DEF Sound
<1>2. CASE t \notin Published
  BY <1>2 DEF TreesInv, GraphsAreSound, Clean
<1> QED BY <1>1, <1>2

\* Memory keeps its shape when only states and sessions change.
LEMMA SamePlaces ==
    ASSUME TreesInv, UNCHANGED repoVars,
           \A t \in TreeObjects : Alike(graph[t], graph'[t]) /\ Clean(graph'[t]),
           \A t \in TreeObjects : t \notin Published => queue'[t] = {}
    PROVE  /\ Published' = Published
           /\ GraphsAreSound' /\ IndexMatchesGraphs'
           /\ \A r \in Nodes : trees[r] # NoTree =>
                References(graph'[trees[r]]) = References(graph[trees[r]])
<1> USE DEF repoVars
<1>1. Published' = Published
  BY DEF Published
<1>2. ASSUME NEW r \in Nodes, trees[r] # NoTree
      PROVE  /\ trees[r] \in TreeObjects
             /\ Sound(graph'[trees[r]], r)
             /\ References(graph'[trees[r]]) = References(graph[trees[r]])
  <2>1. trees[r] \in TreeObjects /\ Sound(graph[trees[r]], r)
    BY <1>2 DEF TreesInv, Shape, GraphsAreSound
  <2> QED BY <2>1, AlikeIsSound, AlikeReferences
<1>3. ASSUME NEW t \in TreeObjects, t \notin Published PROVE DOMAIN graph'[t] = {}
  BY <1>3 DEF TreesInv, GraphsAreSound, Alike
<1>4. GraphsAreSound'
  BY <1>1, <1>2, <1>3 DEF TreesInv, GraphsAreSound
<1>5. IndexMatchesGraphs'
  BY <1>2 DEF TreesInv, IndexMatchesGraphs
<1> QED BY <1>1, <1>2, <1>4, <1>5

\* The command goes on as far as the store is concerned.
SameCommand ==
    /\ command'.op = command.op /\ command'.phase = command.phase
    /\ command'.targets = command.targets /\ command'.dropped = command.dropped
    /\ command'.snaps = command.snaps

\* Each snapshot is left as it is or becomes that of its tree.
LEMMA SameStore ==
    ASSUME TreesInv, UNCHANGED trees, SameCommand, Shape', IndexMatchesGraphs', GraphsAreSound',
           \A r \in Nodes : trees[r] # NoTree =>
             /\ References(graph'[trees[r]]) = References(graph[trees[r]])
             /\ DOMAIN graph'[trees[r]] = DOMAIN graph[trees[r]],
           \A r \in Nodes : \/ saved'[r] = saved[r]
                            \/ trees[r] # NoTree /\ saved'[r] = graph'[trees[r]]
    PROVE  StoreIsSound' /\ StoreIsRepaired'
<1>1. \A r \in Nodes : DOMAIN saved'[r] # {} => Sound(saved'[r], r)
  BY DEF TreesInv, StoreIsSound, GraphsAreSound
<1>2. ASSUME NEW q \in Nodes, NEW r \in Nodes, q # r, trees[q] # NoTree
      PROVE  DOMAIN graph'[trees[q]] \cap DOMAIN saved'[r] = {}
  <2>1. CASE saved'[r] = saved[r]
    BY <1>2, <2>1 DEF TreesInv, StoreIsSound
  <2>2. CASE trees[r] # NoTree /\ saved'[r] = graph'[trees[r]]
    <3> SUFFICES ASSUME NEW n \in DOMAIN graph'[trees[q]], n \in DOMAIN graph'[trees[r]]
                 PROVE  FALSE
      BY <2>2
    <3>1. n \in Nodes
      BY <1>2 DEF Shape, IsGraph
    <3>2. Prompt(n) \in References(graph'[trees[q]]) /\ Prompt(n) \in References(graph'[trees[r]])
      BY DEF References
    <3> QED BY <1>2, <2>2, <3>1, <3>2, NodeRefs DEF IndexMatchesGraphs
  <2> QED BY <2>1, <2>2
<1>3. ASSUME NEW q \in Nodes, NEW r \in Nodes, q # r
      PROVE  DOMAIN saved'[q] \cap DOMAIN saved'[r] = {}
  <2>1. CASE trees[q] # NoTree /\ saved'[q] = graph'[trees[q]]
    BY <1>2, <1>3, <2>1
  <2>2. CASE trees[r] # NoTree /\ saved'[r] = graph'[trees[r]]
    BY <1>2, <1>3, <2>2
  <2>3. CASE saved'[q] = saved[q] /\ saved'[r] = saved[r]
    BY <1>3, <2>3 DEF TreesInv, StoreIsSound
  <2> QED BY <2>1, <2>2, <2>3
<1>4. StoreIsSound'
  BY <1>1, <1>2, <1>3 DEF StoreIsSound
<1>5. ASSUME NEW r \in Nodes
      PROVE  References(saved'[r]) \subseteq Remembered(r)' \/ WillRewrite(r)'
  <2>1. CASE saved'[r] = saved[r]
    <3>1. References(saved[r]) \subseteq Remembered(r) \/ WillRewrite(r)
      BY DEF TreesInv, StoreIsRepaired
    <3>2. Remembered(r)' = Remembered(r)
      BY DEF Remembered
    <3>3. WillRewrite(r)' <=> WillRewrite(r)
      BY DEF WillRewrite, SameCommand
    <3> QED BY <2>1, <3>1, <3>2, <3>3
  <2>2. CASE trees[r] # NoTree /\ saved'[r] = graph'[trees[r]]
    BY <2>2 DEF Remembered
  <2> QED BY <2>1, <2>2
<1>6. StoreIsRepaired'
  <2>1. command'.phase = "captured" =>
          \A r \in DOMAIN command'.snaps :
            /\ r \in Nodes /\ trees[r] # NoTree
            /\ IsGraph(command'.snaps[r]) /\ Sound(command'.snaps[r], r)
            /\ References(command'.snaps[r]) \subseteq References(graph'[trees[r]])
    BY DEF TreesInv, StoreIsRepaired, SameCommand
  <2>2. /\ command'.op = "idle" => command'.phase = "none"
        /\ command'.op # "idle" => command'.phase \in {"draining", "captured", "failed"}
        /\ command'.targets \subseteq Nodes \X TreeObjects
    BY DEF TreesInv, StoreIsRepaired, SameCommand
  <2> QED BY <1>5, <2>1, <2>2 DEF StoreIsRepaired
<1> QED BY <1>4, <1>6

\* Claims and tasks go on together; trees may be detached, queues shrink.
LEMMA SameClaims ==
    ASSUME TreesInv, UNCHANGED active, TasksGoOn,
           \A r \in Nodes : trees'[r] \in {trees[r], NoTree},
           \A t \in TreeObjects : queue'[t] \subseteq queue[t],
           \A t \in TreeObjects : cancelled'[t] => cancelled[t] \/ active[t] # NoClaim
    PROVE  ClaimsHaveTasks'
<1> USE DEF TasksGoOn
<1>1. ASSUME NEW t \in TreeObjects
      PROVE  /\ active[t] # NoClaim => Live(active[t])' /\ slot'[active[t]].tree = t
             /\ active[t] = NoClaim => queue'[t] = {} /\ ~cancelled'[t]
  <2>1. active[t] \in Claims \cup {NoClaim}
    BY DEF TreesInv, Shape
  <2> QED BY <2>1 DEF TreesInv, ClaimsHaveTasks, Live
<1>2. ASSUME NEW c \in Claims, Live(c)', slot'[c].tree \in Published'
      PROVE  trees'[slot'[c].root] = slot'[c].tree
  <2>1. PICK r \in Nodes : trees'[r] = slot'[c].tree /\ trees'[r] # NoTree
    BY <1>2 DEF Published
  <2>2. trees[r] = slot[c].tree /\ trees[r] # NoTree /\ trees'[r] = trees[r]
    BY <2>1
  <2>3. slot[c].root \in Nodes /\ trees[slot[c].root] = trees[r]
    BY <1>2, <2>2 DEF TreesInv, ClaimsHaveTasks, Live, Published
  <2>4. slot[c].root = r
    BY <2>2, <2>3 DEF TreesInv, GraphsAreSound
  <2> QED BY <2>1, <2>4
<1>3. ASSUME NEW c \in Claims, Live(c)'
      PROVE  /\ slot'[c].tree \in TreeObjects /\ active'[slot'[c].tree] = c
             /\ slot'[c].root \in Nodes /\ slot'[c].node \in Nodes
  BY <1>3 DEF TreesInv, ClaimsHaveTasks, Live
<1> QED BY <1>1, <1>2, <1>3 DEF ClaimsHaveTasks

\* The claims of trees whose graphs lose nothing that a claim is for.
LEMMA SameTurns ==
    ASSUME TreesInv, UNCHANGED active, TasksGoOn,
           \A r \in Nodes : trees'[r] \in {trees[r], NoTree},
           \A t \in Published : active[t] # NoClaim /\ ~cancelled'[t] =>
             /\ ~cancelled[t]
             /\ LET n == slot[active[t]].node IN
                  n \in DOMAIN graph[t] /\ graph[t][n].status /\ graph[t][n].state # "pending" =>
                    n \in DOMAIN graph'[t] /\ graph'[t][n].status /\ graph'[t][n].state # "pending"
    PROVE  TurnsAreThere'
<1> SUFFICES ASSUME NEW t \in Published', active'[t] # NoClaim, ~cancelled'[t]
             PROVE  LET n == slot'[active'[t]].node IN
                      n \in DOMAIN graph'[t] /\ graph'[t][n].status /\ graph'[t][n].state # "pending"
  BY DEF TurnsAreThere
<1>1. t \in Published
  BY DEF Published
<1>2. active[t] \in Claims
  BY <1>1, PublishedTrees DEF TreesInv, Shape
<1> QED BY <1>1, <1>2 DEF TreesInv, TurnsAreThere, TasksGoOn

-----------------------------------------------------------------------------
(* The steps. *)

LEMMA NothingIsThere ==
    /\ IsGraph(NoGraph) /\ DOMAIN NoGraph = {} /\ References(NoGraph) = {}
    /\ \A g : IsGraph(g) /\ DOMAIN g = {} => g = NoGraph
<1>1. DOMAIN NoGraph = {} /\ IsGraph(NoGraph)
  BY DEF NoGraph, IsGraph
<1>2. References(NoGraph) = {}
  BY <1>1 DEF References
<1>3. ASSUME NEW g, IsGraph(g), DOMAIN g = {} PROVE g = NoGraph
  BY <1>3 DEF NoGraph, IsGraph
<1> QED BY <1>1, <1>2, <1>3

LEMMA InitKeepsTrees == Init => TreesInv
<1> SUFFICES ASSUME Init PROVE TreesInv
  OBVIOUS
<1> USE NothingIsThere
<1>1. Published = {} /\ \A c \in Claims : ~Live(c)
  BY DEF Init, Published, Live, Free
<1>2. Shape
  BY DEF Init, Shape, Free, NotWaiting, Slot, Phases, Intake
<1>3. GraphsAreSound /\ IndexMatchesGraphs /\ PendingIsQueued
  BY <1>1 DEF Init, GraphsAreSound, IndexMatchesGraphs, PendingIsQueued
<1>4. ClaimsHaveTasks /\ TurnsAreThere
  BY <1>1 DEF Init, ClaimsHaveTasks, TurnsAreThere
<1>5. StoreIsSound
  BY DEF Init, StoreIsSound
<1>6. StoreIsRepaired
  BY DEF Init, StoreIsRepaired, Idle
<1> QED BY <1>2, <1>3, <1>4, <1>5, <1>6 DEF TreesInv

LEMMA AlikeItself == ASSUME NEW g PROVE Alike(g, g)
BY DEF Alike

LEMMA SlotsStay == ASSUME TreesInv, UNCHANGED slot PROVE TasksGoOn
BY DEF TreesInv, Shape, TasksGoOn

\* A step of a task, or of a message on its way, that changes no tree.
LEMMA OnlyTasks ==
    ASSUME TreesInv, UNCHANGED <<repoVars, treeVars, command, saved>>,
           intake' \in [Nodes -> Intake],
           TasksGoOn
    PROVE  GoesWell
<1>1. UNCHANGED <<trees, reference, graph, queue, active, cancelled, command, saved, repoVars>>
  BY DEF repoVars, treeVars
<1>2. Shape'
  BY <1>1 DEF TreesInv, Shape, TasksGoOn
<1>3. /\ Published' = Published /\ GraphsAreSound' /\ IndexMatchesGraphs'
  BY <1>1 DEF TreesInv, GraphsAreSound, IndexMatchesGraphs, Published
<1>4. PendingIsQueued'
  BY <1>1, <1>3 DEF TreesInv, PendingIsQueued, StateOf
<1>5. ClaimsHaveTasks'
  BY <1>1, SameClaims
<1>6. TurnsAreThere'
  BY <1>1, SameTurns
<1>7. StoreIsSound' /\ StoreIsRepaired'
  BY <1>1 DEF TreesInv, StoreIsSound, StoreIsRepaired, Remembered, WillRewrite
<1>8. SettledStay /\ CancelledStay
  BY <1>1 DEF SettledStay, CancelledStay
<1> QED BY <1>2, <1>3, <1>4, <1>5, <1>6, <1>7, <1>8 DEF GoesWell, TreesInv

LEMMA DeliverStep == ASSUME TreesInv, NEW n \in Nodes, NEW r \in Refs \cup {NoRef}, Deliver(n, r)
                     PROVE  GoesWell
<1>1. UNCHANGED <<repoVars, treeVars, command, saved, slot>>
  BY DEF Deliver
<1>2. intake' \in [Nodes -> Intake]
  BY DEF Deliver, TreesInv, Shape, Intake
<1> QED BY <1>1, <1>2, SlotsStay, OnlyTasks

LEMMA RejectStep == ASSUME TreesInv, NEW n \in Nodes, Reject(n) PROVE GoesWell
<1>1. UNCHANGED <<repoVars, treeVars, command, saved, slot>>
  BY DEF Reject
<1>2. intake' \in [Nodes -> Intake]
  BY DEF Reject, Dequeued, NotWaiting, TreesInv, Shape, Intake
<1> QED BY <1>1, <1>2, SlotsStay, OnlyTasks

LEMMA NextPhase ==
    ASSUME TreesInv, NEW c \in Claims, Live(c), NEW p \in Phases \ {"free"},
           slot' = [slot EXCEPT ![c].phase = p]
    PROVE  TasksGoOn
<1>1. slot \in [Claims -> Slot]
  BY DEF TreesInv, Shape
<1>2. [slot[c] EXCEPT !.phase = p] \in Slot
  BY <1>1 DEF Slot
<1> QED BY <1>1, <1>2 DEF Live, Slot, Phases, TasksGoOn

LEMMA PhaseStep ==
    ASSUME TreesInv, NEW c \in Claims, Live(c), NEW p \in Phases \ {"free"},
           slot' = [slot EXCEPT ![c].phase = p],
           UNCHANGED <<repoVars, treeVars, intake, command, saved>>
    PROVE  GoesWell
<1>1. intake' \in [Nodes -> Intake]
  BY DEF TreesInv, Shape
<1> QED BY <1>1, NextPhase, OnlyTasks

LEMMA TaskSteps ==
    ASSUME TreesInv, NEW c \in Claims,
           BeginRunner(c) \/ CancelledBeforeRunner(c) \/ RunnerReturns(c)
    PROVE  GoesWell
<1>1. Live(c)
  BY DEF BeginRunner, CancelledBeforeRunner, RunnerReturns, Live
<1>2. /\ \E p \in Phases \ {"free"} : slot' = [slot EXCEPT ![c].phase = p]
      /\ UNCHANGED <<repoVars, treeVars, intake, command, saved>>
  BY DEF BeginRunner, CancelledBeforeRunner, RunnerReturns, Phases
<1> QED BY <1>1, <1>2, PhaseStep

\* Where a report goes.
LEMMA ReportFacts ==
    ASSUME TreesInv, NEW c \in Claims, MayReport(c)
    PROVE  /\ slot[c].root \in Nodes /\ slot[c].tree = TreeOf(c) /\ Live(c)
           /\ TreeOf(c) \in Published /\ TreeOf(c) \in TreeObjects /\ TreeOf(c) # NoTree
           /\ active[TreeOf(c)] = c /\ ~cancelled[TreeOf(c)]
           /\ slot[c].node \in DOMAIN graph[TreeOf(c)]
           /\ NodeOf(c) \in NodeRecord /\ NodeOf(c).status /\ NodeOf(c).state # "pending"
           /\ IsGraph(graph[TreeOf(c)]) /\ Clean(graph[TreeOf(c)])
           /\ queue[TreeOf(c)] = {n \in DOMAIN graph[TreeOf(c)] : graph[TreeOf(c)][n].state = "pending"}
<1>1. Live(c) /\ slot[c].root \in Nodes /\ TreeOf(c) # NoTree
  BY DEF MayReport, Live, TreesInv, ClaimsHaveTasks
<1>2. TreeOf(c) \in Published /\ TreeOf(c) \in TreeObjects
  BY <1>1 DEF TreeOf, Published, TreesInv, Shape
<1>3. active[TreeOf(c)] = c /\ ~cancelled[TreeOf(c)] /\ slot[c].node \in DOMAIN graph[TreeOf(c)]
  BY DEF MayReport
<1>4. slot[c].tree = TreeOf(c)
  BY <1>2, <1>3 DEF TreesInv, ClaimsHaveTasks
<1>5. NodeOf(c).status /\ NodeOf(c).state # "pending"
  BY <1>2, <1>3 DEF TreesInv, TurnsAreThere, NodeOf
<1>6. IsGraph(graph[TreeOf(c)]) /\ Clean(graph[TreeOf(c)])
  BY <1>2, AllClean DEF TreesInv, Shape
<1>7. NodeOf(c) \in NodeRecord
  BY <1>3, <1>6 DEF NodeOf, IsGraph
<1>8. queue[TreeOf(c)] = {n \in DOMAIN graph[TreeOf(c)] : graph[TreeOf(c)][n].state = "pending"}
  BY <1>2 DEF TreesInv, PendingIsQueued, StateOf
<1> QED BY <1>1, <1>2, <1>3, <1>4, <1>5, <1>6, <1>7, <1>8

\* The effect of a report: one graph changes its states, and its snapshot is saved.
LEMMA ReportStep ==
    ASSUME TreesInv, NEW c \in Claims, MayReport(c), NEW g, NEW hit, Report(c, g),
           IsGraph(g), Alike(graph[TreeOf(c)], g), Clean(g),
           queue' = [queue EXCEPT ![TreeOf(c)] = @ \ hit],
           \A n \in DOMAIN graph[TreeOf(c)] :
             /\ g[n].state = "pending" <=> graph[TreeOf(c)][n].state = "pending" /\ n \notin hit
             /\ graph[TreeOf(c)][n].state \notin Runnable => g[n].state \notin Runnable,
           UNCHANGED <<repoVars, active, cancelled, intake, command>>,
           TasksGoOn
    PROVE  GoesWell
<1> DEFINE u == TreeOf(c)
<1>1. /\ slot[c].root \in Nodes /\ u \in Published /\ u \in TreeObjects /\ u # NoTree
      /\ ~cancelled[u] /\ IsGraph(graph[u])
      /\ queue[u] = {n \in DOMAIN graph[u] : graph[u][n].state = "pending"}
  BY ReportFacts
<1>2. UNCHANGED <<trees, reference>>
  BY DEF repoVars
<1>3. trees[slot[c].root] = u
  BY DEF TreeOf
<1> HIDE DEF u
<1>4. DOMAIN graph = TreeObjects /\ DOMAIN saved = Nodes /\ queue \in [TreeObjects -> SUBSET Nodes]
  BY DEF TreesInv, Shape
<1>5. /\ DOMAIN graph' = TreeObjects /\ graph'[u] = g
      /\ \A t \in TreeObjects : t # u => graph'[t] = graph[t]
  BY <1>1, <1>4 DEF Report, u
<1>6. /\ DOMAIN saved' = Nodes /\ saved'[slot[c].root] = g
      /\ \A r \in Nodes : r # slot[c].root => saved'[r] = saved[r]
  BY <1>1, <1>4 DEF Report
<1>7. /\ queue' \in [TreeObjects -> SUBSET Nodes] /\ queue'[u] = queue[u] \ hit
      /\ \A t \in TreeObjects : t # u => queue'[t] = queue[t]
  BY <1>1, <1>4 DEF u
<1>8. \A t \in TreeObjects : Alike(graph[t], graph'[t]) /\ Clean(graph'[t])
  BY <1>5, AllClean, AlikeItself DEF u
<1>9. /\ Published' = Published /\ GraphsAreSound' /\ IndexMatchesGraphs'
      /\ \A r \in Nodes : trees[r] # NoTree =>
           References(graph'[trees[r]]) = References(graph[trees[r]])
  <2>1. \A t \in TreeObjects : t \notin Published => queue'[t] = {}
    BY <1>1, <1>7 DEF TreesInv, GraphsAreSound
  <2> QED BY <1>8, <2>1, SamePlaces
<1>10. Shape'
  <2>1. \A t \in TreeObjects : IsGraph(graph'[t])
    BY <1>5 DEF TreesInv, Shape
  <2>2. \A r \in Nodes : IsGraph(saved'[r])
    BY <1>6 DEF TreesInv, Shape
  <2> QED BY <1>2, <1>5, <1>6, <1>7, <2>1, <2>2 DEF TreesInv, Shape, TasksGoOn
<1>11. PendingIsQueued'
  <2> SUFFICES ASSUME NEW t \in Published
               PROVE  queue'[t] = {n \in DOMAIN graph'[t] : graph'[t][n].state = "pending"}
    BY <1>9 DEF PendingIsQueued, StateOf
  <2>1. CASE t = u
    BY <1>1, <1>5, <1>7, <2>1 DEF Alike, u
  <2>2. CASE t # u
    BY <1>5, <1>7, <2>2, PublishedTrees DEF TreesInv, PendingIsQueued, StateOf
  <2> QED BY <2>1, <2>2
<1>12. ClaimsHaveTasks'
  BY <1>2, <1>7, SameClaims
<1>13. TurnsAreThere'
  <2> SUFFICES ASSUME NEW t \in Published, NEW n \in DOMAIN graph[t], graph[t][n].status,
                      graph[t][n].state # "pending"
               PROVE  n \in DOMAIN graph'[t] /\ graph'[t][n].status /\ graph'[t][n].state # "pending"
    BY <1>2, SameTurns
  <2>1. t \in TreeObjects /\ Alike(graph[t], graph'[t])
    BY <1>8, PublishedTrees
  <2>2. CASE t = u
    BY <1>5, <2>1, <2>2 DEF Alike, u
  <2>3. CASE t # u
    BY <1>5, <2>1, <2>3
  <2> QED BY <2>2, <2>3
<1>14. StoreIsSound' /\ StoreIsRepaired'
  <2>1. SameCommand
    BY DEF SameCommand
  <2>2. \A r \in Nodes : trees[r] # NoTree => DOMAIN graph'[trees[r]] = DOMAIN graph[trees[r]]
    BY <1>8 DEF TreesInv, Shape, Alike
  <2>3. \A r \in Nodes : \/ saved'[r] = saved[r]
                         \/ trees[r] # NoTree /\ saved'[r] = graph'[trees[r]]
    BY <1>1, <1>3, <1>5, <1>6
  <2> QED BY <1>2, <1>9, <1>10, <2>1, <2>2, <2>3, SameStore
<1>15. SettledStay
  <2> SUFFICES ASSUME NEW t \in TreeObjects, NEW n \in DOMAIN graph[t], n \in DOMAIN graph'[t],
                      graph[t][n].state \notin Runnable
               PROVE  graph'[t][n].state \notin Runnable
    BY DEF SettledStay
  <2> QED BY <1>5 DEF u
<1>16. CancelledStay
  <2> SUFFICES ASSUME NEW t \in TreeObjects, cancelled[t] PROVE graph'[t] = graph[t]
    BY DEF CancelledStay
  <2> QED BY <1>1, <1>5
<1> QED BY <1>9, <1>10, <1>11, <1>12, <1>13, <1>14, <1>15, <1>16 DEF GoesWell, TreesInv

\* A report that changes the record of its own turn to rec.
LEMMA RecordStep ==
    ASSUME TreesInv, NEW c \in Claims, MayReport(c), NEW rec \in NodeRecord,
           rec.ref = NodeOf(c).ref, rec.status = NodeOf(c).status, rec.state # "pending",
           NodeOf(c).state \notin Runnable => rec.state \notin Runnable,
           Report(c, [graph[TreeOf(c)] EXCEPT ![slot[c].node] = rec]),
           UNCHANGED <<repoVars, queue, ahead, active, cancelled, slot, intake, command>>
    PROVE  GoesWell
<1> DEFINE u == TreeOf(c)
           g == [graph[u] EXCEPT ![slot[c].node] = rec]
           hit == {}
<1>1. /\ u \in TreeObjects /\ slot[c].node \in DOMAIN graph[u] /\ IsGraph(graph[u])
      /\ NodeOf(c).status /\ NodeOf(c).state # "pending" /\ Clean(graph[u])
      /\ graph[u][slot[c].node] = NodeOf(c)
  BY ReportFacts DEF NodeOf
<1>2. /\ IsGraph(g) /\ Alike(graph[u], g) /\ Clean(g)
      /\ \A m \in DOMAIN graph[u] : g[m] = IF m = slot[c].node THEN rec ELSE graph[u][m]
  BY <1>1, ChangedRecord
<1>3. queue' = [queue EXCEPT ![u] = @ \ hit]
  BY DEF TreesInv, Shape
<1>4. \A n : n \notin hit
  OBVIOUS
<1> HIDE DEF g, hit
<1>5. \A n \in DOMAIN graph[u] :
        /\ g[n].state = "pending" <=> graph[u][n].state = "pending" /\ n \notin hit
        /\ graph[u][n].state \notin Runnable => g[n].state \notin Runnable
  BY <1>1, <1>2, <1>4
<1>6. Report(c, g)
  BY DEF g
<1> QED BY <1>2, <1>3, <1>5, <1>6, SlotsStay, ReportStep

LEMMA RecordSessionStep == ASSUME TreesInv, NEW c \in Claims, RecordSession(c) PROVE GoesWell
<1> DEFINE rec == [NodeOf(c) EXCEPT !.session = TRUE]
<1>1. MayReport(c) /\ UNCHANGED <<repoVars, queue, ahead, active, cancelled, slot, intake, command>>
  BY DEF RecordSession
<1>2. NodeOf(c) \in NodeRecord /\ NodeOf(c).state # "pending"
  BY <1>1, ReportFacts
<1>3. /\ rec \in NodeRecord /\ rec.ref = NodeOf(c).ref /\ rec.status = NodeOf(c).status
      /\ rec.state = NodeOf(c).state
  BY <1>2 DEF NodeRecord
<1>4. Report(c, [graph[TreeOf(c)] EXCEPT ![slot[c].node] = rec])
  BY DEF RecordSession, NodeOf
<1> HIDE DEF rec
<1> QED BY <1>1, <1>2, <1>3, <1>4, RecordStep

LEMMA CompleteClaimStep == ASSUME TreesInv, NEW c \in Claims, CompleteClaim(c) PROVE GoesWell
<1>1. MayReport(c) /\ UNCHANGED <<repoVars, queue, ahead, active, cancelled, slot, intake, command>>
  BY DEF CompleteClaim
<1>2. NodeOf(c) \in NodeRecord
  BY <1>1, ReportFacts
<1>3. PICK s \in {NodeOf(c).session, Sessions} :
         Report(c, [graph[TreeOf(c)] EXCEPT ![slot[c].node] =
                      [@ EXCEPT !.state = "completed", !.session = s]])
  BY DEF CompleteClaim
<1>4. s \in BOOLEAN
  BY <1>2 DEF NodeRecord
<1> DEFINE rec == [NodeOf(c) EXCEPT !.state = "completed", !.session = s]
<1>5. /\ rec \in NodeRecord /\ rec.ref = NodeOf(c).ref /\ rec.status = NodeOf(c).status
      /\ rec.state = "completed" /\ "completed" \notin Runnable
  BY <1>2, <1>4 DEF NodeRecord, States, Runnable
<1>6. Report(c, [graph[TreeOf(c)] EXCEPT ![slot[c].node] = rec])
  BY <1>3 DEF NodeOf
<1> HIDE DEF rec
<1> QED BY <1>1, <1>5, <1>6, RecordStep

\* fail_claim marks the turn, and with propagate what waits for it.
LEMMA FailEffectStep ==
    ASSUME TreesInv, NEW c \in Claims, MayReport(c), NEW p \in BOOLEAN, FailEffect(c, p),
           UNCHANGED <<repoVars, active, cancelled, intake, command>>,
           TasksGoOn
    PROVE  GoesWell
<1> DEFINE u == TreeOf(c)
           n == slot[c].node
           hit == IF ~p \/ NodeOf(c).state = "completed" THEN {}
                  ELSE {m \in Descendants(graph[u], n) \ {n} : graph[u][m].state = "pending"}
           g == IF NodeOf(c).state = "completed" THEN graph[u] ELSE MarkError(graph[u], {n} \cup hit)
<1>1. /\ IsGraph(graph[u]) /\ Clean(graph[u]) /\ n \in DOMAIN graph[u]
      /\ graph[u][n] = NodeOf(c) /\ NodeOf(c).state # "pending"
  BY ReportFacts DEF NodeOf
<1>2. Report(c, g) /\ queue' = [queue EXCEPT ![u] = @ \ hit]
  BY DEF FailEffect, Without
<1>3. NodeOf(c).state = "completed" => hit = {}
  OBVIOUS
<1> HIDE DEF hit
<1>4. /\ IsGraph(g) /\ Alike(graph[u], g) /\ Clean(g)
      /\ \A m \in DOMAIN graph[u] :
           /\ g[m].state = "pending" <=> graph[u][m].state = "pending" /\ m \notin hit
           /\ graph[u][m].state \notin Runnable => g[m].state \notin Runnable
  <2>1. CASE NodeOf(c).state = "completed"
    BY <1>1, <1>3, <2>1, AlikeItself
  <2>2. CASE NodeOf(c).state # "completed"
    BY <1>1, <2>2, MarkedGraph
  <2> QED BY <2>1, <2>2
<1> HIDE DEF g
<1> QED BY <1>2, <1>4, ReportStep

LEMMA FailClaimStep ==
    ASSUME TreesInv, NEW c \in Claims, NEW p \in BOOLEAN, FailClaim(c, p) PROVE GoesWell
BY SlotsStay, FailEffectStep DEF FailClaim

LEMMA RunnerRaisesStep == ASSUME TreesInv, NEW c \in Claims, RunnerRaises(c) PROVE GoesWell
<1>1. Live(c) /\ "finishing" \in Phases \ {"free"} /\ slot' = [slot EXCEPT ![c].phase = "finishing"]
  BY DEF RunnerRaises, Live, Phases
<1>2. CASE MayReport(c)
  BY <1>1, <1>2, NextPhase, FailEffectStep DEF RunnerRaises
<1>3. CASE ~MayReport(c)
  <2>1. UNCHANGED <<repoVars, graph, queue, ahead, active, cancelled, intake, command, saved>>
    BY <1>3 DEF RunnerRaises
  <2> QED BY <1>1, <2>1, PhaseStep DEF treeVars
<1> QED BY <1>2, <1>3

\* _finish_claim with nothing left to claim.
LEMMA LastClaimStep ==
    ASSUME TreesInv, NEW c \in Claims, Live(c), NEW t, t = slot[c].tree,
           Claimable(t) = {},
           active' = [active EXCEPT ![t] = NoClaim],
           cancelled' = [cancelled EXCEPT ![t] = FALSE],
           queue' = [queue EXCEPT ![t] = @ \ queue[t]],
           slot' = [slot EXCEPT ![c] = Free],
           command' = [command EXCEPT !.waiting = @ \ {c}],
           UNCHANGED <<graph, repoVars, intake, saved>>
    PROVE  GoesWell
<1>1. t \in TreeObjects /\ active[t] = c
  BY DEF TreesInv, ClaimsHaveTasks
<1>2. UNCHANGED <<trees, reference, graph, saved, intake>> /\ SameCommand
  BY DEF repoVars, SameCommand
<1>3. /\ queue \in [TreeObjects -> SUBSET Nodes] /\ active \in [TreeObjects -> Claims \cup {NoClaim}]
      /\ cancelled \in [TreeObjects -> BOOLEAN] /\ slot \in [Claims -> Slot]
  BY DEF TreesInv, Shape
<1>4. /\ active'[t] = NoClaim /\ ~cancelled'[t] /\ queue'[t] = {}
      /\ \A u \in TreeObjects : u # t => /\ active'[u] = active[u] /\ cancelled'[u] = cancelled[u]
                                          /\ queue'[u] = queue[u]
  BY <1>1, <1>3
<1>5. ~Live(c)' /\ \A d \in Claims : d # c => slot'[d] = slot[d]
  BY <1>3 DEF Live, Free
<1>6. Free \in Slot
  BY DEF Free, Slot, Phases
<1>7. Shape'
  <2>1. /\ queue' \in [TreeObjects -> SUBSET Nodes]
        /\ active' \in [TreeObjects -> Claims \cup {NoClaim}]
        /\ cancelled' \in [TreeObjects -> BOOLEAN] /\ slot' \in [Claims -> Slot]
    BY <1>1, <1>3, <1>6
  <2> QED BY <1>2, <2>1 DEF TreesInv, Shape
<1>8. Published' = Published /\ GraphsAreSound' /\ IndexMatchesGraphs'
  <2>1. Published' = Published /\ IndexMatchesGraphs'
    BY <1>2 DEF Published, TreesInv, IndexMatchesGraphs
  <2>2. \A u \in TreeObjects : queue'[u] \subseteq queue[u]
    BY <1>4
  <2> QED BY <1>2, <2>1, <2>2 DEF TreesInv, GraphsAreSound
<1>9. PendingIsQueued'
  <2> SUFFICES ASSUME NEW u \in Published
               PROVE  queue'[u] = {n \in DOMAIN graph[u] : graph[u][n].state = "pending"}
    BY <1>2, <1>8 DEF PendingIsQueued, StateOf
  <2>1. u \in TreeObjects /\ queue[u] = {n \in DOMAIN graph[u] : graph[u][n].state = "pending"}
    BY PublishedTrees DEF TreesInv, PendingIsQueued, StateOf
  <2>2. u = t => queue[u] = {}
    BY <2>1 DEF Claimable
  <2> QED BY <1>4, <2>1, <2>2
<1>10. ClaimsHaveTasks'
  <2>1. ASSUME NEW u \in TreeObjects
        PROVE  /\ active'[u] # NoClaim => slot'[active'[u]].phase # "free" /\ slot'[active'[u]].tree = u
               /\ active'[u] = NoClaim => queue'[u] = {} /\ ~cancelled'[u]
    <3>1. CASE u = t
      BY <1>4, <3>1
    <3>2. CASE u # t
      <4>1. active'[u] = active[u] /\ cancelled'[u] = cancelled[u] /\ queue'[u] = queue[u]
        BY <1>4, <3>2
      <4>2. active[u] # NoClaim =>
              active[u] \in Claims /\ Live(active[u]) /\ slot[active[u]].tree = u
        BY <1>3 DEF TreesInv, ClaimsHaveTasks
      <4>3. active[u] = NoClaim => queue[u] = {} /\ ~cancelled[u]
        BY DEF TreesInv, ClaimsHaveTasks
      <4> QED BY <1>5, <3>2, <4>1, <4>2, <4>3 DEF Live
    <3> QED BY <3>1, <3>2
  <2>2. ASSUME NEW d \in Claims, Live(d)'
        PROVE  /\ slot'[d].tree \in TreeObjects /\ active'[slot'[d].tree] = d
               /\ slot'[d].root \in Nodes /\ slot'[d].node \in Nodes
               /\ slot'[d].tree \in Published' => trees'[slot'[d].root] = slot'[d].tree
    <3>1. d # c /\ slot'[d] = slot[d] /\ Live(d)
      BY <1>5, <2>2 DEF Live
    <3>2. /\ slot[d].tree \in TreeObjects /\ active[slot[d].tree] = d
          /\ slot[d].root \in Nodes /\ slot[d].node \in Nodes
          /\ slot[d].tree \in Published => trees[slot[d].root] = slot[d].tree
      BY <3>1 DEF TreesInv, ClaimsHaveTasks
    <3>3. slot[d].tree # t
      BY <1>1, <3>1, <3>2
    <3> QED BY <1>2, <1>4, <1>8, <3>1, <3>2, <3>3
  <2> QED BY <2>1, <2>2 DEF ClaimsHaveTasks, Live
<1>11. TurnsAreThere'
  <2> SUFFICES ASSUME NEW u \in Published, active'[u] # NoClaim, ~cancelled'[u]
               PROVE  LET n == slot'[active'[u]].node IN
                        n \in DOMAIN graph[u] /\ graph[u][n].status /\ graph[u][n].state # "pending"
    BY <1>2, <1>8 DEF TurnsAreThere
  <2>1. u \in TreeObjects /\ u # t
    BY <1>4, PublishedTrees
  <2>2. active'[u] = active[u] /\ cancelled'[u] = cancelled[u] /\ active[u] \in Claims
    BY <1>3, <1>4, <2>1
  <2>3. active[u] # c
    BY <2>1, <2>2 DEF TreesInv, ClaimsHaveTasks
  <2> QED BY <1>5, <2>2, <2>3 DEF TreesInv, TurnsAreThere
<1>12. StoreIsSound' /\ StoreIsRepaired'
  BY <1>2, <1>7, <1>8, SameStore
<1>13. SettledStay /\ CancelledStay
  BY <1>2 DEF SettledStay, CancelledStay
<1> QED BY <1>7, <1>8, <1>9, <1>10, <1>11, <1>12, <1>13 DEF GoesWell, TreesInv

\* A claim is made on node n of the tree t of r.  The task of the claim is c, which was
\* free or the task of the claim before.
MakesClaim(c, t, r, n) ==
    /\ Live(c) => slot[c].tree = t
    /\ active[t] \in {c, NoClaim}
    /\ trees'[r] = t /\ trees[r] \in {t, NoTree}
    /\ \A q \in Nodes : q # r => trees'[q] = trees[q] /\ trees[q] # t
    /\ active' = [active EXCEPT ![t] = c] /\ cancelled' = [cancelled EXCEPT ![t] = FALSE]
    /\ \A u \in TreeObjects : u # t => queue'[u] = queue[u] /\ graph'[u] = graph[u]
    /\ n \in DOMAIN graph'[t] /\ graph'[t][n].status /\ graph'[t][n].state # "pending"
    /\ slot' = [slot EXCEPT ![c] = Launched(t, r, n)]

\* What the claims and the turns are then.
LEMMA ClaimMade ==
    ASSUME TreesInv, NEW c \in Claims, NEW t \in TreeObjects, NEW r \in Nodes, NEW n \in Nodes,
           MakesClaim(c, t, r, n)
    PROVE  /\ ClaimsHaveTasks' /\ TurnsAreThere'
           /\ slot' \in [Claims -> Slot] /\ active' \in [TreeObjects -> Claims \cup {NoClaim}]
           /\ cancelled' \in [TreeObjects -> BOOLEAN]
<1> USE DEF MakesClaim
<1>1. /\ active \in [TreeObjects -> Claims \cup {NoClaim}] /\ slot \in [Claims -> Slot]
      /\ cancelled \in [TreeObjects -> BOOLEAN]
  BY DEF TreesInv, Shape
<1>2. Launched(t, r, n) \in Slot /\ Launched(t, r, n).phase = "launched"
      /\ Launched(t, r, n).tree = t /\ Launched(t, r, n).root = r /\ Launched(t, r, n).node = n
  BY DEF Launched, Slot, Phases
<1>3. /\ active'[t] = c /\ ~cancelled'[t]
      /\ \A u \in TreeObjects : u # t => active'[u] = active[u] /\ cancelled'[u] = cancelled[u]
      /\ slot'[c] = Launched(t, r, n) /\ \A d \in Claims : d # c => slot'[d] = slot[d]
  BY <1>1
<1>4. /\ slot' \in [Claims -> Slot] /\ active' \in [TreeObjects -> Claims \cup {NoClaim}]
      /\ cancelled' \in [TreeObjects -> BOOLEAN]
  BY <1>1, <1>2
<1>5. ASSUME NEW u \in TreeObjects, u # t, active[u] # NoClaim
      PROVE  /\ active'[u] \in Claims /\ active'[u] = active[u] /\ active[u] # c
             /\ slot'[active[u]] = slot[active[u]] /\ Live(active[u]) /\ slot[active[u]].tree = u
  <2>1. active[u] \in Claims /\ Live(active[u]) /\ slot[active[u]].tree = u
    BY <1>1, <1>5 DEF TreesInv, ClaimsHaveTasks
  <2> QED BY <1>3, <1>5, <2>1
<1>6. \A u \in TreeObjects : u # t => (u \in Published' <=> u \in Published)
  BY DEF Published
<1>7. ASSUME NEW u \in TreeObjects
      PROVE  /\ active'[u] # NoClaim => slot'[active'[u]].phase # "free" /\ slot'[active'[u]].tree = u
             /\ active'[u] = NoClaim => queue'[u] = {} /\ ~cancelled'[u]
  <2>1. CASE u = t
    BY <1>2, <1>3, <2>1 DEF Live
  <2>2. CASE u # t
    <3>1. active[u] = NoClaim => queue[u] = {} /\ ~cancelled[u]
      BY DEF TreesInv, ClaimsHaveTasks
    <3> QED BY <1>3, <1>5, <2>2, <3>1 DEF Live
  <2> QED BY <2>1, <2>2
<1>8. ASSUME NEW d \in Claims, Live(d)'
      PROVE  /\ slot'[d].tree \in TreeObjects /\ active'[slot'[d].tree] = d
             /\ slot'[d].root \in Nodes /\ slot'[d].node \in Nodes
             /\ slot'[d].tree \in Published' => trees'[slot'[d].root] = slot'[d].tree
  <2>1. CASE d = c
    BY <1>2, <1>3, <2>1
  <2>2. CASE d # c
    <3>1. slot'[d] = slot[d] /\ Live(d)
      BY <1>3, <1>8, <2>2 DEF Live
    <3>2. /\ slot[d].tree \in TreeObjects /\ active[slot[d].tree] = d
          /\ slot[d].root \in Nodes /\ slot[d].node \in Nodes
          /\ slot[d].tree \in Published => trees[slot[d].root] = slot[d].tree
      BY <3>1 DEF TreesInv, ClaimsHaveTasks
    <3>3. slot[d].tree # t /\ slot[d].tree # NoTree
      <4>1. d # NoClaim
        OBVIOUS
      <4> QED BY <2>2, <3>2, <4>1
    <3>4. slot[d].root = r => trees[r] # slot[d].tree
      BY <3>3
    <3> QED BY <1>3, <1>6, <3>1, <3>2, <3>3, <3>4
  <2> QED BY <2>1, <2>2
<1>9. ClaimsHaveTasks'
  BY <1>7, <1>8 DEF ClaimsHaveTasks, Live
<1>10. TurnsAreThere'
  <2> SUFFICES ASSUME NEW u \in Published', active'[u] # NoClaim, ~cancelled'[u]
               PROVE  LET m == slot'[active'[u]].node IN
                        m \in DOMAIN graph'[u] /\ graph'[u][m].status /\ graph'[u][m].state # "pending"
    BY DEF TurnsAreThere
  <2>1. CASE u = t
    BY <1>2, <1>3, <2>1
  <2>2. CASE u # t
    <3>1. u \in Published /\ u \in TreeObjects
      <4>1. PICK q \in Nodes : trees'[q] = u /\ u # NoTree
        BY DEF Published
      <4> QED BY <2>2, <4>1 DEF Published, TreesInv, Shape
    <3>2. active[u] # NoClaim /\ ~cancelled[u]
      BY <1>3, <2>2, <3>1
    <3>3. LET m == slot[active[u]].node IN
            m \in DOMAIN graph[u] /\ graph[u][m].status /\ graph[u][m].state # "pending"
      BY <3>1, <3>2 DEF TreesInv, TurnsAreThere
    <3> QED BY <1>5, <2>2, <3>1, <3>2, <3>3
  <2> QED BY <2>1, <2>2
<1> QED BY <1>4, <1>9, <1>10

\* _finish_claim with a successor: a tree that has queued nodes is published, and none of
\* them is before the one that is claimed.
LEMMA NextClaimStep ==
    ASSUME TreesInv, NEW c \in Claims, Live(c), NEW t, t = slot[c].tree,
           NEW r, r = slot[c].root, NEW n \in Claimable(t),
           Before(t, n) \cap Claimable(t) = {},
           Claim(t, graph[t], n, c), Without(t, Before(t, n) \cup {n}),
           slot' = [slot EXCEPT ![c] = IF trees[r] = t THEN Launched(t, r, n) ELSE Free],
           command' = [command EXCEPT !.waiting = @ \ {c}],
           UNCHANGED <<repoVars, intake, saved>>
    PROVE  GoesWell
<1>1. t \in TreeObjects /\ active[t] = c /\ r \in Nodes
  BY DEF TreesInv, ClaimsHaveTasks
<1>2. UNCHANGED <<trees, reference, saved, intake>> /\ SameCommand
  BY DEF repoVars, SameCommand
<1>3. /\ queue \in [TreeObjects -> SUBSET Nodes] /\ DOMAIN graph = TreeObjects
      /\ \A u \in TreeObjects : IsGraph(graph[u])
  BY DEF TreesInv, Shape
<1>4. t \in Published /\ trees[r] = t
  BY <1>1 DEF TreesInv, GraphsAreSound, ClaimsHaveTasks, Claimable
<1>5. queue[t] = Claimable(t) /\ queue[t] = {m \in DOMAIN graph[t] : graph[t][m].state = "pending"}
  BY <1>4 DEF TreesInv, PendingIsQueued, StateOf, Claimable
<1>6. Before(t, n) = {} /\ n \in DOMAIN graph[t] /\ graph[t][n].state = "pending" /\ n \in Nodes
  BY <1>1, <1>3, <1>5 DEF Before, IsGraph
<1> DEFINE h == [graph[t] EXCEPT ![n] = Reopen(@, "in_progress")]
<1>7. /\ IsGraph(h) /\ Alike(graph[t], h) /\ Clean(h)
      /\ \A m \in DOMAIN graph[t] : m # n => h[m] = graph[t][m]
      /\ h[n].state = "in_progress" /\ h[n].status
  BY <1>1, <1>3, <1>6, AllClean, ClaimedGraph
<1>8. graph' = [graph EXCEPT ![t] = h]
  BY DEF Claim
<1> HIDE DEF h
<1>9. /\ DOMAIN graph' = TreeObjects /\ graph'[t] = h
      /\ \A u \in TreeObjects : u # t => graph'[u] = graph[u]
      /\ \A u \in TreeObjects : IsGraph(graph'[u]) /\ Alike(graph[u], graph'[u]) /\ Clean(graph'[u])
  BY <1>1, <1>3, <1>7, <1>8, AllClean, AlikeItself
<1>10. /\ queue' \in [TreeObjects -> SUBSET Nodes] /\ queue'[t] = queue[t] \ {n}
       /\ \A u \in TreeObjects : u # t => queue'[u] = queue[u]
  BY <1>1, <1>3, <1>6 DEF Without
<1>11. /\ Published' = Published /\ GraphsAreSound' /\ IndexMatchesGraphs'
       /\ \A q \in Nodes : trees[q] # NoTree =>
            References(graph'[trees[q]]) = References(graph[trees[q]])
  <2>1. \A u \in TreeObjects : u \notin Published => queue'[u] = {}
    BY <1>4, <1>10 DEF TreesInv, GraphsAreSound
  <2> QED BY <1>9, <2>1, SamePlaces
<1>12. /\ ClaimsHaveTasks' /\ TurnsAreThere'
       /\ slot' \in [Claims -> Slot] /\ active' \in [TreeObjects -> Claims \cup {NoClaim}]
       /\ cancelled' \in [TreeObjects -> BOOLEAN]
  <2>1. slot' = [slot EXCEPT ![c] = Launched(t, r, n)]
    BY <1>4
  <2>2. /\ active' = [active EXCEPT ![t] = c] /\ cancelled' = [cancelled EXCEPT ![t] = FALSE]
        /\ active[t] \in {c, NoClaim}
    BY <1>1 DEF Claim
  <2>3. /\ trees'[r] = t /\ trees[r] \in {t, NoTree}
        /\ \A q \in Nodes : q # r => trees'[q] = trees[q] /\ trees[q] # t
    BY <1>1, <1>2, <1>4, PublishedTrees DEF TreesInv, GraphsAreSound
  <2>4. n \in DOMAIN graph'[t] /\ graph'[t][n].status /\ graph'[t][n].state # "pending"
    BY <1>6, <1>7, <1>9 DEF Alike
  <2>5. \A u \in TreeObjects : u # t => queue'[u] = queue[u] /\ graph'[u] = graph[u]
    BY <1>9, <1>10
  <2>6. Live(c) => slot[c].tree = t
    OBVIOUS
  <2>7. MakesClaim(c, t, r, n)
    BY <2>1, <2>2, <2>3, <2>4, <2>5, <2>6 DEF MakesClaim
  <2> QED BY <1>1, <1>6, <2>7, ClaimMade
<1>13. Shape'
  BY <1>2, <1>9, <1>10, <1>12 DEF TreesInv, Shape
<1>14. PendingIsQueued'
  <2> SUFFICES ASSUME NEW u \in Published
               PROVE  queue'[u] = {m \in DOMAIN graph'[u] : graph'[u][m].state = "pending"}
    BY <1>11 DEF PendingIsQueued, StateOf
  <2>1. CASE u = t
    BY <1>5, <1>7, <1>9, <1>10, <2>1 DEF Alike
  <2>2. CASE u # t
    BY <1>9, <1>10, <2>2, PublishedTrees DEF TreesInv, PendingIsQueued, StateOf
  <2> QED BY <2>1, <2>2
<1>15. StoreIsSound' /\ StoreIsRepaired'
  <2>1. \A q \in Nodes : trees[q] # NoTree => DOMAIN graph'[trees[q]] = DOMAIN graph[trees[q]]
    BY <1>9 DEF TreesInv, Shape, Alike
  <2> QED BY <1>2, <1>11, <1>13, <2>1, SameStore
<1>16. SettledStay
  BY <1>6, <1>7, <1>9 DEF SettledStay, Runnable
<1>17. CancelledStay
  <2>1. cancelled'[t] = FALSE
    BY <1>1 DEF Claim, TreesInv, Shape
  <2> QED BY <1>9, <2>1 DEF CancelledStay
<1> QED BY <1>11, <1>12, <1>13, <1>14, <1>15, <1>16, <1>17 DEF GoesWell, TreesInv

LEMMA FinishClaimStep == ASSUME TreesInv, NEW c \in Claims, FinishClaim(c) PROVE GoesWell
<1> DEFINE t == slot[c].tree
           r == slot[c].root
<1>1. Live(c) /\ UNCHANGED <<repoVars, intake, saved>>
      /\ command' = [command EXCEPT !.waiting = @ \ {c}]
  BY DEF FinishClaim, Live
<1>2. CASE /\ Claimable(t) = {} /\ Without(t, queue[t]) /\ UNCHANGED graph
           /\ active' = [active EXCEPT ![t] = NoClaim]
           /\ cancelled' = [cancelled EXCEPT ![t] = FALSE]
           /\ slot' = [slot EXCEPT ![c] = Free]
  <2>1. queue' = [queue EXCEPT ![t] = @ \ queue[t]]
    BY <1>2 DEF Without
  <2> HIDE DEF t
  <2>2. t = slot[c].tree
    BY DEF t
  <2> QED BY <1>1, <1>2, <2>1, <2>2, LastClaimStep
<1>3. ASSUME NEW n \in Claimable(t),
             /\ Before(t, n) \cap Claimable(t) = {}
             /\ Claim(t, graph[t], n, c) /\ Without(t, Before(t, n) \cup {n})
             /\ slot' = [slot EXCEPT ![c] = IF trees[r] = t THEN Launched(t, r, n) ELSE Free]
      PROVE  GoesWell
  <2> HIDE DEF t, r
  <2>1. t = slot[c].tree /\ r = slot[c].root
    BY DEF t, r
  <2> QED BY <1>1, <1>3, <2>1, NextClaimStep
<1> QED BY <1>2, <1>3 DEF FinishClaim

\* An admission: node n joins the tree t of r, whose graph becomes g but for the claim.
Admits(t, r, g, n) ==
    /\ trees' = [trees EXCEPT ![r] = t] /\ trees[r] \in {t, NoTree}
    /\ \A q \in Nodes : q # r => trees[q] # t
    /\ active[t] # NoClaim => trees[r] = t
    /\ IsGraph(g) /\ Sound(g, r) /\ n \notin DOMAIN graph[t] /\ DOMAIN g = DOMAIN graph[t] \cup {n}
    /\ g[n].state = "pending" /\ \A m \in DOMAIN graph[t] : g[m] = graph[t][m]
    /\ References(g) = References(graph[t]) \cup {Prompt(n), Status(n)}
    /\ EnqueueOrClaim(t, r, g, n)
    /\ reference[Prompt(n)] = NoNode /\ Register(n, r) /\ Dequeued(n)
    /\ command.op = "idle" /\ UNCHANGED command

\* With no command under way the store holds nothing that memory does not hold.
LEMMA NothingToRewrite ==
    ASSUME TreesInv, command.op = "idle", NEW r \in Nodes
    PROVE  References(saved[r]) \subseteq Remembered(r)
BY DEF TreesInv, StoreIsRepaired, WillRewrite

\* What an admission makes of the graph.
Admitted(g, h, n) ==
    /\ IsGraph(h) /\ Alike(g, h) /\ Clean(h) /\ \A m \in DOMAIN g : m # n => h[m] = g[m]

LEMMA AdmitClaims ==
    ASSUME TreesInv, NEW t \in TreeObjects, NEW r \in Nodes, NEW n \in Nodes, NEW g,
           Admits(t, r, g, n)
    PROVE  /\ ClaimsHaveTasks' /\ TurnsAreThere'
           /\ slot' \in [Claims -> Slot] /\ active' \in [TreeObjects -> Claims \cup {NoClaim}]
           /\ cancelled' \in [TreeObjects -> BOOLEAN]
           /\ queue' \in [TreeObjects -> SUBSET Nodes]
           /\ DOMAIN graph' = TreeObjects /\ Admitted(g, graph'[t], n)
           /\ \A u \in TreeObjects : u # t => queue'[u] = queue[u] /\ graph'[u] = graph[u]
           /\ saved' = [saved EXCEPT ![r] = graph'[t]]
           /\ \A m \in Nodes : m \in queue'[t] <=>
                m \in queue[t] \/ (m = n /\ graph'[t][n].state = "pending")
           /\ cancelled[t] /\ cancelled'[t] => graph'[t] = g
<1>1. /\ DOMAIN graph = TreeObjects /\ queue \in [TreeObjects -> SUBSET Nodes]
      /\ trees \in [Nodes -> TreeObjects \cup {NoTree}]
      /\ slot \in [Claims -> Slot] /\ active \in [TreeObjects -> Claims \cup {NoClaim}]
      /\ cancelled \in [TreeObjects -> BOOLEAN]
  BY DEF TreesInv, Shape
<1>2. /\ trees' = [trees EXCEPT ![r] = t] /\ trees[r] \in {t, NoTree}
      /\ \A q \in Nodes : q # r => trees[q] # t
      /\ IsGraph(g) /\ Clean(g) /\ DOMAIN g = DOMAIN graph[t] \cup {n} /\ n \notin DOMAIN graph[t]
      /\ g[n].state = "pending" /\ \A m \in DOMAIN graph[t] : g[m] = graph[t][m]
  BY DEF Admits, Sound
<1>3. CASE /\ active[t] = NoClaim
           /\ \E c \in Claims : /\ slot[c] = Free /\ Claim(t, g, n, c)
                                /\ slot' = [slot EXCEPT ![c] = Launched(t, r, n)]
           /\ saved' = [saved EXCEPT ![r] = graph'[t]]
           /\ UNCHANGED <<queue, ahead>>
  <2>1. PICK c \in Claims : /\ slot[c] = Free /\ Claim(t, g, n, c)
                            /\ slot' = [slot EXCEPT ![c] = Launched(t, r, n)]
    BY <1>3
  <2> DEFINE h == [g EXCEPT ![n] = Reopen(@, "in_progress")]
  <2>2. /\ IsGraph(h) /\ Alike(g, h) /\ Clean(h) /\ \A m \in DOMAIN g : m # n => h[m] = g[m]
        /\ h[n].state = "in_progress" /\ h[n].status
    BY <1>2, ClaimedGraph
  <2>3. graph' = [graph EXCEPT ![t] = h]
    BY <2>1 DEF Claim
  <2> HIDE DEF h
  <2>4. /\ DOMAIN graph' = TreeObjects /\ graph'[t] = h
        /\ \A u \in TreeObjects : u # t => graph'[u] = graph[u]
    BY <1>1, <2>3
  <2>5. MakesClaim(c, t, r, n)
    <3>1. ~Live(c) /\ active' = [active EXCEPT ![t] = c] /\ cancelled' = [cancelled EXCEPT ![t] = FALSE]
      BY <2>1 DEF Live, Free, Claim
    <3>2. n \in DOMAIN graph'[t] /\ graph'[t][n].status /\ graph'[t][n].state # "pending"
      BY <1>2, <2>2, <2>4 DEF Alike
    <3>3. trees'[r] = t /\ \A q \in Nodes : q # r => trees'[q] = trees[q] /\ trees[q] # t
      BY <1>1, <1>2
    <3> QED BY <1>2, <1>3, <2>1, <2>4, <3>1, <3>2, <3>3 DEF MakesClaim
  <2>6. Admitted(g, graph'[t], n)
    BY <2>2, <2>4 DEF Admitted
  <2>7. cancelled'[t] = FALSE
    BY <1>1, <2>1 DEF Claim
  <2>8. queue' = queue /\ graph'[t][n].state # "pending"
    BY <1>3, <2>2, <2>4
  <2> QED BY <1>1, <1>3, <2>4, <2>5, <2>6, <2>7, <2>8, ClaimMade
<1>4. CASE /\ active[t] # NoClaim /\ n \notin queue[t]
           /\ graph' = [graph EXCEPT ![t] = g]
           /\ queue' = [queue EXCEPT ![t] = @ \cup {n}]
           /\ saved' = [saved EXCEPT ![r] = g]
           /\ UNCHANGED <<active, cancelled, slot>>
  <2>1. /\ DOMAIN graph' = TreeObjects /\ graph'[t] = g
        /\ \A u \in TreeObjects : u # t => graph'[u] = graph[u]
    BY <1>1, <1>4
  <2>2. /\ queue' \in [TreeObjects -> SUBSET Nodes] /\ queue'[t] = queue[t] \cup {n}
        /\ \A u \in TreeObjects : u # t => queue'[u] = queue[u]
    BY <1>1, <1>4
  <2>3. UNCHANGED <<trees, active, cancelled, slot>>
    <3>1. trees[r] = t
      BY <1>4 DEF Admits
    <3> QED BY <1>1, <1>2, <1>4, <3>1
  <2>4. ClaimsHaveTasks'
    <3>1. \A u \in TreeObjects :
            /\ active[u] # NoClaim => Live(active[u]) /\ slot[active[u]].tree = u
            /\ active[u] = NoClaim => queue[u] = {} /\ ~cancelled[u]
      BY DEF TreesInv, ClaimsHaveTasks
    <3>2. \A u \in TreeObjects : active[u] = NoClaim => queue'[u] = queue[u]
      BY <1>4, <2>2
    <3> QED BY <2>3, <3>1, <3>2 DEF TreesInv, ClaimsHaveTasks, Live, Published
  <2>5. TurnsAreThere'
    <3> SUFFICES ASSUME NEW u \in Published, active[u] # NoClaim, ~cancelled[u]
                 PROVE  LET m == slot[active[u]].node IN
                          m \in DOMAIN graph'[u] /\ graph'[u][m].status /\ graph'[u][m].state # "pending"
      BY <2>3 DEF TurnsAreThere, Published
    <3>1. LET m == slot[active[u]].node IN
            m \in DOMAIN graph[u] /\ graph[u][m].status /\ graph[u][m].state # "pending"
      BY DEF TreesInv, TurnsAreThere
    <3>2. CASE u = t
      BY <1>2, <2>1, <3>1, <3>2
    <3>3. CASE u # t
      BY <2>1, <3>1, <3>3, PublishedTrees
    <3> QED BY <3>2, <3>3
  <2>6. Admitted(g, graph'[t], n)
    BY <1>2, <2>1, AlikeItself DEF Admitted
  <2>7. graph'[t][n].state = "pending" /\ saved' = [saved EXCEPT ![r] = graph'[t]]
    BY <1>2, <1>4, <2>1
  <2> QED BY <1>1, <2>1, <2>2, <2>3, <2>4, <2>5, <2>6, <2>7
<1> QED BY <1>3, <1>4 DEF Admits, EnqueueOrClaim

\* An admission keeps all of it: the message was in no tree and in no snapshot.
LEMMA AdmitStep ==
    ASSUME TreesInv, NEW t \in TreeObjects, NEW r \in Nodes, NEW n \in Nodes, NEW g,
           Admits(t, r, g, n)
    PROVE  GoesWell
<1> DEFINE h == graph'[t]
<1>1. /\ ClaimsHaveTasks' /\ TurnsAreThere'
      /\ slot' \in [Claims -> Slot] /\ active' \in [TreeObjects -> Claims \cup {NoClaim}]
      /\ cancelled' \in [TreeObjects -> BOOLEAN]
      /\ queue' \in [TreeObjects -> SUBSET Nodes]
      /\ DOMAIN graph' = TreeObjects /\ Admitted(g, h, n)
      /\ \A u \in TreeObjects : u # t => queue'[u] = queue[u] /\ graph'[u] = graph[u]
      /\ saved' = [saved EXCEPT ![r] = h]
      /\ \A m \in Nodes : m \in queue'[t] <=>
           m \in queue[t] \/ (m = n /\ h[n].state = "pending")
      /\ cancelled[t] /\ cancelled'[t] => h = g
  BY AdmitClaims
<1>2. /\ trees' = [trees EXCEPT ![r] = t] /\ trees[r] \in {t, NoTree}
      /\ \A q \in Nodes : q # r => trees[q] # t
      /\ Sound(g, r) /\ n \notin DOMAIN graph[t] /\ DOMAIN g = DOMAIN graph[t] \cup {n}
      /\ \A m \in DOMAIN graph[t] : g[m] = graph[t][m]
      /\ References(g) = References(graph[t]) \cup {Prompt(n), Status(n)}
      /\ reference[Prompt(n)] = NoNode /\ command.op = "idle" /\ command' = command
      /\ reference' = [reference EXCEPT ![Prompt(n)] = r, ![Status(n)] = r]
      /\ intake' = [intake EXCEPT ![n] = NotWaiting]
  BY DEF Admits, Register, Dequeued
<1> HIDE DEF h
<1>3. /\ trees \in [Nodes -> TreeObjects \cup {NoTree}] /\ DOMAIN graph = TreeObjects
      /\ reference \in [Refs -> Nodes \cup {NoNode}] /\ DOMAIN saved = Nodes
      /\ queue \in [TreeObjects -> SUBSET Nodes]
      /\ \A u \in TreeObjects : IsGraph(graph[u])
  BY DEF TreesInv, Shape
<1>4. /\ trees'[r] = t /\ \A q \in Nodes : q # r => trees'[q] = trees[q]
      /\ trees' \in [Nodes -> TreeObjects \cup {NoTree}]
  BY <1>2, <1>3
<1>5. /\ reference' \in [Refs -> Nodes \cup {NoNode}]
      /\ \A x \in Refs : reference'[x] = IF x \in {Prompt(n), Status(n)} THEN r ELSE reference[x]
  BY <1>2, <1>3, NodeRefs
<1>6. /\ saved'[r] = h /\ \A q \in Nodes : q # r => saved'[q] = saved[q]
      /\ DOMAIN saved' = Nodes
  BY <1>1, <1>3
<1>7. /\ Sound(h, r) /\ References(h) = References(g) /\ DOMAIN h = DOMAIN g /\ IsGraph(h)
      /\ \A m \in DOMAIN g : m # n => h[m] = g[m]
  BY <1>1, <1>2, AlikeIsSound, AlikeReferences DEF Admitted, Alike
<1>8. /\ \A u \in TreeObjects : u # t => (u \in Published' <=> u \in Published)
      /\ t \in Published' /\ t # NoTree
      /\ trees[r] = NoTree => t \notin Published
  BY <1>2, <1>3, <1>4 DEF Published
<1>9. Shape'
  <2>1. intake' \in [Nodes -> Intake]
    BY <1>2 DEF NotWaiting, TreesInv, Shape, Intake
  <2>2. \A u \in TreeObjects : IsGraph(graph'[u])
    BY <1>1, <1>3, <1>7 DEF h
  <2>3. \A q \in Nodes : IsGraph(saved'[q])
    BY <1>6, <1>7 DEF TreesInv, Shape
  <2> QED BY <1>1, <1>4, <1>5, <1>6, <2>1, <2>2, <2>3 DEF Shape
<1>10. GraphsAreSound'
  <2>1. \A q, p \in Nodes : trees'[q] = trees'[p] /\ trees'[q] # NoTree => q = p
    BY <1>2, <1>4 DEF TreesInv, GraphsAreSound
  <2>2. ASSUME NEW q \in Nodes, trees'[q] # NoTree PROVE Sound(graph'[trees'[q]], q)
    <3>1. CASE q = r
      BY <1>4, <1>7, <3>1 DEF h
    <3>2. CASE q # r
      BY <1>1, <1>2, <1>3, <1>4, <2>2, <3>2 DEF TreesInv, GraphsAreSound
    <3> QED BY <3>1, <3>2
  <2>3. ASSUME NEW u \in TreeObjects, u \notin Published'
        PROVE  DOMAIN graph'[u] = {} /\ queue'[u] = {}
    BY <1>1, <1>8, <2>3 DEF TreesInv, GraphsAreSound
  <2> QED BY <2>1, <2>2, <2>3 DEF GraphsAreSound
\* the new references were nobody's
<1>11. \A q \in Nodes : reference[Prompt(n)] # q /\ reference[Status(n)] # q
  <2> SUFFICES ASSUME NEW q \in Nodes, reference[Status(n)] = q PROVE FALSE
    BY <1>2
  <2>1. Status(n) \in References(graph[trees[q]]) /\ trees[q] # NoTree
    BY NodeRefs DEF TreesInv, IndexMatchesGraphs
  <2>2. Prompt(n) \in References(graph[trees[q]])
    BY <2>1, NodeRefs, ReferenceOf DEF Resolves
  <2>3. reference[Prompt(n)] = q
    BY <2>1, <2>2, NodeRefs DEF TreesInv, IndexMatchesGraphs
  <2> QED BY <1>2, <2>3
<1>12. trees[r] = NoTree => References(graph[t]) = {} /\ DOMAIN graph[t] = {}
  <2>1. trees[r] = NoTree => DOMAIN graph[t] = {}
    BY <1>8 DEF TreesInv, GraphsAreSound
  <2> QED BY <2>1 DEF References
<1>13. IndexMatchesGraphs'
  <2> SUFFICES ASSUME NEW x \in Refs, NEW q \in Nodes
               PROVE  reference'[x] = q <=> trees'[q] # NoTree /\ x \in References(graph'[trees'[q]])
    BY DEF IndexMatchesGraphs
  <2>1. reference[x] = q <=> trees[q] # NoTree /\ x \in References(graph[trees[q]])
    BY DEF TreesInv, IndexMatchesGraphs
  <2>2. CASE q = r
    <3>1. trees'[q] # NoTree /\ graph'[trees'[q]] = h
      BY <1>4, <1>8, <2>2 DEF h
    <3>2. References(h) = References(graph[t]) \cup {Prompt(n), Status(n)}
      BY <1>2, <1>7
    <3>3. reference[x] = q <=> x \in References(graph[t])
      BY <1>2, <1>8, <1>12, <2>1, <2>2
    <3> QED BY <1>5, <2>2, <3>1, <3>2, <3>3
  <2>3. CASE q # r
    <3>1. reference'[x] = q <=> reference[x] = q
      BY <1>5, <1>11, <2>3
    <3>2. trees'[q] = trees[q] /\ (trees[q] # NoTree => graph'[trees[q]] = graph[trees[q]])
      BY <1>1, <1>2, <1>3, <1>4, <2>3
    <3> QED BY <2>1, <3>1, <3>2
  <2> QED BY <2>2, <2>3
<1>14. PendingIsQueued'
  <2> SUFFICES ASSUME NEW u \in Published'
               PROVE  queue'[u] = {m \in DOMAIN graph'[u] : graph'[u][m].state = "pending"}
    BY DEF PendingIsQueued, StateOf
  <2>1. CASE u = t
    <3>1. queue[t] = {m \in DOMAIN graph[t] : graph[t][m].state = "pending"}
      <4>1. CASE trees[r] = t
        BY <1>8, <4>1 DEF TreesInv, PendingIsQueued, StateOf, Published
      <4>2. CASE trees[r] = NoTree
        BY <1>8, <1>12, <4>2 DEF TreesInv, GraphsAreSound
      <4> QED BY <1>2, <4>1, <4>2
    <3>2. DOMAIN h \subseteq Nodes /\ queue'[t] \subseteq Nodes
      BY <1>1, <1>7 DEF IsGraph
    <3>3. \A m \in Nodes : m \in queue'[t] <=> m \in DOMAIN h /\ h[m].state = "pending"
      BY <1>1, <1>2, <1>7, <3>1
    <3> QED BY <2>1, <3>2, <3>3 DEF h
  <2>2. CASE u # t
    <3>1. u \in TreeObjects
      BY <1>4, <1>8 DEF Published
    <3> QED BY <1>1, <1>8, <2>2, <3>1 DEF TreesInv, PendingIsQueued, StateOf
  <2> QED BY <2>1, <2>2
<1>15. ASSUME NEW q \in Nodes, q # r PROVE DOMAIN h \cap DOMAIN saved[q] = {}
  <2>1. n \notin DOMAIN saved[q]
    <3> SUFFICES ASSUME n \in DOMAIN saved[q] PROVE FALSE
      OBVIOUS
    <3>1. Prompt(n) \in References(saved[q])
      BY DEF References
    <3>2. Prompt(n) \in Remembered(q)
      BY <1>2, <3>1, NothingToRewrite
    <3>3. reference[Prompt(n)] = q
      BY <3>2, NodeRefs DEF Remembered, TreesInv, IndexMatchesGraphs
    <3> QED BY <1>2, <3>3
  <2>2. DOMAIN graph[t] \cap DOMAIN saved[q] = {}
    BY <1>2, <1>8, <1>12, <1>15 DEF TreesInv, StoreIsSound
  <2> QED BY <1>2, <1>7, <2>1, <2>2
<1>16. ASSUME NEW q \in Nodes, q # r, trees[q] # NoTree
       PROVE  DOMAIN graph[trees[q]] \cap DOMAIN h = {}
  <2> SUFFICES ASSUME NEW m \in DOMAIN graph[trees[q]], m \in DOMAIN h PROVE FALSE
    OBVIOUS
  <2>1. m \in Nodes
    BY <1>7 DEF IsGraph
  <2>2. Prompt(m) \in References(graph[trees[q]]) /\ Prompt(m) \in References(h)
    BY DEF References
  <2>3. trees'[q] = trees[q] /\ graph'[trees[q]] = graph[trees[q]] /\ graph'[trees'[r]] = h
    BY <1>1, <1>2, <1>3, <1>4, <1>16 DEF h
  <2>4. reference'[Prompt(m)] = q /\ reference'[Prompt(m)] = r
    BY <1>4, <1>8, <1>13, <1>16, <2>1, <2>2, <2>3, NodeRefs DEF IndexMatchesGraphs
  <2> QED BY <1>16, <2>4
<1>17. StoreIsSound'
  <2>1. ASSUME NEW q \in Nodes, DOMAIN saved'[q] # {} PROVE Sound(saved'[q], q)
    BY <1>6, <1>7, <2>1 DEF TreesInv, StoreIsSound
  <2>2. ASSUME NEW q \in Nodes, NEW p \in Nodes, q # p
        PROVE  DOMAIN saved'[q] \cap DOMAIN saved'[p] = {}
    BY <1>6, <1>15, <2>2 DEF TreesInv, StoreIsSound
  <2>3. ASSUME NEW q \in Nodes, NEW p \in Nodes, q # p, trees'[q] # NoTree
        PROVE  DOMAIN graph'[trees'[q]] \cap DOMAIN saved'[p] = {}
    <3>1. CASE q = r
      BY <1>4, <1>6, <1>15, <2>3, <3>1 DEF h
    <3>2. CASE q # r
      <4>1. trees[q] # NoTree /\ graph'[trees'[q]] = graph[trees[q]]
        BY <1>1, <1>2, <1>3, <1>4, <2>3, <3>2
      <4> QED BY <1>6, <1>16, <2>3, <3>2, <4>1 DEF TreesInv, StoreIsSound
    <3> QED BY <3>1, <3>2
  <2> QED BY <2>1, <2>2, <2>3 DEF StoreIsSound
<1>18. StoreIsRepaired'
  <2>1. ASSUME NEW q \in Nodes PROVE References(saved'[q]) \subseteq Remembered(q)'
    <3>1. CASE q = r
      BY <1>4, <1>6, <1>8, <3>1 DEF Remembered, h
    <3>2. CASE q # r
      <4>1. Remembered(q)' = Remembered(q)
        BY <1>1, <1>2, <1>3, <1>4, <3>2 DEF Remembered
      <4> QED BY <1>2, <1>6, <3>2, <4>1, NothingToRewrite
    <3> QED BY <3>1, <3>2
  <2>2. command'.op = "idle" /\ command'.phase = "none" /\ command'.targets \subseteq Nodes \X TreeObjects
    BY <1>2 DEF TreesInv, StoreIsRepaired
  <2> QED BY <2>1, <2>2 DEF StoreIsRepaired
<1>19. SettledStay
  BY <1>1, <1>2, <1>7 DEF SettledStay, h
<1>20. CancelledStay
  <2> SUFFICES ASSUME NEW u \in TreeObjects, cancelled[u], cancelled'[u], NEW m \in DOMAIN graph[u]
               PROVE  graph'[u][m] = graph[u][m]
    BY DEF CancelledStay
  <2> QED BY <1>1, <1>2 DEF h
<1> QED BY <1>1, <1>9, <1>10, <1>13, <1>14, <1>17, <1>18, <1>19, <1>20 DEF GoesWell, TreesInv

LEMMA AdmitRootStep == ASSUME TreesInv, NEW n \in Nodes, AdmitRoot(n) PROVE GoesWell
<1> DEFINE g == [m \in {n} |-> NewNode(NoRef)]
<1>1. PICK t \in Garbage : EnqueueOrClaim(t, n, g, n) /\ trees' = [trees EXCEPT ![n] = t]
  BY DEF AdmitRoot
<1>2. /\ t \in TreeObjects /\ t \notin Published /\ \A c \in Claims : slot[c].tree # t
  BY DEF Garbage
<1>3. DOMAIN graph[t] = {} /\ References(graph[t]) = {}
  <2>1. DOMAIN graph[t] = {}
    BY <1>2 DEF TreesInv, GraphsAreSound
  <2> QED BY <2>1 DEF References
<1>4. active[t] = NoClaim
  BY <1>2 DEF TreesInv, Shape, ClaimsHaveTasks
<1>5. /\ command.op = "idle" /\ reference[Prompt(n)] = NoNode /\ Register(n, n) /\ Dequeued(n)
      /\ UNCHANGED command
  BY DEF AdmitRoot
<1>6. trees[n] = NoTree
  <2> SUFFICES ASSUME trees[n] # NoTree PROVE FALSE
    OBVIOUS
  <2>1. Sound(graph[trees[n]], n)
    BY DEF TreesInv, GraphsAreSound
  <2>2. Prompt(n) \in References(graph[trees[n]])
    BY <2>1 DEF Sound, Restorable, References
  <2> QED BY <1>5, <2>2, NodeRefs DEF TreesInv, IndexMatchesGraphs
<1>7. \A q \in Nodes : q # n => trees[q] # t
  BY <1>2 DEF Published, TreesInv, Shape
<1>8. /\ IsGraph(g) /\ Sound(g, n) /\ DOMAIN g = {n} /\ g[n].state = "pending"
      /\ References(g) = {Prompt(n), Status(n)}
  BY NewGraph
<1> HIDE DEF g
<1>9. Admits(t, n, g, n)
  BY <1>1, <1>2, <1>3, <1>4, <1>5, <1>6, <1>7, <1>8 DEF Admits
<1> QED BY <1>2, <1>9, AdmitStep

LEMMA AdmitReplyStep == ASSUME TreesInv, NEW n \in Nodes, AdmitReply(n) PROVE GoesWell
<1> DEFINE x == intake[n].ref
           r == reference[x]
           t == trees[r]
           g == [m \in DOMAIN graph[t] \cup {n} |-> IF m = n THEN NewNode(x) ELSE graph[t][m]]
<1>1. /\ command.op = "idle" /\ x # NoRef /\ reference[Prompt(n)] = NoNode /\ r # NoNode
      /\ EnqueueOrClaim(t, r, g, n) /\ Register(n, r) /\ Dequeued(n) /\ UNCHANGED <<trees, command>>
  BY DEF AdmitReply
<1>2. x \in Refs /\ r \in Nodes
  BY <1>1 DEF TreesInv, Shape, Intake
<1>3. t # NoTree /\ x \in References(graph[t]) /\ t \in TreeObjects
  BY <1>1, <1>2 DEF TreesInv, Shape, IndexMatchesGraphs
<1>4. IsGraph(graph[t]) /\ Sound(graph[t], r)
  BY <1>2, <1>3 DEF TreesInv, Shape, GraphsAreSound
<1>5. n \notin DOMAIN graph[t]
  <2> SUFFICES ASSUME n \in DOMAIN graph[t] PROVE FALSE
    OBVIOUS
  <2>1. Prompt(n) \in References(graph[t])
    BY DEF References
  <2>2. reference[Prompt(n)] = r
    BY <1>2, <1>3, <2>1, NodeRefs DEF TreesInv, IndexMatchesGraphs
  <2> QED BY <1>1, <2>2
<1>6. trees' = [trees EXCEPT ![r] = t] /\ \A q \in Nodes : q # r => trees[q] # t
  BY <1>1, <1>2, <1>3 DEF TreesInv, Shape, GraphsAreSound
<1>7. t = trees[r]
  OBVIOUS
<1>8. /\ IsGraph(g) /\ Sound(g, r) /\ DOMAIN g = DOMAIN graph[t] \cup {n}
      /\ g[n].state = "pending" /\ \A m \in DOMAIN graph[t] : g[m] = graph[t][m]
      /\ References(g) = References(graph[t]) \cup {Prompt(n), Status(n)}
  <2> HIDE DEF x, r, t
  <2> QED BY <1>2, <1>3, <1>4, <1>5, GrownGraph
<1> HIDE DEF x, r, t, g
<1>9. Admits(t, r, g, n)
  BY <1>1, <1>5, <1>6, <1>7, <1>8 DEF Admits
<1> QED BY <1>2, <1>3, <1>9, AdmitStep

\* A command begins: what it leaves in the store beyond memory it will rewrite.
LEMMA CommandStarts ==
    ASSUME TreesInv, command.op = "idle", UNCHANGED saved,
           command'.op # "idle", command'.phase \in {"draining", "failed"},
           command'.targets \subseteq Nodes \X TreeObjects,
           \A r \in Nodes : trees'[r] \in {trees[r], NoTree},
           \A r \in Nodes : trees'[r] # NoTree => DOMAIN graph'[trees[r]] \subseteq DOMAIN graph[trees[r]],
           \A r \in Nodes : Remembered(r)' = Remembered(r) \/ WillRewrite(r)'
    PROVE  StoreIsSound' /\ StoreIsRepaired'
<1>1. StoreIsSound'
  <2>1. ASSUME NEW q \in Nodes, NEW r \in Nodes, q # r, trees'[q] # NoTree
        PROVE  DOMAIN graph'[trees'[q]] \cap DOMAIN saved[r] = {}
    <3>1. trees'[q] = trees[q] /\ trees[q] # NoTree
      BY <2>1
    <3>2. DOMAIN graph[trees[q]] \cap DOMAIN saved[r] = {}
      BY <2>1, <3>1 DEF TreesInv, StoreIsSound
    <3> QED BY <2>1, <3>1, <3>2
  <2> QED BY <2>1 DEF TreesInv, StoreIsSound
<1>2. ASSUME NEW r \in Nodes PROVE References(saved'[r]) \subseteq Remembered(r)' \/ WillRewrite(r)'
  BY NothingToRewrite
<1> QED BY <1>1, <1>2 DEF StoreIsRepaired

LEMMA CancelTasksKeep ==
    ASSUME TreesInv, NEW C, CancelTasks(C)
    PROVE  TasksGoOn
<1>1. slot \in [Claims -> Slot]
  BY DEF TreesInv, Shape
<1>2. \A c \in Claims : [slot[c] EXCEPT !.cancel = TRUE] \in Slot
  BY <1>1 DEF Slot
<1>3. \A c \in Claims : slot'[c] = IF c \in C THEN [slot[c] EXCEPT !.cancel = TRUE] ELSE slot[c]
  BY DEF CancelTasks
<1>4. slot' \in [Claims -> Slot]
  BY <1>1, <1>2 DEF CancelTasks
<1> QED BY <1>1, <1>3, <1>4 DEF Slot, TasksGoOn

\* Some nodes of tree t are settled and leave its queue.
Settles(t) ==
    \E S \in SUBSET Nodes : graph'[t] = MarkError(graph[t], S) /\ queue'[t] = queue[t] \ S

\* A command of which the trees keep their places.
Marking ==
    /\ command.op = "idle" /\ UNCHANGED <<repoVars, active, saved>>
    /\ DOMAIN graph' = TreeObjects /\ queue' \in [TreeObjects -> SUBSET Nodes]
    /\ \A t \in TreeObjects : Settles(t)
    /\ cancelled' \in [TreeObjects -> BOOLEAN]
    /\ \A t \in TreeObjects : cancelled[t] => cancelled'[t]
    /\ \A t \in TreeObjects : cancelled'[t] => cancelled[t] \/ active[t] # NoClaim
    /\ intake' \in [Nodes -> Intake]
    /\ TasksGoOn
    /\ command'.op # "idle" /\ command'.phase \in {"draining", "failed"}
    /\ command'.targets \subseteq Nodes \X TreeObjects

LEMMA MarkingStep == ASSUME TreesInv, Marking PROVE GoesWell
<1>1. /\ command.op = "idle" /\ UNCHANGED <<trees, reference, active, saved, repoVars>>
      /\ DOMAIN graph' = TreeObjects /\ queue' \in [TreeObjects -> SUBSET Nodes]
      /\ cancelled' \in [TreeObjects -> BOOLEAN]
      /\ \A t \in TreeObjects : cancelled[t] => cancelled'[t]
      /\ \A t \in TreeObjects : cancelled'[t] => cancelled[t] \/ active[t] # NoClaim
      /\ TasksGoOn
  BY DEF Marking, repoVars
<1>2. ASSUME NEW t \in TreeObjects
      PROVE  /\ IsGraph(graph'[t]) /\ Alike(graph[t], graph'[t]) /\ Clean(graph'[t])
             /\ \A n \in DOMAIN graph[t] :
                  /\ graph[t][n].state \notin Runnable => graph'[t][n] = graph[t][n]
                  /\ graph'[t][n].state = "pending" =>
                       graph[t][n].state = "pending" /\ (n \in queue[t] => n \in queue'[t])
                  /\ n \in queue'[t] /\ graph[t][n].state = "pending" => graph'[t][n].state = "pending"
             /\ queue'[t] \subseteq queue[t]
  <2>1. PICK S \in SUBSET Nodes : graph'[t] = MarkError(graph[t], S) /\ queue'[t] = queue[t] \ S
    BY DEF Marking, Settles
  <2>2. IsGraph(graph[t]) /\ Clean(graph[t])
    BY AllClean DEF TreesInv, Shape
  <2> QED BY <2>1, <2>2, MarkedGraph
<1>3. /\ Published' = Published /\ GraphsAreSound' /\ IndexMatchesGraphs'
      /\ \A r \in Nodes : trees[r] # NoTree =>
           References(graph'[trees[r]]) = References(graph[trees[r]])
  <2>1. \A t \in TreeObjects : t \notin Published => queue'[t] = {}
    BY <1>2 DEF TreesInv, GraphsAreSound
  <2> QED BY <1>1, <1>2, <2>1, SamePlaces
<1>4. Shape'
  BY <1>1, <1>2 DEF TreesInv, Shape, Marking, TasksGoOn
<1>5. PendingIsQueued'
  <2> SUFFICES ASSUME NEW t \in Published
               PROVE  queue'[t] = {n \in DOMAIN graph'[t] : graph'[t][n].state = "pending"}
    BY <1>3 DEF PendingIsQueued, StateOf
  <2>1. /\ t \in TreeObjects
        /\ queue[t] = {n \in DOMAIN graph[t] : graph[t][n].state = "pending"}
    BY PublishedTrees DEF TreesInv, PendingIsQueued, StateOf
  <2>2. DOMAIN graph'[t] = DOMAIN graph[t]
    BY <1>2, <2>1 DEF Alike
  <2> QED BY <1>2, <2>1, <2>2
<1>6. ClaimsHaveTasks'
  BY <1>1, <1>2, SameClaims
<1>7. TurnsAreThere'
  <2> SUFFICES ASSUME NEW t \in Published, NEW n \in DOMAIN graph[t], graph[t][n].status,
                      graph[t][n].state # "pending"
               PROVE  n \in DOMAIN graph'[t] /\ graph'[t][n].status /\ graph'[t][n].state # "pending"
    <3>1. \A t \in Published : active[t] # NoClaim /\ ~cancelled'[t] => ~cancelled[t]
      BY <1>1, PublishedTrees
    <3> QED BY <1>1, <3>1, SameTurns
  <2>1. t \in TreeObjects
    BY PublishedTrees
  <2> QED BY <1>2, <2>1 DEF Alike
<1>8. StoreIsSound' /\ StoreIsRepaired'
  <2>1. \A r \in Nodes : trees'[r] # NoTree => DOMAIN graph'[trees[r]] \subseteq DOMAIN graph[trees[r]]
    BY <1>1, <1>2 DEF TreesInv, Shape, Alike
  <2>2. \A r \in Nodes : Remembered(r)' = Remembered(r)
    BY <1>1, <1>3 DEF Remembered
  <2> QED BY <1>1, <2>1, <2>2, CommandStarts DEF Marking
<1>9. SettledStay
  BY <1>2 DEF SettledStay
<1>10. CancelledStay
  BY <1>2 DEF CancelledStay, Runnable
<1> QED BY <1>3, <1>4, <1>5, <1>6, <1>7, <1>8, <1>9, <1>10 DEF GoesWell, TreesInv

LEMMA SettlesNothing ==
    ASSUME TreesInv, NEW t \in TreeObjects, graph'[t] = graph[t], queue'[t] = queue[t]
    PROVE  Settles(t)
<1>1. IsGraph(graph[t])
  BY DEF TreesInv, Shape
<1>2. MarkError(graph[t], {}) = graph[t]
  BY <1>1 DEF MarkError, IsGraph
<1> QED BY <1>2 DEF Settles

\* What a reply command looks up.
LEMMA LookedUp ==
    ASSUME TreesInv, NEW x \in Refs, reference[x] # NoNode
    PROVE  /\ reference[x] \in Nodes /\ trees[reference[x]] \in TreeObjects \cap Published
           /\ trees[reference[x]] # NoTree /\ x \in References(graph[trees[reference[x]]])
           /\ IsGraph(graph[trees[reference[x]]])
           /\ Sound(graph[trees[reference[x]]], reference[x])
<1>1. reference[x] \in Nodes
  BY DEF TreesInv, Shape
<1>2. trees[reference[x]] # NoTree /\ x \in References(graph[trees[reference[x]]])
  BY <1>1 DEF TreesInv, IndexMatchesGraphs
<1>3. trees[reference[x]] \in TreeObjects
  BY <1>1, <1>2 DEF TreesInv, Shape
<1> QED BY <1>1, <1>2, <1>3 DEF TreesInv, Shape, GraphsAreSound, Published

LEMMA FlagKeeps ==
    ASSUME TreesInv, NEW t \in TreeObjects, NEW C, C # {} => active[t] # NoClaim,
           IF C # {} THEN Flag(t) ELSE UNCHANGED cancelled
    PROVE  /\ cancelled' \in [TreeObjects -> BOOLEAN]
           /\ \A u \in TreeObjects : cancelled[u] => cancelled'[u]
           /\ \A u \in TreeObjects : cancelled'[u] => cancelled[u] \/ active[u] # NoClaim
           /\ C # {} => cancelled'[t]
BY DEF TreesInv, Shape, Flag

\* What a command has to do after its transition.
LEMMA Commits ==
    ASSUME NEW op, op # "idle", NEW C, NEW targets, NEW dropped, Commit(op, C, targets, dropped)
    PROVE  /\ CancelTasks(C) /\ command'.op = op /\ command'.op # "idle"
           /\ command'.phase = "draining" /\ command'.phase \in {"draining", "failed"}
           /\ command'.targets = targets /\ command'.dropped = dropped
BY DEF Commit, Idle

LEMMA Fails ==
    ASSUME NEW op, op # "idle", Fail(op)
    PROVE  /\ command'.op = op /\ command'.op # "idle"
           /\ command'.phase = "failed" /\ command'.phase \in {"draining", "failed"}
           /\ command'.targets = {}
BY DEF Fail, Idle

LEMMA StopReplyStep == ASSUME TreesInv, NEW x \in Refs, StopReply(x) PROVE GoesWell
<1> DEFINE r == reference[x]
           t == trees[r]
           n == x[1]
           C == ActiveIn(t, {n})
<1>1. /\ command.op = "idle" /\ r # NoNode
      /\ IF C # {} THEN Flag(t) ELSE UNCHANGED cancelled
      /\ Without(t, {n}) /\ graph' = [graph EXCEPT ![t] = MarkError(@, {n})]
      /\ \/ Fail("stop_reply") /\ UNCHANGED slot
         \/ Commit("stop_reply", C, {<<r, t>>}, {})
      /\ UNCHANGED <<repoVars, active, intake, saved>>
  BY DEF StopReply
<1>2. r \in Nodes /\ t \in TreeObjects /\ n \in Nodes
  BY <1>1, LookedUp, RefFacts
<1>3. C # {} => active[t] # NoClaim
  BY DEF ActiveIn
<1> HIDE DEF r, t, n, C
<1>4. /\ DOMAIN graph = TreeObjects /\ queue \in [TreeObjects -> SUBSET Nodes]
      /\ intake \in [Nodes -> Intake]
  BY DEF TreesInv, Shape
<1>5. /\ DOMAIN graph' = TreeObjects /\ graph'[t] = MarkError(graph[t], {n})
      /\ \A u \in TreeObjects : u # t => graph'[u] = graph[u]
  BY <1>1, <1>2, <1>4
<1>6. /\ queue' \in [TreeObjects -> SUBSET Nodes] /\ queue'[t] = queue[t] \ {n}
      /\ \A u \in TreeObjects : u # t => queue'[u] = queue[u]
  BY <1>1, <1>2, <1>4 DEF Without
<1>7. \A u \in TreeObjects : Settles(u)
  <2>1. Settles(t)
    BY <1>2, <1>5, <1>6 DEF Settles
  <2>2. \A u \in TreeObjects : u # t => Settles(u)
    BY <1>5, <1>6, SettlesNothing
  <2> QED BY <2>1, <2>2
<1>8. /\ cancelled' \in [TreeObjects -> BOOLEAN]
      /\ \A u \in TreeObjects : cancelled[u] => cancelled'[u]
      /\ \A u \in TreeObjects : cancelled'[u] => cancelled[u] \/ active[u] # NoClaim
  BY <1>1, <1>2, <1>3, FlagKeeps
<1>9. /\ TasksGoOn
  BY <1>1, SlotsStay, CancelTasksKeep DEF Commit
<1>10. /\ command'.op # "idle" /\ command'.phase \in {"draining", "failed"}
       /\ command'.targets \subseteq Nodes \X TreeObjects
  BY <1>1, <1>2, Commits, Fails
<1>11. Marking
  BY <1>1, <1>4, <1>5, <1>6, <1>7, <1>8, <1>9, <1>10 DEF Marking
<1> QED BY <1>11, MarkingStep

LEMMA ClearReplyFailsStep == ASSUME TreesInv, NEW x \in Refs, ClearReplyFails(x) PROVE GoesWell
<1> DEFINE t == trees[reference[x]]
           affected == {n \in DOMAIN graph[t] : \/ Prompt(n) \in ReplySubtree(graph[t], x)
                                                \/ n = x[1]}
<1>1. /\ command.op = "idle" /\ reference[x] # NoNode /\ active[t] # NoClaim
      /\ Flag(t) /\ Fail("clear_reply")
      /\ UNCHANGED <<repoVars, active, slot, intake, saved>>
  BY DEF ClearReplyFails, ActiveIn
<1>2. PICK S \in SUBSET affected :
         Without(t, S) /\ graph' = [graph EXCEPT ![t] = MarkError(@, S)]
  BY DEF ClearReplyFails
<1>3. t \in TreeObjects /\ IsGraph(graph[t])
  BY <1>1, LookedUp
<1>4. S \in SUBSET Nodes
  BY <1>3 DEF IsGraph
<1> HIDE DEF t, affected
<1>5. /\ DOMAIN graph = TreeObjects /\ queue \in [TreeObjects -> SUBSET Nodes]
      /\ intake \in [Nodes -> Intake]
  BY DEF TreesInv, Shape
<1>6. /\ DOMAIN graph' = TreeObjects /\ graph'[t] = MarkError(graph[t], S)
      /\ \A u \in TreeObjects : u # t => graph'[u] = graph[u]
  BY <1>2, <1>3, <1>5
<1>7. /\ queue' \in [TreeObjects -> SUBSET Nodes] /\ queue'[t] = queue[t] \ S
      /\ \A u \in TreeObjects : u # t => queue'[u] = queue[u]
  BY <1>2, <1>3, <1>5 DEF Without
<1>8. \A u \in TreeObjects : Settles(u)
  <2>1. Settles(t)
    BY <1>4, <1>6, <1>7 DEF Settles
  <2>2. \A u \in TreeObjects : u # t => Settles(u)
    BY <1>6, <1>7, SettlesNothing
  <2> QED BY <2>1, <2>2
<1>9. /\ cancelled' \in [TreeObjects -> BOOLEAN]
      /\ \A u \in TreeObjects : cancelled[u] => cancelled'[u]
      /\ \A u \in TreeObjects : cancelled'[u] => cancelled[u] \/ active[u] # NoClaim
  BY <1>1, <1>3 DEF Flag, TreesInv, Shape
<1>10. Marking
  BY <1>1, <1>5, <1>6, <1>7, <1>8, <1>9, SlotsStay, Fails DEF Marking
<1> QED BY <1>10, MarkingStep

\* cancel_all on the trees of T, flagging also those of F.
LEMMA CancelTreesKeep ==
    ASSUME TreesInv, NEW T, NEW F, CancelTrees(T, F)
    PROVE  /\ cancelled' \in [TreeObjects -> BOOLEAN]
           /\ \A u \in TreeObjects : cancelled[u] => cancelled'[u]
           /\ \A u \in TreeObjects : cancelled'[u] => cancelled[u] \/ active[u] # NoClaim
           /\ \A u \in TreeObjects : u \in T /\ active[u] # NoClaim => cancelled'[u]
           /\ queue' \in [TreeObjects -> SUBSET Nodes]
           /\ \A u \in TreeObjects : queue'[u] = IF u \in T THEN {} ELSE queue[u]
<1>1. cancelled \in [TreeObjects -> BOOLEAN] /\ queue \in [TreeObjects -> SUBSET Nodes]
  BY DEF TreesInv, Shape
<1>2. \A u \in TreeObjects :
        cancelled'[u] = (cancelled[u] \/ (u \in T \cup F /\ active[u] # NoClaim))
  BY DEF CancelTrees
<1>3. cancelled' \in [TreeObjects -> BOOLEAN]
  BY <1>1 DEF CancelTrees
<1>4. queue' \in [TreeObjects -> SUBSET Nodes]
  BY <1>1 DEF CancelTrees
<1>5. \A u \in TreeObjects : queue'[u] = IF u \in T THEN {} ELSE queue[u]
  BY DEF CancelTrees
<1> QED BY <1>1, <1>2, <1>3, <1>4, <1>5

LEMMA CancelledSettle ==
    ASSUME TreesInv, NEW t \in Published, graph'[t] = Cancelled(t), queue'[t] = {}
    PROVE  Settles(t)
<1>1. IsGraph(graph[t]) /\ queue[t] = {n \in DOMAIN graph[t] : graph[t][n].state = "pending"}
  BY PublishedTrees DEF TreesInv, Shape, PendingIsQueued, StateOf
<1>2. DOMAIN graph[t] \in SUBSET Nodes /\ queue'[t] = queue[t] \ DOMAIN graph[t]
  BY <1>1 DEF IsGraph
<1> QED BY <1>2 DEF Settles, Cancelled

LEMMA ExpiredIntake ==
    ASSUME TreesInv, ExpireTokens
    PROVE  intake' \in [Nodes -> Intake]
<1>1. \A n \in Nodes : [intake[n] EXCEPT !.current = FALSE, !.ref = NoRef]
        \in Intake
  BY DEF TreesInv, Shape, Intake
<1> QED BY <1>1 DEF ExpireTokens

LEMMA StopTreesStep ==
    ASSUME TreesInv, command.op = "idle", ExpireTokens, NEW T \in SUBSET Published, NEW F,
           CancelTrees(T, F),
           graph' = [t \in TreeObjects |-> IF t \in T THEN Cancelled(t) ELSE graph[t]],
           CancelTasks(ActiveOf(T)),
           command'.op # "idle", command'.phase \in {"draining", "failed"},
           command'.targets \subseteq Nodes \X TreeObjects,
           UNCHANGED <<repoVars, active, saved>>
    PROVE  GoesWell
<1>1. ASSUME NEW u \in TreeObjects PROVE Settles(u)
  <2>1. CASE u \in T
    BY <2>1, CancelledSettle, CancelTreesKeep
  <2>2. CASE u \notin T
    BY <2>2, SettlesNothing, CancelTreesKeep
  <2> QED BY <2>1, <2>2
<1>2. DOMAIN graph' = TreeObjects
  OBVIOUS
<1>3. /\ TasksGoOn
  BY CancelTasksKeep
<1>4. Marking
  BY <1>1, <1>2, <1>3, CancelTreesKeep, ExpiredIntake DEF Marking
<1> QED BY <1>4, MarkingStep

LEMMA StopAllStep == ASSUME TreesInv, StopAll PROVE GoesWell
<1> DEFINE targets == {e \in Nodes \X Published : trees[e[1]] = e[2]}
<1>1. /\ command.op = "idle" /\ ExpireTokens /\ CancelTrees(Published, {})
      /\ graph' = [t \in TreeObjects |-> IF t \in Published THEN Cancelled(t) ELSE graph[t]]
      /\ Commit("stop_all", ActiveOf(Published), targets, {})
      /\ UNCHANGED <<repoVars, active, saved>>
  BY DEF StopAll
<1>2. targets \subseteq Nodes \X TreeObjects
  BY PublishedTrees
<1> HIDE DEF targets
<1>3. /\ CancelTasks(ActiveOf(Published)) /\ command'.op # "idle"
      /\ command'.phase \in {"draining", "failed"}
      /\ command'.targets = targets
  BY <1>1, Commits
<1> QED BY <1>1, <1>2, <1>3, StopTreesStep

LEMMA StopAllFailsStep == ASSUME TreesInv, StopAllFails PROVE GoesWell
<1>1. /\ command.op = "idle" /\ ExpireTokens /\ Fail("stop_all")
      /\ UNCHANGED <<repoVars, active, saved>>
  BY DEF StopAllFails
<1>2. PICK f \in Raising, T \in SUBSET (Published \ Raising) :
        /\ CancelTrees(T, {f})
        /\ graph' = [t \in TreeObjects |-> IF t \in T THEN Cancelled(t) ELSE graph[t]]
        /\ CancelTasks(ActiveOf(T))
  BY DEF StopAllFails
<1>3. /\ command'.op # "idle" /\ command'.phase \in {"draining", "failed"}
      /\ command'.targets \subseteq Nodes \X TreeObjects
  BY <1>1, Fails
<1>4. T \in SUBSET Published
  OBVIOUS
<1> QED BY <1>1, <1>2, <1>3, <1>4, StopTreesStep

-----------------------------------------------------------------------------
(* The end of a command touches no tree. *)

LEMMA OnlyTheStore ==
    ASSUME TreesInv, UNCHANGED <<repoVars, treeVars, slot, intake>>,
           DOMAIN saved' = Nodes, \A r \in Nodes : IsGraph(saved'[r]),
           StoreIsSound', StoreIsRepaired'
    PROVE  GoesWell
<1>1. UNCHANGED <<trees, reference, graph, queue, active, cancelled, slot, intake>>
  BY DEF repoVars, treeVars
<1>2. Shape'
  BY <1>1 DEF TreesInv, Shape
<1>3. Published' = Published /\ GraphsAreSound' /\ IndexMatchesGraphs'
  BY <1>1 DEF TreesInv, GraphsAreSound, IndexMatchesGraphs, Published
<1>4. PendingIsQueued'
  BY <1>1, <1>3 DEF TreesInv, PendingIsQueued, StateOf
<1>5. ClaimsHaveTasks' /\ TurnsAreThere'
  BY <1>1, <1>3 DEF TreesInv, ClaimsHaveTasks, TurnsAreThere, Live
<1>6. SettledStay /\ CancelledStay
  BY <1>1 DEF SettledStay, CancelledStay
<1> QED BY <1>2, <1>3, <1>4, <1>5, <1>6 DEF GoesWell, TreesInv

LEMMA CaptureSnapshotsStep == ASSUME TreesInv, CaptureSnapshots PROVE GoesWell
<1> DEFINE kept == {e \in command.targets : trees[e[1]] = e[2]}
           roots == {e[1] : e \in kept}
           snaps == [r \in roots |-> graph[trees[r]]]
<1>1. /\ command.phase = "draining" /\ UNCHANGED <<repoVars, treeVars, slot, intake, saved>>
      /\ command' = [command EXCEPT !.phase = "captured", !.waiting = {}, !.snaps = snaps]
  BY DEF CaptureSnapshots
<1>2. UNCHANGED <<trees, graph, saved>>
  BY <1>1 DEF repoVars, treeVars
<1>3. command.targets \subseteq Nodes \X TreeObjects /\ command.op # "idle"
  BY <1>1 DEF TreesInv, StoreIsRepaired
<1>4. ASSUME NEW r \in roots
      PROVE  /\ r \in Nodes /\ trees[r] # NoTree /\ snaps[r] = graph[trees[r]]
             /\ IsGraph(snaps[r]) /\ Sound(snaps[r], r)
             /\ References(snaps[r]) \subseteq References(graph[trees[r]])
  <2>1. r \in Nodes /\ trees[r] \in TreeObjects
    BY <1>3
  <2>2. trees[r] # NoTree /\ snaps[r] = graph[trees[r]]
    BY <2>1
  <2>3. IsGraph(graph[trees[r]]) /\ Sound(graph[trees[r]], r)
    BY <2>1, <2>2 DEF TreesInv, Shape, GraphsAreSound
  <2> QED BY <2>1, <2>2, <2>3
<1>5. ASSUME NEW r \in Nodes, trees[r] # NoTree, <<r, trees[r]>> \in command.targets
      PROVE  r \in roots
  <2>1. <<r, trees[r]>> \in kept /\ <<r, trees[r]>>[1] = r
    BY <1>5
  <2> QED BY <2>1
<1>6. DOMAIN snaps = roots
  OBVIOUS
<1> HIDE DEF snaps, roots
<1>7. /\ command'.op = command.op /\ command'.phase = "captured"
      /\ command'.targets = command.targets /\ command'.dropped = command.dropped
      /\ command'.snaps = snaps
  BY <1>1, <1>3 DEF TreesInv
<1>8. ASSUME NEW r \in Nodes PROVE References(saved[r]) \subseteq Remembered(r) \/ WillRewrite(r)'
  <2>1. WillRewrite(r) => WillRewrite(r)'
    BY <1>1, <1>5, <1>6, <1>7 DEF WillRewrite
  <2> QED BY <2>1 DEF TreesInv, StoreIsRepaired
<1>9. StoreIsRepaired'
  <2>1. \A r \in Nodes : Remembered(r)' = Remembered(r)
    BY <1>2 DEF Remembered
  <2> QED BY <1>2, <1>3, <1>4, <1>6, <1>7, <1>8, <2>1 DEF StoreIsRepaired
<1>10. StoreIsSound'
  BY <1>2 DEF TreesInv, StoreIsSound
<1>11. DOMAIN saved' = Nodes /\ \A r \in Nodes : IsGraph(saved'[r])
  BY <1>2 DEF TreesInv, Shape
<1> QED BY <1>1, <1>9, <1>10, <1>11, OnlyTheStore

\* A snapshot that holds nothing its tree does not hold is in nobody's way.
LEMMA Disjoint ==
    ASSUME TreesInv, NEW q \in Nodes, NEW r \in Nodes, q # r, trees[q] # NoTree, trees[r] # NoTree
    PROVE  DOMAIN graph[trees[q]] \cap DOMAIN graph[trees[r]] = {}
<1> SUFFICES ASSUME NEW n \in DOMAIN graph[trees[q]], n \in DOMAIN graph[trees[r]] PROVE FALSE
  OBVIOUS
<1>1. n \in Nodes
  BY DEF TreesInv, Shape, IsGraph
<1>2. Prompt(n) \in References(graph[trees[q]]) /\ Prompt(n) \in References(graph[trees[r]])
  BY DEF References
<1> QED BY <1>1, <1>2, NodeRefs DEF TreesInv, IndexMatchesGraphs

LEMMA HoldsLess ==
    ASSUME NEW g, NEW h, DOMAIN g \subseteq Nodes, DOMAIN h \subseteq Nodes,
           References(g) \subseteq References(h)
    PROVE  DOMAIN g \subseteq DOMAIN h
<1> SUFFICES ASSUME NEW n \in DOMAIN g PROVE n \in DOMAIN h
  OBVIOUS
<1>1. n \in Nodes /\ Prompt(n) \in References(h)
  BY DEF References
<1> QED BY <1>1, NodeRefs, ReferenceOf DEF Resolves

LEMMA ApplyResultStep == ASSUME TreesInv, ApplyResult PROVE GoesWell
<1>1. /\ command.phase = "captured" /\ UNCHANGED <<repoVars, treeVars, slot, intake>>
      /\ command' = Idle
      /\ saved' = [r \in Nodes |-> IF r \in DOMAIN command.snaps THEN command.snaps[r]
                                   ELSE IF r \in command.dropped THEN NoGraph ELSE saved[r]]
  BY DEF ApplyResult
<1>2. UNCHANGED <<trees, graph>>
  BY <1>1 DEF repoVars, treeVars
<1>3. \A r \in DOMAIN command.snaps :
         /\ r \in Nodes /\ trees[r] # NoTree
         /\ IsGraph(command.snaps[r]) /\ Sound(command.snaps[r], r)
         /\ References(command.snaps[r]) \subseteq References(graph[trees[r]])
  BY <1>1 DEF TreesInv, StoreIsRepaired
<1>4. ASSUME NEW r \in Nodes
      PROVE  \/ /\ r \in DOMAIN command.snaps /\ saved'[r] = command.snaps[r]
                /\ trees[r] # NoTree /\ DOMAIN saved'[r] \subseteq DOMAIN graph[trees[r]]
                /\ Sound(saved'[r], r) /\ IsGraph(saved'[r])
                /\ References(saved'[r]) \subseteq Remembered(r)
             \/ saved'[r] = NoGraph
             \/ saved'[r] = saved[r] /\ References(saved[r]) \subseteq Remembered(r)
  <2>1. CASE r \in DOMAIN command.snaps
    <3>1. /\ saved'[r] = command.snaps[r] /\ trees[r] # NoTree /\ IsGraph(saved'[r])
          /\ Sound(saved'[r], r) /\ References(saved'[r]) \subseteq References(graph[trees[r]])
      BY <1>1, <1>3, <2>1
    <3>2. IsGraph(graph[trees[r]])
      BY <3>1 DEF TreesInv, Shape
    <3> QED BY <2>1, <3>1, <3>2, HoldsLess DEF IsGraph, Remembered
  <2>2. CASE r \notin DOMAIN command.snaps /\ r \in command.dropped
    BY <1>1, <2>2
  <2>3. CASE r \notin DOMAIN command.snaps /\ r \notin command.dropped
    BY <1>1, <2>3 DEF TreesInv, StoreIsRepaired, WillRewrite
  <2> QED BY <2>1, <2>2, <2>3
<1>5. ASSUME NEW q \in Nodes, NEW r \in Nodes, q # r, trees[q] # NoTree
      PROVE  DOMAIN graph[trees[q]] \cap DOMAIN saved'[r] = {}
  <2>1. CASE saved'[r] = saved[r]
    BY <1>5, <2>1 DEF TreesInv, StoreIsSound
  <2>2. CASE saved'[r] = NoGraph
    BY <2>2, NothingIsThere
  <2>3. CASE trees[r] # NoTree /\ DOMAIN saved'[r] \subseteq DOMAIN graph[trees[r]]
    BY <1>5, <2>3, Disjoint
  <2> QED BY <1>4, <2>1, <2>2, <2>3
<1>6. ASSUME NEW q \in Nodes, NEW r \in Nodes, q # r
      PROVE  DOMAIN saved'[q] \cap DOMAIN saved'[r] = {}
  <2>1. CASE saved'[q] = NoGraph \/ saved'[r] = NoGraph
    BY <2>1, NothingIsThere
  <2>2. CASE trees[q] # NoTree /\ DOMAIN saved'[q] \subseteq DOMAIN graph[trees[q]]
    BY <1>5, <1>6, <2>2
  <2>3. CASE trees[r] # NoTree /\ DOMAIN saved'[r] \subseteq DOMAIN graph[trees[r]]
    BY <1>5, <1>6, <2>3
  <2>4. CASE saved'[q] = saved[q] /\ saved'[r] = saved[r]
    BY <1>6, <2>4 DEF TreesInv, StoreIsSound
  <2> QED BY <1>4, <2>1, <2>2, <2>3, <2>4
<1>7. \A r \in Nodes : IsGraph(saved'[r]) /\ (DOMAIN saved'[r] # {} => Sound(saved'[r], r))
  BY <1>4, NothingIsThere DEF TreesInv, Shape, StoreIsSound
<1>8. StoreIsSound'
  BY <1>2, <1>5, <1>6, <1>7 DEF StoreIsSound
<1>9. \A r \in Nodes : References(saved'[r]) \subseteq Remembered(r)'
  BY <1>2, <1>4, NothingIsThere DEF Remembered
<1>10. StoreIsRepaired'
  BY <1>1, <1>9 DEF StoreIsRepaired, Idle
<1>11. DOMAIN saved' = Nodes
  BY <1>1
<1> QED BY <1>1, <1>7, <1>8, <1>10, <1>11, OnlyTheStore

LEMMA RaiseFailureStep == ASSUME TreesInv, RaiseFailure PROVE GoesWell
<1>1. /\ command.phase = "failed" /\ UNCHANGED <<repoVars, treeVars, slot, intake>>
      /\ command' = Idle
      /\ saved' = IF command.op = "clear_chat" THEN [r \in Nodes |-> NoGraph] ELSE saved
  BY DEF RaiseFailure
<1>2. UNCHANGED <<trees, graph>>
  BY <1>1 DEF repoVars, treeVars
<1>3. DOMAIN saved = Nodes /\ \A r \in Nodes : IsGraph(saved[r])
  BY DEF TreesInv, Shape
<1>4. ASSUME NEW r \in Nodes
      PROVE  saved'[r] = NoGraph \/ (saved'[r] = saved[r] /\ References(saved[r]) \subseteq Remembered(r))
  BY <1>1 DEF TreesInv, StoreIsRepaired, WillRewrite
<1>5. DOMAIN saved' = Nodes /\ \A r \in Nodes : IsGraph(saved'[r])
  BY <1>1, <1>3, NothingIsThere
<1>6. StoreIsSound'
  BY <1>2, <1>4, NothingIsThere DEF TreesInv, StoreIsSound
<1>7. \A r \in Nodes : References(saved'[r]) \subseteq Remembered(r)'
  BY <1>2, <1>4, NothingIsThere DEF Remembered
<1>8. StoreIsRepaired'
  BY <1>1, <1>7 DEF StoreIsRepaired, Idle
<1> QED BY <1>1, <1>5, <1>6, <1>8, OnlyTheStore

-----------------------------------------------------------------------------
(* Removal. *)

\* clear_scope: the trees of T are cancelled and detached.
LEMMA DetachStep ==
    ASSUME TreesInv, command.op = "idle", ExpireTokens, NEW T \in SUBSET Published, NEW F,
           CancelTrees(T, F), Detach(T), CancelTasks(ActiveOf(T)),
           command'.op # "idle", command'.phase \in {"draining", "failed"},
           command'.targets \subseteq Nodes \X TreeObjects,
           \A r \in Nodes : trees[r] \in T => WillRewrite(r)',
           UNCHANGED <<active, saved>>
    PROVE  GoesWell
<1>1. /\ trees \in [Nodes -> TreeObjects \cup {NoTree}] /\ DOMAIN graph = TreeObjects
      /\ reference \in [Refs -> Nodes \cup {NoNode}] /\ \A t \in TreeObjects : IsGraph(graph[t])
      /\ DOMAIN saved = Nodes /\ \A r \in Nodes : IsGraph(saved[r])
      /\ active \in [TreeObjects -> Claims \cup {NoClaim}]
  BY DEF TreesInv, Shape
<1>2. T \subseteq TreeObjects /\ NoTree \notin T
  BY PublishedTrees
<1>3. /\ trees' \in [Nodes -> TreeObjects \cup {NoTree}]
      /\ \A r \in Nodes : trees'[r] = IF trees[r] \in T THEN NoTree ELSE trees[r]
  BY <1>1 DEF Detach
<1>4. /\ DOMAIN graph' = TreeObjects
      /\ \A t \in TreeObjects : graph'[t] = IF t \in T THEN NoGraph ELSE graph[t]
  BY DEF Detach
<1>5. /\ reference' \in [Refs -> Nodes \cup {NoNode}]
      /\ \A x \in Refs :
           reference'[x] = IF reference[x] # NoNode /\ trees[reference[x]] \in T THEN NoNode
                           ELSE reference[x]
  BY <1>1 DEF Detach, Unregister
<1>6. /\ cancelled' \in [TreeObjects -> BOOLEAN]
      /\ \A u \in TreeObjects : cancelled[u] => cancelled'[u]
      /\ \A u \in TreeObjects : cancelled'[u] => cancelled[u] \/ active[u] # NoClaim
      /\ \A u \in TreeObjects : u \in T /\ active[u] # NoClaim => cancelled'[u]
      /\ queue' \in [TreeObjects -> SUBSET Nodes]
      /\ \A u \in TreeObjects : queue'[u] = IF u \in T THEN {} ELSE queue[u]
  BY CancelTreesKeep
<1>7. /\ TasksGoOn
  BY CancelTasksKeep
<1>8. \A t : t \in Published' <=> t \in Published /\ t \notin T
  BY <1>2, <1>3 DEF Published
<1>9. Shape'
  <2>1. \A t \in TreeObjects : IsGraph(graph'[t])
    BY <1>1, <1>4, NothingIsThere
  <2> QED BY <1>1, <1>3, <1>4, <1>5, <1>6, <1>7, <2>1, ExpiredIntake DEF Shape, TasksGoOn
<1>10. GraphsAreSound'
  <2>1. \A q, r \in Nodes : trees'[q] = trees'[r] /\ trees'[q] # NoTree => q = r
    BY <1>3 DEF TreesInv, GraphsAreSound
  <2>2. \A r \in Nodes : trees'[r] # NoTree => Sound(graph'[trees'[r]], r)
    BY <1>1, <1>3, <1>4 DEF TreesInv, GraphsAreSound
  <2>3. \A t \in TreeObjects : t \notin Published' => DOMAIN graph'[t] = {} /\ queue'[t] = {}
    BY <1>4, <1>6, <1>8, NothingIsThere DEF TreesInv, GraphsAreSound
  <2> QED BY <2>1, <2>2, <2>3 DEF GraphsAreSound
<1>11. IndexMatchesGraphs'
  <2> SUFFICES ASSUME NEW x \in Refs, NEW r \in Nodes
               PROVE  reference'[x] = r <=> trees'[r] # NoTree /\ x \in References(graph'[trees'[r]])
    BY DEF IndexMatchesGraphs
  <2>1. reference[x] = r <=> trees[r] # NoTree /\ x \in References(graph[trees[r]])
    BY DEF TreesInv, IndexMatchesGraphs
  <2>2. r # NoNode
    OBVIOUS
  <2>3. reference'[x] = r <=> reference[x] = r /\ trees[r] \notin T
    BY <1>5, <2>2
  <2>4. CASE trees[r] \in T
    BY <1>3, <2>3, <2>4
  <2>5. CASE trees[r] \notin T
    BY <1>1, <1>3, <1>4, <2>1, <2>3, <2>5
  <2> QED BY <2>4, <2>5
<1>12. PendingIsQueued'
  <2> SUFFICES ASSUME NEW t \in Published, t \notin T
               PROVE  queue'[t] = {n \in DOMAIN graph'[t] : graph'[t][n].state = "pending"}
    BY <1>8 DEF PendingIsQueued, StateOf
  <2>1. graph'[t] = graph[t] /\ queue'[t] = queue[t]
    BY <1>4, <1>6, PublishedTrees
  <2> QED BY <2>1 DEF TreesInv, PendingIsQueued, StateOf
<1>13. ClaimsHaveTasks'
  <2>1. \A r \in Nodes : trees'[r] \in {trees[r], NoTree}
    BY <1>3
  <2>2. \A t \in TreeObjects : queue'[t] \subseteq queue[t]
    BY <1>6
  <2> QED BY <1>6, <1>7, <2>1, <2>2, SameClaims
<1>14. TurnsAreThere'
  <2>1. \A r \in Nodes : trees'[r] \in {trees[r], NoTree}
    BY <1>3
  <2>2. \A t \in Published : active[t] # NoClaim /\ ~cancelled'[t] =>
          ~cancelled[t] /\ graph'[t] = graph[t]
    BY <1>4, <1>6, PublishedTrees
  <2> QED BY <1>7, <2>1, <2>2, SameTurns
<1>15. StoreIsSound' /\ StoreIsRepaired'
  <2>1. \A r \in Nodes : trees'[r] \in {trees[r], NoTree}
    BY <1>3
  <2>2. \A r \in Nodes : trees'[r] # NoTree => graph'[trees[r]] = graph[trees[r]]
    BY <1>1, <1>3, <1>4
  <2>3. \A r \in Nodes : Remembered(r)' = Remembered(r) \/ WillRewrite(r)'
    BY <1>3, <2>2 DEF Remembered
  <2> QED BY <2>1, <2>2, <2>3, CommandStarts
<1>16. SettledStay /\ CancelledStay
  BY <1>4, NothingIsThere DEF SettledStay, CancelledStay
<1> QED BY <1>9, <1>10, <1>11, <1>12, <1>13, <1>14, <1>15, <1>16 DEF GoesWell, TreesInv

LEMMA ClearChatStep == ASSUME TreesInv, ClearChat PROVE GoesWell
<1>1. /\ command.op = "idle" /\ ExpireTokens /\ CancelTrees(Published, {}) /\ Detach(Published)
      /\ Commit("clear_chat", ActiveOf(Published), {}, Nodes)
      /\ UNCHANGED <<active, saved>>
  BY DEF ClearChat
<1>2. /\ CancelTasks(ActiveOf(Published)) /\ command'.op # "idle"
      /\ command'.phase = "draining" /\ command'.phase \in {"draining", "failed"}
      /\ command'.targets = {} /\ command'.dropped = Nodes
  BY <1>1, Commits
<1>3. \A r \in Nodes : trees[r] \in Published => WillRewrite(r)'
  <2>1. \A r \in Nodes : trees[r] \in Published => trees'[r] = NoTree
    BY <1>1 DEF Detach
  <2> QED BY <1>2, <2>1 DEF WillRewrite
<1> QED BY <1>1, <1>2, <1>3, DetachStep

LEMMA ClearChatFailsStep == ASSUME TreesInv, ClearChatFails PROVE GoesWell
<1>1. /\ command.op = "idle" /\ ExpireTokens /\ Fail("clear_chat") /\ UNCHANGED <<active, saved>>
  BY DEF ClearChatFails
<1>2. PICK f \in Raising, T \in SUBSET (Published \ Raising) :
        CancelTrees(T, {f}) /\ Detach(T) /\ CancelTasks(ActiveOf(T))
  BY DEF ClearChatFails
<1>3. /\ command'.op = "clear_chat" /\ command'.op # "idle"
      /\ command'.phase = "failed" /\ command'.phase \in {"draining", "failed"}
      /\ command'.targets \subseteq Nodes \X TreeObjects
  BY <1>1, Fails
<1>4. \A r \in Nodes : trees[r] \in T => WillRewrite(r)'
  BY <1>3 DEF WillRewrite
<1>5. T \in SUBSET Published
  OBVIOUS
<1> QED BY <1>1, <1>2, <1>3, <1>4, <1>5, DetachStep

\* remove_message_subtree.
LEMMA ClearReplyStep == ASSUME TreesInv, NEW x \in Refs, ClearReply(x) PROVE GoesWell
<1> DEFINE r == reference[x]
           t == trees[r]
           g == graph[t]
           below == ReplySubtree(g, x)
           removed == Removed(g, x)
           affected == Affected(g, x)
           C == ActiveIn(t, affected)
           whole == r \in removed
           h == Cleared(g, x)
           gone == IF whole THEN {y \in Refs : reference[y] = r} ELSE {y \in below : reference[y] = r}
           targets == IF whole THEN {} ELSE {<<r, t>>}
<1>1. /\ command.op = "idle" /\ r # NoNode
      /\ IF C # {} THEN Flag(t) ELSE UNCHANGED cancelled
      /\ Without(t, affected) /\ graph' = [graph EXCEPT ![t] = h]
      /\ trees' = IF whole THEN [trees EXCEPT ![r] = NoTree] ELSE trees
      /\ Unregister(gone)
      /\ Commit("clear_reply", C, targets, {r} \cap removed)
      /\ UNCHANGED <<active, intake, saved>>
  BY DEF ClearReply, Removed, Affected, Owner, Cleared
<1>2. /\ r \in Nodes /\ t \in TreeObjects /\ t \in Published /\ t # NoTree
      /\ x \in References(g) /\ IsGraph(g) /\ Sound(g, r) /\ t = trees[r] /\ g = graph[t]
  BY <1>1, LookedUp
<1>3. Resolves(g, x) /\ Clean(g)
  BY <1>2, ReferenceOf DEF Sound
<1>4. /\ IsGraph(h) /\ DOMAIN h = DOMAIN g \ removed /\ Clean(h) /\ affected \subseteq DOMAIN g
      /\ removed \subseteq affected /\ \A n \in affected \ removed : n \in Owner(x)
      /\ \A n \in DOMAIN g \ removed :
           /\ n \in Owner(x) => n \in affected /\ h[n].state = "error" /\ ~h[n].session
           /\ n \notin Owner(x) => n \notin affected /\ h[n] = g[n]
  <2> HIDE DEF g
  <2> QED BY <1>2, <1>3, ClearedGraph DEF Affected
<1>5. /\ whole => DOMAIN h = {}
      /\ ~whole => Sound(h, r)
      /\ \A y \in Refs : y \in References(h) <=> y \in References(g) /\ y \notin below
  <2> HIDE DEF g, r
  <2> QED BY <1>2, <1>3, ClearedIsSound
<1>6. C = ActiveIn(t, affected)
  OBVIOUS
<1>7. gone = IF whole THEN {y \in Refs : reference[y] = r} ELSE {y \in below : reference[y] = r}
  OBVIOUS
<1>8. targets = IF whole THEN {} ELSE {<<r, t>>}
  OBVIOUS
<1>9. whole <=> r \in removed
  OBVIOUS
<1> HIDE DEF r, t, g, below, removed, affected, C, h, gone, targets, whole
<1>10. /\ trees \in [Nodes -> TreeObjects \cup {NoTree}] /\ DOMAIN graph = TreeObjects
       /\ reference \in [Refs -> Nodes \cup {NoNode}] /\ \A u \in TreeObjects : IsGraph(graph[u])
       /\ DOMAIN saved = Nodes /\ \A q \in Nodes : IsGraph(saved[q])
       /\ active \in [TreeObjects -> Claims \cup {NoClaim}]
       /\ queue \in [TreeObjects -> SUBSET Nodes]
       /\ intake \in [Nodes -> Intake]
  BY DEF TreesInv, Shape
<1>11. /\ trees' \in [Nodes -> TreeObjects \cup {NoTree}]
       /\ trees'[r] = IF whole THEN NoTree ELSE t
       /\ \A q \in Nodes : q # r => trees'[q] = trees[q]
  BY <1>1, <1>2, <1>10
<1>12. /\ DOMAIN graph' = TreeObjects /\ graph'[t] = h
       /\ \A u \in TreeObjects : u # t => graph'[u] = graph[u]
  BY <1>1, <1>2, <1>10
<1>13. /\ queue' \in [TreeObjects -> SUBSET Nodes] /\ queue'[t] = queue[t] \ affected
       /\ \A u \in TreeObjects : u # t => queue'[u] = queue[u]
  BY <1>1, <1>2, <1>10 DEF Without
<1>14. /\ reference' \in [Refs -> Nodes \cup {NoNode}]
       /\ \A y \in Refs : reference'[y] = IF y \in gone THEN NoNode ELSE reference[y]
  BY <1>1, <1>10 DEF Unregister
<1>15. /\ cancelled' \in [TreeObjects -> BOOLEAN]
       /\ \A u \in TreeObjects : cancelled[u] => cancelled'[u]
       /\ \A u \in TreeObjects : cancelled'[u] => cancelled[u] \/ active[u] # NoClaim
       /\ C # {} => cancelled'[t]
  <2>1. C # {} => active[t] # NoClaim
    BY <1>6 DEF ActiveIn
  <2> QED BY <1>1, <1>2, <2>1, FlagKeeps
<1>16. /\ command'.op # "idle" /\ command'.phase = "draining"
       /\ command'.phase \in {"draining", "failed"}
       /\ command'.targets = targets /\ command'.dropped = {r} \cap removed
       /\ command'.targets \subseteq Nodes \X TreeObjects
       /\ TasksGoOn
  BY <1>1, <1>2, <1>8, Commits, CancelTasksKeep
<1>17. queue[t] = {n \in DOMAIN g : g[n].state = "pending"}
  BY <1>2 DEF TreesInv, PendingIsQueued, StateOf
<1>18. /\ \A u : u # t => (u \in Published' <=> u \in Published)
       /\ t \in Published' <=> ~whole
  <2>1. \A q \in Nodes : q # r => trees[q] # t
    BY <1>2 DEF TreesInv, GraphsAreSound
  <2> QED BY <1>2, <1>11, <2>1 DEF Published
<1>19. Shape'
  <2>1. \A u \in TreeObjects : IsGraph(graph'[u])
    BY <1>4, <1>10, <1>12
  <2> QED BY <1>1, <1>10, <1>11, <1>12, <1>13, <1>14, <1>15, <1>16, <2>1 DEF Shape, TasksGoOn
<1>20. GraphsAreSound'
  <2>1. \A q, p \in Nodes : trees'[q] = trees'[p] /\ trees'[q] # NoTree => q = p
    BY <1>2, <1>11 DEF TreesInv, GraphsAreSound
  <2>2. ASSUME NEW q \in Nodes, trees'[q] # NoTree PROVE Sound(graph'[trees'[q]], q)
    <3>1. CASE q = r
      BY <1>5, <1>11, <1>12, <2>2, <3>1
    <3>2. CASE q # r
      BY <1>2, <1>10, <1>11, <1>12, <2>2, <3>2 DEF TreesInv, GraphsAreSound
    <3> QED BY <3>1, <3>2
  <2>3. ASSUME NEW u \in TreeObjects, u \notin Published'
        PROVE  DOMAIN graph'[u] = {} /\ queue'[u] = {}
    <3>1. CASE u = t
      BY <1>4, <1>5, <1>12, <1>13, <1>17, <1>18, <2>3, <3>1
    <3>2. CASE u # t
      BY <1>12, <1>13, <1>18, <2>3, <3>2 DEF TreesInv, GraphsAreSound
    <3> QED BY <3>1, <3>2
  <2> QED BY <2>1, <2>2, <2>3 DEF GraphsAreSound
<1>21. IndexMatchesGraphs'
  <2> SUFFICES ASSUME NEW y \in Refs, NEW q \in Nodes
               PROVE  reference'[y] = q <=> trees'[q] # NoTree /\ y \in References(graph'[trees'[q]])
    BY DEF IndexMatchesGraphs
  <2>1. reference[y] = q <=> trees[q] # NoTree /\ y \in References(graph[trees[q]])
    BY DEF TreesInv, IndexMatchesGraphs
  <2>2. q # NoNode
    OBVIOUS
  <2>3. CASE q = r
    <3>1. reference'[y] = q <=> reference[y] = r /\ y \notin gone
      BY <1>14, <2>2, <2>3
    <3>2. CASE whole
      BY <1>7, <1>11, <2>3, <3>1, <3>2
    <3>3. CASE ~whole
      BY <1>2, <1>5, <1>7, <1>11, <1>12, <2>1, <2>3, <3>1, <3>3
    <3> QED BY <3>2, <3>3
  <2>4. CASE q # r
    <3>1. reference'[y] = q <=> reference[y] = q
      BY <1>7, <1>14, <2>2, <2>4
    <3>2. trees[q] # NoTree => trees[q] \in TreeObjects /\ trees[q] # t
      BY <1>2, <1>10, <2>4 DEF TreesInv, GraphsAreSound
    <3> QED BY <1>11, <1>12, <2>1, <2>4, <3>1, <3>2
  <2> QED BY <2>3, <2>4
<1>22. PendingIsQueued'
  <2> SUFFICES ASSUME NEW u \in Published'
               PROVE  queue'[u] = {n \in DOMAIN graph'[u] : graph'[u][n].state = "pending"}
    BY DEF PendingIsQueued, StateOf
  <2>1. CASE u = t
    BY <1>4, <1>12, <1>13, <1>17, <2>1
  <2>2. CASE u # t
    <3>1. u \in Published /\ u \in TreeObjects
      BY <1>18, <2>2, PublishedTrees
    <3> QED BY <1>12, <1>13, <2>2, <3>1 DEF TreesInv, PendingIsQueued, StateOf
  <2> QED BY <2>1, <2>2
<1>23. \A q \in Nodes : trees'[q] \in {trees[q], NoTree}
  BY <1>2, <1>11
<1>24. ClaimsHaveTasks'
  <2>1. \A u \in TreeObjects : queue'[u] \subseteq queue[u]
    BY <1>13
  <2> QED BY <1>1, <1>15, <1>16, <1>23, <2>1, SameClaims
<1>25. TurnsAreThere'
  <2>1. ASSUME NEW u \in Published, active[u] # NoClaim, ~cancelled'[u]
        PROVE  /\ ~cancelled[u]
               /\ LET n == slot[active[u]].node IN
                    n \in DOMAIN graph[u] /\ graph[u][n].status /\ graph[u][n].state # "pending" =>
                      n \in DOMAIN graph'[u] /\ graph'[u][n].status /\ graph'[u][n].state # "pending"
    <3>1. u \in TreeObjects /\ ~cancelled[u]
      BY <1>15, <2>1, PublishedTrees
    <3>2. CASE u = t
      <4>1. slot[active[t]].node \notin affected
        BY <1>6, <1>15, <2>1, <3>2 DEF ActiveIn
      <4> QED BY <1>2, <1>4, <1>12, <3>1, <3>2, <4>1
    <3>3. CASE u # t
      BY <1>12, <3>1, <3>3
    <3> QED BY <3>1, <3>2, <3>3
  <2> QED BY <1>1, <1>16, <1>23, <2>1, SameTurns
<1>26. StoreIsSound' /\ StoreIsRepaired'
  <2>1. ASSUME NEW q \in Nodes, trees'[q] # NoTree
        PROVE  DOMAIN graph'[trees[q]] \subseteq DOMAIN graph[trees[q]]
    BY <1>2, <1>4, <1>10, <1>12, <1>23, <2>1
  <2>2. ASSUME NEW q \in Nodes PROVE Remembered(q)' = Remembered(q) \/ WillRewrite(q)'
    <3>1. CASE q = r
      BY <1>2, <1>8, <1>9, <1>11, <1>16, <3>1 DEF WillRewrite
    <3>2. CASE q # r
      <4>1. trees[q] # NoTree => trees[q] \in TreeObjects /\ trees[q] # t
        BY <1>2, <1>10, <3>2 DEF TreesInv, GraphsAreSound
      <4> QED BY <1>11, <1>12, <3>2, <4>1 DEF Remembered
    <3> QED BY <3>1, <3>2
  <2> QED BY <1>1, <1>16, <1>23, <2>1, <2>2, CommandStarts
<1>27. SettledStay
  BY <1>2, <1>4, <1>12 DEF SettledStay, Runnable
<1>28. CancelledStay
  BY <1>2, <1>4, <1>12 DEF CancelledStay
<1> QED BY <1>19, <1>20, <1>21, <1>22, <1>24, <1>25, <1>26, <1>27, <1>28 DEF GoesWell, TreesInv

-----------------------------------------------------------------------------
(* Restart. *)

\* Restored as it was, but for what was still to run.
LEMMA RestoredGraph ==
    ASSUME NEW g, IsGraph(g), NEW r, Sound(g, r)
    PROVE  /\ IsGraph(Restored(g)) /\ DOMAIN Restored(g) = DOMAIN g /\ Sound(Restored(g), r)
           /\ References(Restored(g)) = References(g)
           /\ \A n \in DOMAIN g : Restored(g)[n].state \notin Runnable
<1> DEFINE h == MarkError(g, DOMAIN g)
<1>1. Restored(g) = h
  BY DEF Restored
<1>2. IsGraph(h) /\ Alike(g, h) /\ Clean(h) /\ \A n \in DOMAIN g : h[n].state \notin Runnable
  BY MarkedGraph DEF Sound
<1> HIDE DEF h
<1> QED BY <1>1, <1>2, AlikeIsSound, AlikeReferences DEF Alike

LEMMA RestartStep == ASSUME TreesInv, Restart PROVE GoesWell
<1> DEFINE roots == {r \in StoredRoots : Restorable(saved[r], r)}
<1>1. PICK object \in [roots -> TreeObjects] :
         /\ \A r1, r2 \in roots : object[r1] = object[r2] => r1 = r2
         /\ trees' = [r \in Nodes |-> IF r \in roots THEN object[r] ELSE NoTree]
         /\ graph' = [t \in TreeObjects |->
                        IF \E r \in roots : object[r] = t
                          THEN Restored(saved[CHOOSE r \in roots : object[r] = t])
                          ELSE NoGraph]
  BY DEF Restart
<1>2. /\ reference' = [x \in Refs |->
                         IF \E r \in roots : x \in References(saved[r])
                           THEN CHOOSE r \in roots : x \in References(saved[r])
                           ELSE NoNode]
      /\ saved' = [r \in Nodes |-> IF r \in roots THEN Restored(saved[r]) ELSE NoGraph]
      /\ queue' = [t \in TreeObjects |-> {}] /\ active' = [t \in TreeObjects |-> NoClaim]
      /\ cancelled' = [t \in TreeObjects |-> FALSE] /\ slot' = [c \in Claims |-> Free]
      /\ intake' = [n \in Nodes |-> NotWaiting] /\ command' = Idle
  BY DEF Restart
<1>3. \A r \in roots : r \in Nodes /\ saved[r] # NoGraph
  BY DEF StoredRoots
<1> HIDE DEF roots
<1>4. \A r \in roots : IsGraph(saved[r]) /\ Sound(saved[r], r)
  BY <1>3, NothingIsThere DEF TreesInv, Shape, StoreIsSound
<1>5. ASSUME NEW r \in roots
      PROVE  /\ trees'[r] = object[r] /\ object[r] \in TreeObjects
             /\ graph'[object[r]] = Restored(saved[r]) /\ saved'[r] = Restored(saved[r])
             /\ IsGraph(Restored(saved[r])) /\ Sound(Restored(saved[r]), r)
             /\ DOMAIN Restored(saved[r]) = DOMAIN saved[r]
             /\ References(Restored(saved[r])) = References(saved[r])
             /\ \A n \in DOMAIN saved[r] : Restored(saved[r])[n].state \notin Runnable
  <2>1. (CHOOSE q \in roots : object[q] = object[r]) = r
    BY <1>1
  <2>2. object[r] \in TreeObjects /\ r \in Nodes
    BY <1>3
  <2>3. graph'[object[r]] = Restored(saved[r])
    BY <1>1, <2>1, <2>2
  <2> QED BY <1>1, <1>2, <1>4, <2>2, <2>3, RestoredGraph
<1>6. \A r \in Nodes : r \notin roots => trees'[r] = NoTree /\ saved'[r] = NoGraph
  BY <1>1, <1>2
<1>7. /\ DOMAIN graph' = TreeObjects
      /\ \A t \in TreeObjects : (\A r \in roots : object[r] # t) => graph'[t] = NoGraph
  BY <1>1
<1>8. \A t : t \in Published' <=> \E r \in roots : object[r] = t
  BY <1>3, <1>5, <1>6 DEF Published
<1>9. ASSUME NEW x \in Refs, NEW r \in roots, x \in References(saved[r])
      PROVE  reference'[x] = r
  <2>1. ASSUME NEW q \in roots, x \in References(saved[q]) PROVE q = r
    <3>1. x[1] \in DOMAIN saved[q] /\ x[1] \in DOMAIN saved[r]
      BY <1>9, <2>1, ReferenceOf DEF Resolves
    <3> QED BY <1>3, <3>1 DEF TreesInv, StoreIsSound
  <2>2. (CHOOSE q \in roots : x \in References(saved[q])) = r
    BY <1>9, <2>1
  <2> QED BY <1>2, <1>9, <2>2
<1>10. ASSUME NEW x \in Refs, \A r \in roots : x \notin References(saved[r])
       PROVE  reference'[x] = NoNode
  BY <1>2, <1>10
<1>11. Shape'
  <2>1. trees' \in [Nodes -> TreeObjects \cup {NoTree}]
    BY <1>1
  <2>2. reference' \in [Refs -> Nodes \cup {NoNode}]
    <3>1. \A x \in Refs : reference'[x] \in Nodes \cup {NoNode}
      BY <1>3, <1>9, <1>10
    <3> QED BY <1>2, <3>1
  <2>3. \A t \in TreeObjects : IsGraph(graph'[t])
    BY <1>5, <1>7, NothingIsThere
  <2>4. DOMAIN saved' = Nodes /\ \A r \in Nodes : IsGraph(saved'[r])
    BY <1>2, <1>5, <1>6, NothingIsThere
  <2>5. /\ queue' \in [TreeObjects -> SUBSET Nodes]
        /\ active' \in [TreeObjects -> Claims \cup {NoClaim}]
        /\ cancelled' \in [TreeObjects -> BOOLEAN]
    BY <1>2
  <2>6. /\ slot' \in [Claims -> Slot]
        /\ intake' \in [Nodes -> Intake]
    BY <1>2 DEF Slot, Free, Phases, NotWaiting, Intake
  <2> QED BY <1>7, <2>1, <2>2, <2>3, <2>4, <2>5, <2>6 DEF Shape
<1>12. \A r \in Nodes : trees'[r] # NoTree => r \in roots
  BY <1>6
<1>13. GraphsAreSound'
  <2>1. \A q, r \in Nodes : trees'[q] = trees'[r] /\ trees'[q] # NoTree => q = r
    BY <1>1, <1>5, <1>12
  <2>2. \A r \in Nodes : trees'[r] # NoTree => Sound(graph'[trees'[r]], r)
    BY <1>5, <1>12
  <2>3. \A t \in TreeObjects : t \notin Published' => DOMAIN graph'[t] = {} /\ queue'[t] = {}
    BY <1>2, <1>7, <1>8, NothingIsThere
  <2> QED BY <2>1, <2>2, <2>3 DEF GraphsAreSound
<1>14. \A t \in TreeObjects : \A n \in DOMAIN graph'[t] : graph'[t][n].state \notin Runnable
  BY <1>5, <1>7, NothingIsThere
<1>15. IndexMatchesGraphs'
  <2> SUFFICES ASSUME NEW x \in Refs, NEW r \in Nodes
               PROVE  reference'[x] = r <=> trees'[r] # NoTree /\ x \in References(graph'[trees'[r]])
    BY DEF IndexMatchesGraphs
  <2>1. ASSUME reference'[x] = r PROVE r \in roots /\ x \in References(saved[r])
    <3>1. PICK q \in roots : x \in References(saved[q])
      BY <1>10, <2>1
    <3> QED BY <1>9, <2>1, <3>1
  <2>2. ASSUME r \in roots, x \in References(saved[r]) PROVE reference'[x] = r
    BY <1>9, <2>2
  <2>3. r \in roots => trees'[r] # NoTree /\ References(graph'[trees'[r]]) = References(saved[r])
    BY <1>5
  <2> QED BY <1>12, <2>1, <2>2, <2>3
<1>16. PendingIsQueued'
  <2>1. \A t \in Published' : t \in TreeObjects
    BY <1>8
  <2> QED BY <1>2, <1>14, <2>1 DEF PendingIsQueued, StateOf, Runnable
<1>17. ClaimsHaveTasks' /\ TurnsAreThere'
  <2>1. \A c \in Claims : ~Live(c)'
    BY <1>2 DEF Live, Free
  <2>2. \A t \in Published' : t \in TreeObjects
    BY <1>8
  <2> QED BY <1>2, <2>1, <2>2 DEF ClaimsHaveTasks, TurnsAreThere
<1>18. \A r \in Nodes : DOMAIN saved'[r] \subseteq DOMAIN saved[r]
  BY <1>5, <1>6, NothingIsThere
<1>19. \A r \in Nodes : trees'[r] # NoTree => graph'[trees'[r]] = saved'[r]
  BY <1>5, <1>12
<1>20. StoreIsSound'
  <2>1. ASSUME NEW r \in Nodes, DOMAIN saved'[r] # {} PROVE Sound(saved'[r], r)
    BY <1>5, <1>6, <2>1, NothingIsThere
  <2>2. ASSUME NEW q \in Nodes, NEW r \in Nodes, q # r
        PROVE  DOMAIN saved'[q] \cap DOMAIN saved'[r] = {}
    BY <1>18, <2>2 DEF TreesInv, StoreIsSound
  <2> QED BY <1>19, <2>1, <2>2 DEF StoreIsSound
<1>21. StoreIsRepaired'
  <2>1. ASSUME NEW r \in Nodes PROVE References(saved'[r]) \subseteq Remembered(r)'
    <3>1. CASE r \in roots
      BY <1>5, <1>19, <3>1 DEF Remembered
    <3>2. CASE r \notin roots
      BY <1>6, <3>2, NothingIsThere
    <3> QED BY <3>1, <3>2
  <2> QED BY <1>2, <2>1 DEF StoreIsRepaired, Idle
<1>22. SettledStay
  BY <1>14 DEF SettledStay
<1>23. CancelledStay
  BY <1>2 DEF CancelledStay
<1> QED BY <1>11, <1>13, <1>15, <1>16, <1>17, <1>20, <1>21, <1>22, <1>23 DEF GoesWell, TreesInv

-----------------------------------------------------------------------------
(* The theorems. *)

LEMMA NextGoesWell == ASSUME TreesInv, [Next]_vars PROVE GoesWell
<1>1. CASE Next
  <2>1. CASE \E n \in Nodes : \/ \E r \in Refs \cup {NoRef} : Deliver(n, r)
                              \/ Reject(n) \/ AdmitRoot(n) \/ AdmitReply(n)
    BY <2>1, DeliverStep, RejectStep, AdmitRootStep, AdmitReplyStep
  <2>2. CASE \E c \in Claims : \/ BeginRunner(c) \/ CancelledBeforeRunner(c)
                               \/ RecordSession(c) \/ CompleteClaim(c)
                               \/ \E p \in BOOLEAN : FailClaim(c, p)
                               \/ RunnerReturns(c) \/ RunnerRaises(c) \/ FinishClaim(c)
    BY <2>2, TaskSteps, RecordSessionStep, CompleteClaimStep, FailClaimStep, RunnerRaisesStep,
       FinishClaimStep
  <2>3. CASE \E x \in Refs : StopReply(x) \/ ClearReply(x) \/ ClearReplyFails(x)
    BY <2>3, StopReplyStep, ClearReplyStep, ClearReplyFailsStep
  <2>4. CASE StopAll \/ StopAllFails \/ ClearChat \/ ClearChatFails
    BY <2>4, StopAllStep, StopAllFailsStep, ClearChatStep, ClearChatFailsStep
  <2>5. CASE CaptureSnapshots \/ ApplyResult \/ RaiseFailure \/ Restart
    BY <2>5, CaptureSnapshotsStep, ApplyResultStep, RaiseFailureStep, RestartStep
  <2> QED BY <1>1, <2>1, <2>2, <2>3, <2>4, <2>5 DEF Next
<1>2. CASE UNCHANGED vars
  <2>1. UNCHANGED <<repoVars, treeVars, command, saved, slot, intake>>
    BY <1>2 DEF vars, repoVars, treeVars
  <2>2. intake' \in [Nodes -> Intake]
    BY <2>1 DEF TreesInv, Shape
  <2> QED BY <2>1, <2>2, SlotsStay, OnlyTasks
<1> QED BY <1>1, <1>2

\* The inductive invariant: shape, sound graphs, the index, queues, claims with their
\* tasks and turns, and a store that the command under way repairs.
THEOREM TreesInvariant == Spec => []TreesInv
<1>1. TreesInv /\ [Next]_vars => TreesInv'
  BY NextGoesWell DEF GoesWell
<1> QED BY <1>1, InitKeepsTrees, PTL DEF Spec

LEMMA OneTask == TreesInv => OneTaskPerTree
BY DEF TreesInv, ClaimsHaveTasks, OneTaskPerTree

LEMMA Served == TreesInv => QueueIsServed
BY DEF TreesInv, ClaimsHaveTasks, QueueIsServed, Live

\* No admitted turn is forgotten (runtime.py, processor.py): it is pending exactly while
\* it is queued, a queue has a claim ahead of it, and a tree has one live task.
THEOREM TurnsServed == Spec => []TurnsAreServed
<1>1. TreesInv => TurnsAreServed
  BY OneTask, Served DEF TreesInv, TurnsAreServed
<1> QED BY <1>1, TreesInvariant, PTL

\* The repository resolves exactly the references of published graphs (repository.py).
THEOREM IndexIsExact == Spec => []IndexMatchesGraphs
<1>1. TreesInv => IndexMatchesGraphs
  BY DEF TreesInv
<1> QED BY <1>1, TreesInvariant, PTL

\* What was cleared has no session left and is not in the store once its command is done
\* (workflow.py, session_store), whatever a task that outlived its drain has saved.
THEOREM ClearIsFinal == Spec => []ClearedStaysCleared
<1>1. TreesInv => ClearedHasNoSession
  <2> SUFFICES ASSUME TreesInv, NEW t \in Published, NEW n \in DOMAIN graph[t], ~graph[t][n].status
               PROVE  ~graph[t][n].session /\ StateOf(t, n) = "error"
    BY DEF ClearedHasNoSession
  <2> QED BY AllClean, PublishedTrees DEF Clean, StateOf
<1>2. TreesInv => RemovedStaysRemoved
  BY NothingToRewrite DEF RemovedStaysRemoved, Remembered
<1>3. TreesInv => ClearedStaysCleared
  BY <1>1, <1>2 DEF ClearedStaysCleared
<1> QED BY <1>3, TreesInvariant, PTL

\* A restart at any moment restores every stored conversation (graph.py from_snapshot),
\* and no message belongs to two of them.
THEOREM StoreRestores == Spec => []StoreIsRestorable
<1>1. ASSUME TreesInv PROVE StoreIsRestorable
  <2>1. ASSUME NEW r \in StoredRoots PROVE r \in Nodes /\ IsGraph(saved[r]) /\ Sound(saved[r], r)
    BY <1>1, NothingIsThere DEF StoredRoots, TreesInv, Shape, StoreIsSound
  <2>2. ASSUME NEW q \in StoredRoots, NEW r \in StoredRoots, q # r,
               NEW x \in References(saved[q]), x \in References(saved[r])
        PROVE  FALSE
    <3>1. x \in Refs
      BY <2>1, ReferencesAreRefs DEF IsGraph
    <3>2. x[1] \in DOMAIN saved[q] /\ x[1] \in DOMAIN saved[r]
      BY <2>2, <3>1, ReferenceOf DEF Resolves
    <3> QED BY <1>1, <2>1, <2>2, <3>2 DEF TreesInv, StoreIsSound
  <2> QED BY <2>1, <2>2 DEF StoreIsRestorable, Sound
<1> QED BY <1>1, TreesInvariant, PTL

\* A settled turn never runs again, whatever is redelivered, reported or restored.
THEOREM SettledStaysFinal == Spec => SettledIsFinal
<1>1. TreesInv /\ [Next]_vars =>
        \A t \in TreeObjects : \A n \in DOMAIN graph[t] \cap DOMAIN graph'[t] :
          graph[t][n].state \notin Runnable => graph'[t][n].state \notin Runnable
  BY NextGoesWell DEF GoesWell, SettledStay
<1> QED BY <1>1, TreesInvariant, PTL DEF Spec, SettledIsFinal

\* What a stop or a clear has cancelled stays failed, and gains no session, for as long as
\* its claim is active (runtime.py: reports of a cancelled claim are ignored).
THEOREM CancellationStaysFinal == Spec => CancellationIsFinal
<1>1. TreesInv /\ [Next]_vars =>
        \A t \in TreeObjects : cancelled[t] /\ cancelled'[t] /\ active'[t] = active[t] =>
          LET n == slot[active[t]].node IN
            n \in DOMAIN graph[t] \cap DOMAIN graph'[t] /\ graph[t][n].state = "error"
              => graph'[t][n].state = "error" /\ (graph'[t][n].session => graph[t][n].session)
  BY NextGoesWell DEF GoesWell, CancelledStay
<1> QED BY <1>1, TreesInvariant, PTL DEF Spec, CancellationIsFinal
=============================================================================
