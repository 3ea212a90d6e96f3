------------------------ MODULE ApplicationLifecycle ------------------------
(***************************************************************************)
(* ApplicationRuntime (runtime/application.py): the owner of everything one *)
(* server process opens.  It starts its parts in order, applies changes of  *)
(* the configuration, and tears the parts down in the opposite order of     *)
(* their use.  A teardown stops at the first step that fails and a later    *)
(* close() begins again with whatever is still owned.                       *)
(*                                                                         *)
(* The provider manager is ProviderGenerations, step by step: its close,   *)
(* its replacements and the requests that lease from it run inside this    *)
(* module.  The messaging platform, the workflow, the code service, the     *)
(* transcriber and the accounts are what the runtime can see of them: open, *)
(* owned, in use, and a close that succeeds or fails.                       *)
(***************************************************************************)
EXTENDS ProviderGenerations, Sequences

VARIABLES
    draining,   \* _draining
    starting,   \* how far start() is
    step,       \* the teardown step in progress, or 0
    owned,      \* the owners the runtime still has a reference to
    open,       \* what really accepts work or holds resources
    broken,     \* the close task of the code service has failed
    busy,       \* work under way: platform handlers, turns, code sessions
    shut,       \* _closed
    config,     \* how far apply_admin_config is, which holds _config_lock
    saved       \* the configuration file: what runs, what waits for a restart, or ahead

appVars == <<draining, starting, step, owned, open, broken, busy, shut, config, saved>>
allVars == <<vars, appVars>>

AppInit ==
    /\ Init
    /\ draining = FALSE /\ starting = "no" /\ step = 0
    /\ owned = {"transcriber", "providers", "accounts"}
    /\ open = {"transcriber", "accounts"}
    /\ broken = FALSE /\ busy = {} /\ shut = FALSE
    /\ config = "idle" /\ saved = "running"

Shared == UNCHANGED vars
GoOn(stage) == starting = stage /\ step = 0

-----------------------------------------------------------------------------
(* start(), which holds _lifecycle_lock until it is up or gives up. *)

BeginShutdown ==
    /\ ~draining /\ draining' = TRUE
    /\ Shared /\ UNCHANGED <<starting, step, owned, open, broken, busy, shut, config, saved>>

\* an exception or a cancellation: close() is called before it is raised
Starts(stage) ==
    /\ starting' = stage
    /\ Shared /\ UNCHANGED <<draining, step, broken, busy, shut, config, saved>>

Start == GoOn("no") /\ Starts(IF draining THEN "closing" ELSE "initialize") /\ UNCHANGED <<owned, open>>

Initialized ==
    /\ GoOn("initialize")
    /\ \E ok \in BOOLEAN : Starts(IF ok /\ ~draining THEN "warm" ELSE "closing")
    /\ UNCHANGED <<owned, open>>

Warmed == GoOn("warm") /\ Starts("code") /\ UNCHANGED <<owned, open>>

\* the service without a store stays closed, and the server runs without it
CodeStarts ==
    /\ GoOn("code") /\ Starts("build")
    /\ \E ok \in BOOLEAN : open' = IF ok THEN open \cup {"code"} ELSE open
    /\ UNCHANGED owned

\* no platform is configured, or its parts are made one after the other
PlatformIsBuilt ==
    /\ GoOn("build")
    /\ \/ Starts("finish") /\ UNCHANGED owned
       \/ \E got \in {{}, {"runtime"}, {"runtime", "sessions"}} :
             Starts("clean") /\ owned' = owned \cup got
       \/ Starts("connect") /\ owned' = owned \cup {"runtime", "sessions", "workflow"}
    /\ UNCHANGED open

\* runtime.start(): delivery runs and messages arrive before it has returned or raised
Connected == {{}, {"delivery"}, {"delivery", "ingress"}}

PlatformConnects ==
    /\ GoOn("connect")
    /\ \/ Starts("notify") /\ open' = open \cup {"delivery", "ingress"}
       \/ Starts("clean") /\ \E got \in Connected : open' = open \cup got
    /\ UNCHANGED owned

\* repair_restored_statuses and publish_startup_notice
PlatformNotifies ==
    /\ GoOn("notify")
    /\ \E ok \in BOOLEAN : Starts(IF ok THEN "finish" ELSE "clean")
    /\ UNCHANGED <<owned, open>>

StartFinishes ==
    /\ GoOn("finish")
    /\ Starts(IF draining THEN "closing" ELSE "up")
    /\ UNCHANGED <<owned, open>>

StartIsCancelled ==
    /\ step = 0 /\ starting \in {"warm", "code", "build", "connect", "notify", "clean"}
    /\ Starts("closing")
    /\ \E got \in IF starting = "connect" THEN Connected ELSE {{}} : open' = open \cup got
    /\ UNCHANGED owned

StartStep ==
    \/ Start \/ Initialized \/ Warmed \/ CodeStarts \/ PlatformIsBuilt \/ PlatformConnects
    \/ PlatformNotifies \/ StartFinishes

-----------------------------------------------------------------------------
(* Teardown: _close_owned_resources and _cleanup_messaging. *)

Parts == <<"picker", "quiesce", "workflow", "delivery", "code", "transcriber", "providers",
           "accounts">>

At(part) == step > 0 /\ Parts[step] = part
ByStart == starting = "clean"

\* start() cleans up messaging alone, close() everything
TeardownBegins ==
    /\ step = 0
    /\ \/ ByStart /\ step' = 2 /\ UNCHANGED draining
       \/ /\ starting \in {"no", "closing", "up", "failed"} /\ ~shut /\ config = "idle"
          /\ step' = 1 /\ draining' = TRUE
    /\ Shared /\ UNCHANGED <<starting, owned, open, broken, busy, shut, config, saved>>

\* a close() with nothing left returns at once
CloseReturns ==
    /\ step = 0 /\ starting = "closing" /\ shut
    /\ starting' = "failed"
    /\ Shared /\ UNCHANGED <<draining, step, owned, open, broken, busy, shut, config, saved>>

\* the owners a part needs to be there, one of them at least
Owners(part) ==
    CASE part = "quiesce" -> {"runtime"} [] part = "workflow" -> {"workflow", "sessions"}
      [] part = "delivery" -> {"runtime"} [] OTHER -> {part}

Applies == Parts[step] \in {"picker", "code"} \/ Owners(Parts[step]) \cap owned # {}

\* whoever is cancelled and awaited by a part
Awaited(part) ==
    CASE part = "quiesce" -> {"handler"} [] part = "workflow" -> {"turn"}
      [] part = "code" -> {"code"} [] OTHER -> {}

\* what stops accepting work, or gives its resources back
Closes(part) ==
    CASE part = "quiesce" -> {"ingress"} [] part \in {"picker", "workflow", "providers"} -> {}
      [] OTHER -> {part}

\* what a part's success lets go: the platform is kept until its delivery is closed
Forgets(part) == IF part = "quiesce" THEN {} ELSE Owners(part)

\* on to the next part; after the last the teardown is complete
Advance ==
    IF step = IF ByStart THEN 4 ELSE Len(Parts)
      THEN /\ step' = 0
           /\ shut' = ~ByStart
           /\ starting' = IF ByStart THEN "finish"
                          ELSE IF starting = "closing" THEN "failed" ELSE starting
      ELSE step' = step + 1 /\ UNCHANGED <<shut, starting>>

\* Mutant: the teardown goes on to the next part.
MutGiveUp == Advance

\* the teardown gives up; what it has not closed stays owned
GiveUp ==
    /\ step' = 0
    /\ starting' = IF ByStart THEN "closing" ELSE IF starting = "closing" THEN "failed" ELSE starting
    /\ UNCHANGED shut

PartIsSkipped ==
    /\ step > 0 /\ ~Applies
    /\ Advance
    /\ Shared /\ UNCHANGED <<draining, owned, open, broken, busy, config, saved>>

PartCloses ==
    /\ step > 0 /\ Applies /\ ~At("providers")
    /\ Awaited(Parts[step]) \cap busy = {}
    /\ At("code") => ~broken
    /\ open' = open \ Closes(Parts[step])
    /\ owned' = owned \ Forgets(Parts[step])
    /\ Advance
    /\ Shared /\ UNCHANGED <<draining, broken, busy, config, saved>>

\* Mutant: an owner is let go although its close has failed.
MutPartFails ==
    /\ step > 0 /\ Applies /\ ~At("providers")
    /\ open' \in {open, open \ Closes(Parts[step])}
    /\ owned' = owned \ Forgets(Parts[step])
    /\ broken' = (broken \/ At("code"))
    /\ GiveUp
    /\ Shared /\ UNCHANGED <<draining, busy, config, saved>>

\* The part raises.  The platform takes no more messages either way; the code service keeps
\* the task of its first close, and what that raised.
PartFails ==
    /\ step > 0 /\ Applies /\ ~At("providers")
    /\ open' \in {open \ (Closes(Parts[step]) \cap {"ingress"}), open \ Closes(Parts[step])}
    /\ broken' = (broken \/ At("code"))
    /\ GiveUp
    /\ Shared /\ UNCHANGED <<draining, owned, busy, config, saved>>

\* provider_manager.close()
ProvidersClose ==
    /\ At("providers") /\ Applies
    /\ CloseStep
    /\ IF closer.stage # "clean" THEN UNCHANGED <<step, starting, shut, owned>>
       ELSE IF closed' THEN Advance /\ owned' = owned \ {"providers"}
       ELSE GiveUp /\ UNCHANGED owned
    /\ UNCHANGED <<draining, open, broken, busy, config, saved>>

TeardownStep == PartIsSkipped \/ PartCloses \/ PartFails \/ ProvidersClose

-----------------------------------------------------------------------------
(* The work the parts exist for. *)

Works(begun, over) ==
    /\ busy' = (busy \cup begun) \ over
    /\ Shared /\ UNCHANGED <<draining, starting, step, owned, open, broken, shut, config, saved>>

\* a message arrives; a voice note is transcribed in its handler
MessageArrives ==
    /\ "ingress" \in open /\ ~At("quiesce") /\ "handler" \notin busy
    /\ Works({"handler"}, {})

HandlerEnds ==
    /\ "handler" \in busy
    /\ \E admitted \in {{}, {"turn"}} : Works(admitted, {"handler"})

TurnEnds == "turn" \in busy /\ Works({}, {"turn"})

CodeTurnBegins ==
    /\ starting = "up" /\ "code" \in open /\ ~draining /\ "code" \notin busy
    /\ Works({"code"}, {})

CodeTurnEnds == "code" \in busy /\ Works({}, {"code"})

WorkEnds == HandlerEnds \/ TurnEnds \/ CodeTurnEnds

-----------------------------------------------------------------------------
(* apply_admin_config, under _config_lock. *)

Keeps == UNCHANGED <<draining, starting, step, owned, open, broken, busy, shut>>
LockedByClose == step > 0 /\ ~ByStart

ApplyBegins ==
    /\ starting = "up" /\ config = "idle" /\ ~LockedByClose /\ ~draining
    /\ config' = "prepare"
    /\ Shared /\ Keeps /\ UNCHANGED saved

\* valid and not rejected: its finalization is a task of its own
ApplyIsPrepared ==
    /\ config = "prepare"
    /\ \/ current < MaxGenerations /\ config' = "replace"
       \/ config' = "save_only"
    /\ Shared /\ Keeps /\ UNCHANGED saved

\* Mutant: a cancellation of the caller also stops a finalization that has saved.
MutApplyStops ==
    /\ config \in {"prepare", "replace", "publish"}
    /\ config' = "idle"
    /\ IF config = "publish" THEN ReplaceFails ELSE Shared
    /\ Keeps /\ UNCHANGED saved

\* refused, or cancelled by its caller, as long as nothing has been saved
ApplyStops ==
    /\ config \in {"prepare", "replace", "save_only"}
    /\ config' = "idle"
    /\ Shared /\ Keeps /\ UNCHANGED saved

\* replace builds the candidate and has its commit save the file
ApplyReplaces ==
    /\ config = "replace" /\ ReplaceBegins
    /\ config' = "save"
    /\ Keeps /\ UNCHANGED saved

SaveFails ==
    /\ \/ config = "save" /\ ReplaceFails
       \/ config = "save_only" /\ Shared
    /\ config' = "idle"
    /\ Keeps /\ UNCHANGED saved

\* changes of pending fields wait for a restart, all of them
Saves ==
    /\ \/ config = "save" /\ config' = "publish" /\ saved' = "ahead"
       \/ config = "save_only" /\ config' = "idle" /\ saved' = "restart"
    /\ Shared /\ Keeps

ApplyPublishes ==
    /\ config = "publish" /\ ReplacePublishes
    /\ saved' = "running"
    /\ config' = IF lockedBy' = "nobody" THEN "idle" ELSE "close"
    /\ Keeps

ApplyReturns ==
    /\ config = "close" /\ ReplaceReturns
    /\ config' = "idle"
    /\ Keeps /\ UNCHANGED saved

ApplyStep == ApplyIsPrepared \/ ApplyReplaces \/ SaveFails \/ Saves \/ ApplyPublishes \/ ApplyReturns

-----------------------------------------------------------------------------
\* Requests, refreshes and account changes come with HTTP, which is served once start()
\* has returned; the first background refresh is started by start().
Serving == starting = "up"

ManagerStep ==
    /\ \/ \E r \in Requests : (Serving /\ Acquire(r)) \/ ReleaseLease(r) \/ ReleaseAgain(r)
       \/ \E g \in Generations : CleanupEnds(g)
       \/ starting \notin {"no", "initialize", "warm"} /\ RefreshStep
       \/ Serving /\ (ExplicitRefreshBegins \/ AccountChangeBegins)
       \/ ExplicitRefreshLeases \/ ExplicitRefreshEnds \/ AccountChangeEnds
    /\ UNCHANGED appVars

AppNext ==
    \/ BeginShutdown \/ StartStep \/ StartIsCancelled
    \/ TeardownBegins \/ CloseReturns \/ TeardownStep
    \/ MessageArrives \/ CodeTurnBegins \/ WorkEnds
    \/ ApplyBegins \/ ApplyStops \/ ApplyStep
    \/ ManagerStep

AppSpec == AppInit /\ [][AppNext]_allVars

\* Every part's close returns or raises, and so do the steps of start() and of a finalization;
\* work that is cancelled or drained ends.  The lock of the manager is given in the order of
\* its waiters, so a close or a replacement that waits for it gets it (strong fairness).
\* Nobody has to call close() or to send anything.
AppFairness ==
    /\ WF_allVars(StartStep)
    /\ SF_allVars(TeardownStep) /\ WF_allVars(CloseReturns)
    /\ WF_allVars(step = 0 /\ starting \in {"clean", "closing"} /\ TeardownBegins)
    /\ WF_allVars(HandlerEnds) /\ WF_allVars(TurnEnds) /\ WF_allVars(CodeTurnEnds)
    /\ SF_allVars(ApplyStep)
    /\ \A r \in Requests : WF_allVars(ReleaseLease(r) /\ UNCHANGED appVars)
    /\ \A g \in Generations : WF_allVars(CleanupEnds(g) /\ UNCHANGED appVars)
    /\ WF_allVars(RefreshStep /\ ManagerStep)
    /\ WF_allVars((ExplicitRefreshLeases \/ ExplicitRefreshEnds \/ AccountChangeEnds) /\ ManagerStep)

AppFairSpec == AppInit /\ [][AppNext]_allVars /\ AppFairness

-----------------------------------------------------------------------------
\* Nothing is closed under those who use it, however often a teardown fails and is begun
\* again: handlers have delivery and transcription, turns have delivery and providers, code
\* sessions have providers, and the accounts outlast the provider clients.
UsersComeFirst ==
    /\ "handler" \in busy => {"delivery", "transcriber"} \subseteq open
    /\ "turn" \in busy => "delivery" \in open
    /\ busy # {} => ~closing
    /\ "accounts" \notin open => closed

\* Neither the owners of work nor the leases of requests lose what they use.
NothingInUseCloses == UsedStaysOpen /\ UsersComeFirst

\* A close() that reports success has shut everything, and nothing is started again
\* behind it.
EverythingIsReleased ==
    /\ CloseIsComplete
    /\ shut => closed /\ owned = {} /\ open = {} /\ busy = {} /\ config = "idle"

\* Whenever no change of the configuration is under way, the file holds what runs or waits
\* for a restart: no cancelled request and no shutdown splits them.
SavedIsRunning == config = "idle" => saved # "ahead"

\* Teardowns and starts come to an end.
TeardownEnds == (step > 0) ~> (step = 0)
StartEnds == (starting # "no") ~> (starting \in {"up", "failed"})

\* Nothing that has begun to start or to close hangs, and no client is left open.
EverythingCloses == UnwantedCloses /\ TeardownEnds /\ StartEnds
=============================================================================
