------------------------ MODULE ProviderGenerations ------------------------
(***************************************************************************)
(* ProviderRuntimeManager (runtime/provider_manager.py): the generations of *)
(* provider clients that configuration changes replace one by one.  Requests *)
(* lease the generation they started with; a retired generation is cleaned   *)
(* up once, after its last lease; shutdown drains and closes all of them.    *)
(*                                                                          *)
(* asyncio runs each stretch between two awaits atomically; every action is  *)
(* such a stretch.  The model catalog, settings and traces are left out.     *)
(***************************************************************************)
EXTENDS Naturals, FiniteSets

CONSTANTS Requests,        \* holders of ProviderGenerationLease objects
          MaxGenerations,  \* generations published in one behaviour (a bound)
          MaxUnpublished   \* candidates whose own cleanup failed (a bound)

ASSUME BoundsAreNat == MaxGenerations \in Nat \ {0} /\ MaxUnpublished \in Nat

ASSUME RequestsAreFinite == IsFiniteSet(Requests)

Generations == 1..MaxGenerations
NoGeneration == 0

VARIABLES
    current,      \* _current
    leases,       \* active_leases of each generation
    drained,      \* generations whose drained event is set
    retired,      \* generations marked retired
    tracked,      \* _retired
    cleaning,     \* generations with a cleanup_task
    cleaned,      \* generations closed by their cleanup
    failed,       \* generations whose cleanup has raised (history)
    unpublished,  \* how many runtimes are in _unpublished
    lease,        \* the generation a request leases, or NoGeneration
    released,     \* requests whose lease is released, but may release again
    refresh,      \* _refresh_task: its generation and how far it is
    lockedBy,     \* the operation that holds _replace_lock, and its stage
    closer,       \* close(): its stage, the generations it closes
    closing, closed

generationVars == <<leases, drained, retired, tracked, cleaning, cleaned, failed>>
requestVars == <<lease, released>>
vars == <<current, generationVars, unpublished, requestVars, refresh, lockedBy, closer,
          closing, closed>>

NoRefresh == [generation |-> NoGeneration, phase |-> "none"]
NoCloser == [stage |-> "idle", targets |-> {}, waits |-> {}]

Init ==
    /\ current = 1
    /\ leases = [g \in Generations |-> 0]
    /\ drained = Generations
    /\ retired = {} /\ tracked = {} /\ cleaning = {} /\ cleaned = {} /\ failed = {}
    /\ unpublished = 0
    /\ lease = [r \in Requests |-> NoGeneration]
    /\ released = {}
    /\ refresh = [generation |-> 1, phase |-> "created"]
    /\ lockedBy = "nobody"
    /\ closer = NoCloser
    /\ closing = FALSE /\ closed = FALSE

-----------------------------------------------------------------------------
\* active_leases += 1; drained.clear()
LeaseOn(g) ==
    /\ leases' = [leases EXCEPT ![g] = @ + 1]
    /\ drained' = drained \ {g}

\* Mutant: a generation in use is cleaned up.
MutMayClean(g, n) == g \notin cleaned \cup cleaning

\* _close_generation starts a cleanup unless one runs or leases are left (n).
MayClean(g, n) == g \notin cleaned \cup cleaning /\ n = 0

\* Mutant: the drained event is not set again.
MutReleaseUnsignalled(g, stopping) ==
    /\ leases' = [leases EXCEPT ![g] = @ - 1]
    /\ UNCHANGED drained
    /\ cleaning' = IF g \in retired /\ ~stopping /\ MayClean(g, leases[g] - 1)
                     THEN cleaning \cup {g} ELSE cleaning

\* Mutant: cleaning up is left to replace and close.
MutReleaseKeeps(g, stopping) ==
    /\ leases' = [leases EXCEPT ![g] = @ - 1]
    /\ drained' = IF leases[g] = 1 THEN drained \cup {g} ELSE drained
    /\ UNCHANGED cleaning

\* _release: the last lease of a retired generation starts its cleanup, unless
\* the manager is closing: then close() is there to do it.
Release(g, stopping) ==
    /\ leases' = [leases EXCEPT ![g] = @ - 1]
    /\ drained' = IF leases[g] = 1 THEN drained \cup {g} ELSE drained
    /\ cleaning' = IF g \in retired /\ ~stopping /\ MayClean(g, leases[g] - 1)
                     THEN cleaning \cup {g} ELSE cleaning

\* acquire; it refuses once the manager is closing.
Acquire(r) ==
    /\ ~closing /\ ~closed
    /\ lease[r] = NoGeneration
    /\ lease' = [lease EXCEPT ![r] = current]
    /\ LeaseOn(current)
    /\ UNCHANGED <<current, retired, tracked, cleaning, cleaned, failed, unpublished, released,
                   refresh, lockedBy, closer, closing, closed>>

\* ProviderGenerationLease.release, first call.
ReleaseLease(r) ==
    /\ lease[r] # NoGeneration /\ r \notin released
    /\ Release(lease[r], closing)
    /\ released' = released \cup {r}
    /\ UNCHANGED <<current, retired, tracked, cleaned, failed, unpublished, lease, refresh,
                   lockedBy, closer, closing, closed>>

\* Mutant: a lease released twice gives back two leases.
MutReleaseAgain(r) ==
    /\ r \in released /\ leases[lease[r]] > 0
    /\ Release(lease[r], closing)
    /\ released' = released \ {r}
    /\ lease' = [lease EXCEPT ![r] = NoGeneration]
    /\ UNCHANGED <<current, retired, tracked, cleaned, failed, unpublished, refresh,
                   lockedBy, closer, closing, closed>>

\* A repeated release (a context manager after an explicit one) does nothing;
\* the request ends and its identity may be used again.
ReleaseAgain(r) ==
    /\ r \in released
    /\ released' = released \ {r}
    /\ lease' = [lease EXCEPT ![r] = NoGeneration]
    /\ UNCHANGED <<current, generationVars, unpublished, refresh, lockedBy, closer,
                   closing, closed>>

\* _run_generation_cleanup ends; a failed one may be started again.
CleanupEnds(g) ==
    /\ g \in cleaning
    /\ cleaning' = cleaning \ {g}
    /\ \/ cleaned' = cleaned \cup {g} /\ tracked' = tracked \ {g} /\ UNCHANGED failed
       \/ failed' = failed \cup {g} /\ UNCHANGED <<cleaned, tracked>>
    /\ UNCHANGED <<current, leases, drained, retired, unpublished, requestVars, refresh,
                   lockedBy, closer, closing, closed>>

-----------------------------------------------------------------------------
\* The background model refresh: one task, created at startup and by replace.

\* Its test for a closed generation is dead code: RefreshIsCurrent.
RefreshBegins ==
    /\ refresh.phase = "created"
    /\ LeaseOn(refresh.generation)
    /\ refresh' = [refresh EXCEPT !.phase = "running"]
    /\ UNCHANGED <<current, retired, tracked, cleaning, cleaned, failed, unpublished, requestVars,
                   lockedBy, closer, closing, closed>>

RefreshEnds ==
    /\ refresh.phase = "running"
    /\ refresh' = NoRefresh
    /\ Release(refresh.generation, closing)
    /\ UNCHANGED <<current, retired, tracked, cleaned, failed, unpublished, requestVars, lockedBy,
                   closer, closing, closed>>

\* _cancel_refresh: cancelled before its first step the task never leases;
\* cancelled later it releases before the canceller goes on.
CancelRefresh(stopping) ==
    /\ refresh' = NoRefresh
    /\ IF refresh.phase = "running" THEN Release(refresh.generation, stopping)
       ELSE UNCHANGED <<leases, drained, cleaning>>

-----------------------------------------------------------------------------
\* Operations under _replace_lock.

Lock(op) == lockedBy = "nobody" /\ lockedBy' = op
Refuse == closing \/ closed

\* refresh_model_list_cache cancels the background refresh, then leases the
\* current generation itself.
ExplicitRefreshBegins ==
    /\ ~Refuse
    /\ Lock("explicit_cancel")
    /\ CancelRefresh(closing)
    /\ UNCHANGED <<current, retired, tracked, cleaned, failed, unpublished, requestVars, closer,
                   closing, closed>>

ExplicitRefreshLeases ==
    /\ lockedBy = "explicit_cancel" /\ lockedBy' = "explicit_refresh"
    /\ LeaseOn(current)
    /\ UNCHANGED <<current, retired, tracked, cleaning, cleaned, failed, unpublished, requestVars,
                   refresh, closer, closing, closed>>

ExplicitRefreshEnds ==
    /\ lockedBy = "explicit_refresh" /\ lockedBy' = "nobody"
    /\ Release(current, closing)
    /\ UNCHANGED <<current, retired, tracked, cleaned, failed, unpublished, requestVars, refresh,
                   closer, closing, closed>>

\* Mutant: the operation does not look whether the manager is closing.
MutAccountChangeBegins ==
    /\ Lock("account_change")
    /\ UNCHANGED <<current, generationVars, unpublished, requestVars, refresh, closer,
                   closing, closed>>

\* connected_provider_changed uses the current runtime with no lease at all.
AccountChangeBegins ==
    /\ ~Refuse
    /\ Lock("account_change")
    /\ UNCHANGED <<current, generationVars, unpublished, requestVars, refresh, closer,
                   closing, closed>>

AccountChangeEnds ==
    /\ lockedBy = "account_change" /\ lockedBy' = "nobody"
    /\ UNCHANGED <<current, generationVars, unpublished, requestVars, refresh, closer,
                   closing, closed>>

\* replace, up to its first long await: the old refresh is cancelled, cleanups
\* that failed before are tried again, the candidate is built, commit starts.
ReplaceBegins ==
    /\ ~Refuse
    /\ current < MaxGenerations
    /\ Lock("replace")
    /\ CancelRefresh(closing)
    /\ unpublished' \in 0..unpublished
    /\ UNCHANGED <<current, retired, tracked, cleaned, failed, requestVars, closer, closing, closed>>

\* commit raised: the candidate is cleaned up or kept for a later attempt.
ReplaceFails ==
    /\ lockedBy = "replace" /\ lockedBy' = "nobody"
    /\ \/ UNCHANGED unpublished
       \/ unpublished < MaxUnpublished /\ unpublished' = unpublished + 1
    /\ UNCHANGED <<current, generationVars, requestVars, refresh, closer, closing, closed>>

\* Mutant: the replaced generation is not kept for shutdown.
MutRetire(g) == retired' = retired \cup {g} /\ UNCHANGED tracked

Retire(g) == retired' = retired \cup {g} /\ tracked' = tracked \cup {g}

\* commit succeeded: publish the candidate, retire the previous generation and
\* clean it up now if nothing leases it.
ReplacePublishes ==
    /\ lockedBy = "replace"
    /\ lockedBy' = IF MayClean(current, leases[current]) THEN "replace_closes" ELSE "nobody"
    /\ current' = current + 1
    /\ Retire(current)
    /\ cleaning' = IF MayClean(current, leases[current]) THEN cleaning \cup {current} ELSE cleaning
    /\ refresh' = [generation |-> current + 1, phase |-> "created"]
    /\ UNCHANGED <<leases, drained, cleaned, failed, unpublished, requestVars, closer, closing, closed>>

\* replace awaits the previous generation's cleanup before it unlocks.
ReplaceReturns ==
    /\ lockedBy = "replace_closes" /\ lockedBy' = "nobody"
    /\ current - 1 \notin cleaning
    /\ UNCHANGED <<current, generationVars, unpublished, requestVars, refresh, closer,
                   closing, closed>>

-----------------------------------------------------------------------------
\* close

CloseBegins ==
    /\ ~closed /\ closer.stage = "idle"
    /\ Lock("close")
    /\ closing' = TRUE
    /\ CancelRefresh(TRUE)
    /\ closer' = [closer EXCEPT !.stage = "retire"]
    /\ UNCHANGED <<current, retired, tracked, cleaned, failed, unpublished, requestVars, closed>>

\* The refresh is gone; retire the current generation, unless an earlier close
\* did, and take every generation still tracked.
CloseRetires ==
    /\ closer.stage = "retire" /\ lockedBy' = "nobody"
    /\ IF current \in retired THEN UNCHANGED <<retired, tracked>> ELSE Retire(current)
    /\ closer' = [stage |-> "drain", targets |-> tracked', waits |-> tracked']
    /\ UNCHANGED <<current, leases, drained, cleaning, cleaned, failed, unpublished, requestVars,
                   refresh, closing, closed>>

\* drained.wait() of one generation returns.
CloseWaits(g) ==
    /\ closer.stage = "drain" /\ g \in closer.waits /\ g \in drained
    /\ closer' = [closer EXCEPT !.waits = @ \ {g}]
    /\ UNCHANGED <<current, generationVars, unpublished, requestVars, refresh, lockedBy,
                   closing, closed>>

\* Every generation is drained: _close_generation starts or joins its cleanup.
CloseCleans ==
    /\ closer.stage = "drain" /\ closer.waits = {}
    /\ cleaning' = cleaning \cup {g \in closer.targets : MayClean(g, leases[g])}
    /\ closer' = [closer EXCEPT !.stage = "clean"]
    /\ UNCHANGED <<current, leases, drained, retired, tracked, cleaned, failed, unpublished,
                   requestVars, refresh, lockedBy, closing, closed>>

\* The cleanups are over and the unpublished runtimes were tried again: close()
\* returns, or raises and may be called again.
CloseEnds ==
    /\ closer.stage = "clean"
    /\ closer.targets \cap cleaning = {}
    /\ unpublished' \in 0..unpublished
    /\ closed' = (closer.targets \subseteq cleaned /\ unpublished' = 0)
    /\ closer' = NoCloser
    /\ UNCHANGED <<current, generationVars, requestVars, refresh, lockedBy, closing>>

-----------------------------------------------------------------------------
RequestStep(r) == Acquire(r) \/ ReleaseLease(r) \/ ReleaseAgain(r)
RefreshStep == RefreshBegins \/ RefreshEnds
LockedStep ==
    \/ ExplicitRefreshBegins \/ ExplicitRefreshLeases \/ ExplicitRefreshEnds
    \/ AccountChangeBegins \/ AccountChangeEnds
    \/ ReplaceBegins \/ ReplaceFails \/ ReplacePublishes \/ ReplaceReturns
CloseStep ==
    \/ CloseBegins \/ CloseRetires \/ CloseCleans \/ CloseEnds
    \/ \E g \in Generations : CloseWaits(g)

Next ==
    \/ \E r \in Requests : RequestStep(r)
    \/ \E g \in Generations : CleanupEnds(g)
    \/ RefreshStep \/ LockedStep \/ CloseStep

Spec == Init /\ [][Next]_vars

-----------------------------------------------------------------------------
TypeOK ==
    /\ current \in Generations
    /\ leases \in [Generations -> Nat]
    /\ drained \subseteq Generations /\ retired \subseteq Generations
    /\ tracked \subseteq Generations
    /\ cleaning \subseteq Generations /\ cleaned \subseteq Generations
    /\ failed \subseteq Generations
    /\ unpublished \in Nat
    /\ lease \in [Requests -> Generations \cup {NoGeneration}]
    /\ released \subseteq Requests
    /\ refresh \in [generation : Generations \cup {NoGeneration},
                    phase : {"none", "created", "running"}]
    /\ lockedBy \in {"nobody", "explicit_cancel", "explicit_refresh", "account_change",
                     "replace", "replace_closes", "close"}
    /\ closer \in [stage : {"idle", "retire", "drain", "clean"},
                   targets : SUBSET Generations, waits : SUBSET Generations]
    /\ closing \in BOOLEAN /\ closed \in BOOLEAN

LeasedBy(g) == {r \in Requests : lease[r] = g /\ r \notin released}
One(b) == IF b THEN 1 ELSE 0

\* The counter counts: every lease on a generation is that of a request that
\* has not released it, of the background refresh or of an explicit refresh,
\* so repeated releases and cancelled refreshes neither lose nor leak one.
LeasesAreCounted ==
    \A g \in Generations :
        leases[g] = Cardinality(LeasedBy(g))
                    + One(refresh.phase = "running" /\ refresh.generation = g)
                    + One(lockedBy = "explicit_refresh" /\ current = g)

\* No client is closed, or being closed, under a request or refresh that leases
\* its generation.
LeasedStaysOpen == \A g \in cleaning \cup cleaned : leases[g] = 0

\* connected_provider_changed discovers models through the current runtime
\* without a lease; the lock alone keeps that runtime open.
AccountUsesOpen == lockedBy = "account_change" => current \notin cleaning \cup cleaned

\* Whoever uses a generation, with a lease or under the lock, finds it open: every lease
\* is counted, and nothing in use is closed.
UsedStaysOpen == LeasesAreCounted /\ LeasedStaysOpen /\ AccountUsesOpen

\* A background refresh runs for the current, unretired generation only, and
\* never once the manager is closing: _refresh_generation's test for a closed
\* generation cannot be true.
RefreshIsCurrent ==
    refresh.phase # "none" =>
        refresh.generation = current /\ current \notin retired /\ ~closing

\* What makes the safety invariants inductive.
Indexed ==
    /\ retired \subseteq 1..current
    /\ tracked \subseteq retired /\ closer.targets \subseteq retired
    /\ cleaning \subseteq retired /\ cleaned \subseteq retired
    /\ ~closing => current \notin retired

LockDiscipline ==
    /\ lockedBy \notin {"nobody", "close"} => ~closing
    /\ closer.stage # "idle" => closing
    /\ lockedBy = "replace" => current < MaxGenerations /\ refresh.phase = "none"
    /\ \A r \in released : lease[r] # NoGeneration

LeaseInv ==
    /\ TypeOK /\ Indexed /\ LockDiscipline
    /\ LeasesAreCounted /\ LeasedStaysOpen /\ RefreshIsCurrent

\* close() reports success only when every generation ever published is closed
\* and no unpublished candidate is left open.
CloseIsComplete == closed => 1..current \subseteq cleaned /\ unpublished = 0

\* Requests that end let shutdown complete, unless some cleanup raises.
CloseFinishes == closing ~> closed \/ failed # {} \/ unpublished # 0

\* Whoever is last to use a retired generation has its clients closed: none is
\* forgotten between its leases, its refresh, its replacement and shutdown.
RetiredCloses == \A g \in Generations : (g \in retired) ~> (g \in cleaned \cup failed)

\* Every generation that is no longer wanted is closed in the end.
UnwantedCloses == CloseFinishes /\ RetiredCloses

=============================================================================
