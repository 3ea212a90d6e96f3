--------------------- MODULE ApplicationLifecycleProofs ---------------------
(***************************************************************************)
(* ProviderGenerations, and the server of ApplicationLifecycle around it,  *)
(* for every set of requests and number of generations.                    *)
(*                                                                         *)
(* First the provider manager alone: no generation is closed while it is   *)
(* leased.  A lease is taken on the current generation only, by somebody   *)
(* who found the manager not closing; a cleanup starts on a retired        *)
(* generation without leases; and the current generation is not retired    *)
(* before the manager is closing.  Nobody gives back a lease they do not   *)
(* hold because the counter counts the holders.                            *)
(*                                                                         *)
(* Then the application runtime: it drives the manager as                  *)
(* ProviderGenerations allows, so all of this holds in the whole server;   *)
(* and its teardown, however often it fails and is begun again, closes     *)
(* nothing under its users and reports success only when nothing is left.  *)
(* The step a teardown has reached says what is over (Passed), what is no  *)
(* longer owned says what is closed (Owned), and a shutdown never gives    *)
(* way to a start again (Final).                                           *)
(***************************************************************************)
EXTENDS ApplicationLifecycle, FiniteSetTheorems, TLAPS

-----------------------------------------------------------------------------
(***************************************************************************)
(* The provider manager.                                                   *)
(***************************************************************************)
USE BoundsAreNat, RequestsAreFinite

\* TypeOK in the parts the provers take separately.
TypeGenerations ==
    /\ current \in Generations
    /\ leases \in [Generations -> Nat]
    /\ drained \subseteq Generations /\ retired \subseteq Generations
    /\ tracked \subseteq Generations
    /\ cleaning \subseteq Generations /\ cleaned \subseteq Generations
    /\ failed \subseteq Generations

TypeRequests ==
    /\ unpublished \in Nat
    /\ lease \in [Requests -> Generations \cup {NoGeneration}]
    /\ released \subseteq Requests

TypeOwners ==
    /\ refresh \in [generation : Generations \cup {NoGeneration},
                    phase : {"none", "created", "running"}]
    /\ lockedBy \in {"nobody", "explicit_cancel", "explicit_refresh", "account_change",
                     "replace", "replace_closes", "close"}
    /\ closer \in [stage : {"idle", "retire", "drain", "clean"},
                   targets : SUBSET Generations, waits : SUBSET Generations]
    /\ closing \in BOOLEAN /\ closed \in BOOLEAN

LEMMA TypeParts == TypeOK <=> TypeGenerations /\ TypeRequests /\ TypeOwners
BY DEF TypeOK, TypeGenerations, TypeRequests, TypeOwners

LEMMA TypeNext ==
  ASSUME TypeGenerations', TypeRequests', TypeOwners'
  PROVE  TypeOK'
BY DEF TypeOK, TypeGenerations, TypeRequests, TypeOwners

LEMMA NoGenerationIsNone == NoGeneration \notin Generations
BY DEF NoGeneration, Generations

-----------------------------------------------------------------------------
\* Counting the holders of a generation.

LEMMA HeldIsNat == ASSUME NEW g PROVE Cardinality(LeasedBy(g)) \in Nat
<1>1. IsFiniteSet(LeasedBy(g))
  BY FS_Subset DEF LeasedBy
<1> QED BY <1>1, FS_CardinalityType

LEMMA HeldUnchanged ==
  ASSUME UNCHANGED requestVars, NEW g
  PROVE  Cardinality(LeasedBy(g))' = Cardinality(LeasedBy(g))
BY DEF requestVars, LeasedBy

LEMMA HeldAdd ==
  ASSUME NEW g, NEW r, r \notin LeasedBy(g), LeasedBy(g)' = LeasedBy(g) \cup {r}
  PROVE  Cardinality(LeasedBy(g)') = Cardinality(LeasedBy(g)) + 1
<1>1. IsFiniteSet(LeasedBy(g))
  BY FS_Subset DEF LeasedBy
<1> QED BY <1>1, FS_AddElement

LEMMA HeldRemove ==
  ASSUME NEW g, NEW r, r \in LeasedBy(g), LeasedBy(g)' = LeasedBy(g) \ {r}
  PROVE  Cardinality(LeasedBy(g)') = Cardinality(LeasedBy(g)) - 1
<1>1. IsFiniteSet(LeasedBy(g))
  BY FS_Subset DEF LeasedBy
<1> QED BY <1>1, FS_RemoveElement

LEMMA HolderIsCounted ==
  ASSUME NEW g, NEW r \in LeasedBy(g)
  PROVE  Cardinality(LeasedBy(g)) >= 1
<1>1. IsFiniteSet(LeasedBy(g))
  BY FS_Subset DEF LeasedBy
<1>2. Cardinality(LeasedBy(g) \ {r}) = Cardinality(LeasedBy(g)) - 1
  BY <1>1, FS_RemoveElement
<1>3. Cardinality(LeasedBy(g) \ {r}) \in Nat
  BY <1>1, FS_RemoveElement, FS_CardinalityType
<1> QED BY <1>2, <1>3, HeldIsNat

-----------------------------------------------------------------------------
\* Taking a lease on the current generation closes nothing that is leased.
LEMMA LeaseOnFacts ==
  ASSUME LeaseInv, ~closing, LeaseOn(current), UNCHANGED <<cleaning, cleaned>>
  PROVE  /\ leases' \in [Generations -> Nat] /\ drained' \subseteq Generations
         /\ leases'[current] = leases[current] + 1
         /\ \A g \in Generations \ {current} : leases'[g] = leases[g]
         /\ LeasedStaysOpen'
<1>1. current \in Generations /\ leases \in [Generations -> Nat] /\ drained \subseteq Generations
      /\ cleaning \subseteq Generations /\ cleaned \subseteq Generations
  BY DEF LeaseInv, TypeOK
<1>2. current \notin cleaning \cup cleaned
  BY DEF LeaseInv, Indexed
<1>3. /\ leases' \in [Generations -> Nat]
      /\ leases'[current] = leases[current] + 1
      /\ \A g \in Generations \ {current} : leases'[g] = leases[g]
  BY <1>1 DEF LeaseOn
<1>4. drained' \subseteq Generations
  BY <1>1 DEF LeaseOn
<1>5. LeasedStaysOpen'
  BY <1>1, <1>2, <1>3 DEF LeasedStaysOpen, LeaseInv
<1> QED BY <1>3, <1>4, <1>5

\* Giving back a lease that is counted.
LEMMA ReleaseFacts ==
  ASSUME LeaseInv, NEW g \in Generations, leases[g] >= 1, NEW stopping,
         Release(g, stopping), UNCHANGED cleaned
  PROVE  /\ leases' \in [Generations -> Nat] /\ drained' \subseteq Generations
         /\ leases'[g] = leases[g] - 1
         /\ \A h \in Generations \ {g} : leases'[h] = leases[h]
         /\ cleaning' \subseteq retired /\ cleaning' \subseteq Generations
         /\ LeasedStaysOpen'
<1>1. leases \in [Generations -> Nat] /\ drained \subseteq Generations
      /\ cleaning \subseteq Generations /\ cleaned \subseteq Generations
  BY DEF LeaseInv, TypeOK
<1>2. /\ leases' \in [Generations -> Nat]
      /\ leases'[g] = leases[g] - 1
      /\ \A h \in Generations \ {g} : leases'[h] = leases[h]
  <2>1. leases[g] - 1 \in Nat
    BY <1>1
  <2> QED BY <1>1, <2>1 DEF Release
<1>3. drained' \subseteq Generations
  BY <1>1 DEF Release
<1>4. cleaning \subseteq retired
  BY DEF LeaseInv, Indexed
<1>5. g \notin cleaning \cup cleaned
  BY <1>1 DEF LeaseInv, LeasedStaysOpen
<1>6. CASE cleaning' = cleaning
  BY <1>1, <1>2, <1>3, <1>4, <1>5, <1>6 DEF LeasedStaysOpen, LeaseInv
<1>7. CASE cleaning' = cleaning \cup {g} /\ g \in retired /\ leases[g] - 1 = 0
  BY <1>1, <1>2, <1>3, <1>4, <1>5, <1>7 DEF LeasedStaysOpen, LeaseInv
<1> QED BY <1>6, <1>7 DEF Release, MayClean

LEMMA RefreshHoldsLease ==
  ASSUME LeaseInv, refresh.phase = "running"
  PROVE  refresh.generation = current /\ current \in Generations /\ leases[current] >= 1
<1>1. refresh.generation = current /\ current \in Generations
  BY DEF LeaseInv, RefreshIsCurrent, TypeOK
<1>2. Cardinality(LeasedBy(current)) \in Nat
  BY HeldIsNat
<1> QED BY <1>1, <1>2 DEF LeaseInv, LeasesAreCounted, One

-----------------------------------------------------------------------------
\* The requests' actions.

LEMMA AcquireStep ==
  ASSUME LeaseInv, NEW r \in Requests, Acquire(r)
  PROVE  LeaseInv'
<1>1. current \in Generations /\ leases \in [Generations -> Nat]
      /\ lease \in [Requests -> Generations \cup {NoGeneration}]
  BY DEF LeaseInv, TypeOK
<1>2. lease' \in [Requests -> Generations \cup {NoGeneration}]
      /\ lease'[r] = current /\ \A q \in Requests \ {r} : lease'[q] = lease[q]
  BY <1>1 DEF Acquire
<1>3. r \notin released
  BY DEF Acquire, LeaseInv, LockDiscipline
<1>4. UNCHANGED <<current, retired, tracked, cleaning, cleaned, failed, unpublished, released,
                  refresh, lockedBy, closer, closing, closed>>
  BY DEF Acquire
<1>5. /\ leases' \in [Generations -> Nat] /\ drained' \subseteq Generations
      /\ leases'[current] = leases[current] + 1
      /\ \A g \in Generations \ {current} : leases'[g] = leases[g]
      /\ LeasedStaysOpen'
  BY <1>4, LeaseOnFacts DEF Acquire
<1>6. TypeOK'
  <2>1. TypeGenerations'
    BY <1>4, <1>5, TypeParts DEF LeaseInv, TypeGenerations
  <2>2. TypeRequests'
    BY <1>2, <1>4, TypeParts DEF LeaseInv, TypeRequests
  <2>3. TypeOwners'
    BY <1>4, TypeParts DEF LeaseInv, TypeOwners
  <2> QED BY <2>1, <2>2, <2>3, TypeNext
<1>7. LeasesAreCounted'
  <2> SUFFICES ASSUME NEW g \in Generations
               PROVE  leases'[g] = Cardinality(LeasedBy(g)')
                        + One(refresh.phase = "running" /\ refresh.generation = g)
                        + One(lockedBy = "explicit_refresh" /\ current = g)
    BY <1>4 DEF LeasesAreCounted
  <2>0. Cardinality(LeasedBy(g)) \in Nat
    BY HeldIsNat
  <2>1. CASE g = current
    <3>1. r \notin LeasedBy(g) /\ LeasedBy(g)' = LeasedBy(g) \cup {r}
      BY <1>2, <1>3, <1>4, <2>1, NoGenerationIsNone DEF LeasedBy, Acquire
    <3>2. Cardinality(LeasedBy(g)') = Cardinality(LeasedBy(g)) + 1
      BY <3>1, HeldAdd
    <3> QED BY <1>5, <2>0, <2>1, <3>2 DEF LeaseInv, LeasesAreCounted, One
  <2>2. CASE g # current
    <3>1. LeasedBy(g)' = LeasedBy(g)
      BY <1>2, <1>4, <2>2, NoGenerationIsNone DEF LeasedBy, Acquire
    <3> QED BY <1>5, <2>2, <3>1 DEF LeaseInv, LeasesAreCounted
  <2> QED BY <2>1, <2>2
<1>8. Indexed' /\ RefreshIsCurrent'
  BY <1>4 DEF LeaseInv, Indexed, RefreshIsCurrent
<1>9. LockDiscipline'
  BY <1>1, <1>2, <1>3, <1>4 DEF LeaseInv, LockDiscipline, TypeOK
<1> QED BY <1>5, <1>6, <1>7, <1>8, <1>9 DEF LeaseInv

LEMMA ReleaseLeaseStep ==
  ASSUME LeaseInv, NEW r \in Requests, ReleaseLease(r)
  PROVE  LeaseInv'
<1> DEFINE h == lease[r]
<1>1. h \in Generations /\ r \in LeasedBy(h)
  BY DEF LeaseInv, TypeOK, ReleaseLease, LeasedBy
<1>2. leases[h] >= 1
  <2>1. Cardinality(LeasedBy(h)) >= 1 /\ Cardinality(LeasedBy(h)) \in Nat
    BY <1>1, HolderIsCounted, HeldIsNat
  <2> QED BY <1>1, <2>1 DEF LeaseInv, LeasesAreCounted, One
<1>3. UNCHANGED <<current, retired, tracked, cleaned, failed, unpublished, lease, refresh,
                  lockedBy, closer, closing, closed>>
      /\ released' = released \cup {r}
  BY DEF ReleaseLease
<1>4. /\ leases' \in [Generations -> Nat] /\ drained' \subseteq Generations
      /\ leases'[h] = leases[h] - 1
      /\ \A g \in Generations \ {h} : leases'[g] = leases[g]
      /\ cleaning' \subseteq retired /\ cleaning' \subseteq Generations
      /\ LeasedStaysOpen'
  <2>1. Release(h, closing)
    BY DEF ReleaseLease
  <2> HIDE DEF h
  <2> QED BY <1>1, <1>2, <1>3, <2>1, ReleaseFacts
<1>5. TypeOK'
  <2>1. TypeGenerations'
    BY <1>3, <1>4, TypeParts DEF LeaseInv, TypeGenerations
  <2>2. TypeRequests'
    BY <1>3, TypeParts DEF LeaseInv, TypeRequests
  <2>3. TypeOwners'
    BY <1>3, TypeParts DEF LeaseInv, TypeOwners
  <2> QED BY <2>1, <2>2, <2>3, TypeNext
<1>6. LeasesAreCounted'
  <2> SUFFICES ASSUME NEW g \in Generations
               PROVE  leases'[g] = Cardinality(LeasedBy(g)')
                        + One(refresh.phase = "running" /\ refresh.generation = g)
                        + One(lockedBy = "explicit_refresh" /\ current = g)
    BY <1>3 DEF LeasesAreCounted
  <2>0. Cardinality(LeasedBy(g)) \in Nat /\ leases[g] \in Nat
    BY HeldIsNat DEF LeaseInv, TypeOK
  <2>1. CASE g = h
    <3>1. LeasedBy(g)' = LeasedBy(g) \ {r}
      BY <1>3, <2>1 DEF LeasedBy
    <3>2. Cardinality(LeasedBy(g)') = Cardinality(LeasedBy(g)) - 1
      BY <1>1, <2>1, <3>1, HeldRemove
    <3> QED BY <1>4, <2>0, <2>1, <3>2 DEF LeaseInv, LeasesAreCounted, One
  <2>2. CASE g # h
    <3>1. LeasedBy(g)' = LeasedBy(g)
      BY <1>3, <2>2 DEF LeasedBy
    <3> QED BY <1>4, <2>2, <3>1 DEF LeaseInv, LeasesAreCounted
  <2> QED BY <2>1, <2>2
<1>7. Indexed' /\ RefreshIsCurrent'
  BY <1>3, <1>4 DEF LeaseInv, Indexed, RefreshIsCurrent
<1>8. LockDiscipline'
  BY <1>3 DEF LeaseInv, LockDiscipline, ReleaseLease
<1> QED BY <1>4, <1>5, <1>6, <1>7, <1>8 DEF LeaseInv

LEMMA ReleaseAgainStep ==
  ASSUME LeaseInv, NEW r \in Requests, ReleaseAgain(r)
  PROVE  LeaseInv'
<1>1. UNCHANGED <<current, generationVars, unpublished, refresh, lockedBy, closer,
                  closing, closed>>
      /\ released' = released \ {r} /\ r \in released
  BY DEF ReleaseAgain
<1>2. lease \in [Requests -> Generations \cup {NoGeneration}]
  BY DEF LeaseInv, TypeOK
<1>3. lease' \in [Requests -> Generations \cup {NoGeneration}]
      /\ lease'[r] = NoGeneration /\ \A q \in Requests \ {r} : lease'[q] = lease[q]
  BY <1>2 DEF ReleaseAgain
<1>4. TypeOK'
  <2>1. TypeGenerations'
    BY <1>1, TypeParts DEF LeaseInv, TypeGenerations, generationVars
  <2>2. TypeRequests'
    BY <1>1, <1>3, TypeParts DEF LeaseInv, TypeRequests
  <2>3. TypeOwners'
    BY <1>1, TypeParts DEF LeaseInv, TypeOwners
  <2> QED BY <2>1, <2>2, <2>3, TypeNext
<1>5. LeasesAreCounted'
  <2>1. ASSUME NEW g \in Generations PROVE LeasedBy(g)' = LeasedBy(g)
    BY <1>1, <1>3, NoGenerationIsNone DEF LeasedBy
  <2> QED BY <1>1, <2>1 DEF LeaseInv, LeasesAreCounted, generationVars
<1>6. Indexed' /\ RefreshIsCurrent' /\ LeasedStaysOpen'
  BY <1>1 DEF LeaseInv, Indexed, RefreshIsCurrent, LeasedStaysOpen, generationVars
<1>7. LockDiscipline'
  <2>1. \A q \in released' : lease'[q] # NoGeneration
    BY <1>1, <1>3 DEF LeaseInv, LockDiscipline, TypeOK
  <2> QED BY <1>1, <2>1 DEF LeaseInv, LockDiscipline
<1> QED BY <1>4, <1>5, <1>6, <1>7 DEF LeaseInv

-----------------------------------------------------------------------------
\* Cleanups, the background refresh and the operations under the lock.

LEMMA CleanupEndsStep ==
  ASSUME LeaseInv, NEW g \in Generations, CleanupEnds(g)
  PROVE  LeaseInv'
<1>1. /\ g \in cleaning /\ cleaning' = cleaning \ {g}
      /\ cleaned' \subseteq cleaned \cup {g} /\ tracked' \subseteq tracked
      /\ failed' \subseteq failed \cup {g}
      /\ UNCHANGED <<current, leases, drained, retired, unpublished, lease, released,
                     refresh, lockedBy, closer, closing, closed>>
  BY DEF CleanupEnds, requestVars
<1>2. TypeOK'
  <2>1. TypeGenerations'
    BY <1>1, TypeParts DEF LeaseInv, TypeGenerations
  <2>2. TypeRequests'
    BY <1>1, TypeParts DEF LeaseInv, TypeRequests
  <2>3. TypeOwners'
    BY <1>1, TypeParts DEF LeaseInv, TypeOwners
  <2> QED BY <2>1, <2>2, <2>3, TypeNext
<1>3. LeasesAreCounted'
  BY <1>1, HeldUnchanged DEF LeaseInv, LeasesAreCounted, requestVars
<1>4. LeasedStaysOpen' /\ Indexed'
  BY <1>1 DEF LeaseInv, Indexed, LeasedStaysOpen
<1>5. LockDiscipline' /\ RefreshIsCurrent'
  BY <1>1 DEF LeaseInv, LockDiscipline, RefreshIsCurrent
<1> QED BY <1>2, <1>3, <1>4, <1>5 DEF LeaseInv

LEMMA RefreshBeginsStep ==
  ASSUME LeaseInv, RefreshBegins
  PROVE  LeaseInv'
<1>1. UNCHANGED <<current, retired, tracked, cleaning, cleaned, failed, unpublished, lease,
                  released, lockedBy, closer, closing, closed>>
      /\ refresh' = [refresh EXCEPT !.phase = "running"] /\ refresh.phase = "created"
  BY DEF RefreshBegins, requestVars
<1>2. refresh.generation = current /\ ~closing
  BY <1>1 DEF LeaseInv, RefreshIsCurrent
<1>3. refresh \in [generation : Generations \cup {NoGeneration},
                   phase : {"none", "created", "running"}]
      /\ current \in Generations
  BY DEF LeaseInv, TypeOK
<1>4. refresh'.generation = current /\ refresh'.phase = "running"
      /\ refresh' \in [generation : Generations \cup {NoGeneration},
                       phase : {"none", "created", "running"}]
  BY <1>1, <1>2, <1>3
<1>5. /\ leases' \in [Generations -> Nat] /\ drained' \subseteq Generations
      /\ leases'[current] = leases[current] + 1
      /\ \A g \in Generations \ {current} : leases'[g] = leases[g]
      /\ LeasedStaysOpen'
  <2>1. LeaseOn(current)
    BY <1>2 DEF RefreshBegins
  <2> QED BY <1>1, <1>2, <2>1, LeaseOnFacts
<1>6. TypeOK'
  <2>1. TypeGenerations'
    BY <1>1, <1>5, TypeParts DEF LeaseInv, TypeGenerations
  <2>2. TypeRequests'
    BY <1>1, TypeParts DEF LeaseInv, TypeRequests
  <2>3. TypeOwners'
    BY <1>1, <1>4, TypeParts DEF LeaseInv, TypeOwners
  <2> QED BY <2>1, <2>2, <2>3, TypeNext
<1>7. LeasesAreCounted'
  <2> SUFFICES ASSUME NEW g \in Generations
               PROVE  leases'[g] = Cardinality(LeasedBy(g))'
                        + One(refresh.phase = "running" /\ refresh.generation = g)'
                        + One(lockedBy = "explicit_refresh" /\ current = g)'
    BY DEF LeasesAreCounted
  <2>1. Cardinality(LeasedBy(g))' = Cardinality(LeasedBy(g))
        /\ Cardinality(LeasedBy(g)) \in Nat
    BY <1>1, HeldUnchanged, HeldIsNat DEF requestVars
  <2>2. leases[g] = Cardinality(LeasedBy(g))
                      + One(lockedBy = "explicit_refresh" /\ current = g)
    BY <1>1, <2>1 DEF LeaseInv, LeasesAreCounted, One
  <2> QED BY <1>1, <1>4, <1>5, <2>1, <2>2 DEF One
<1>8. Indexed' /\ LockDiscipline'
  BY <1>1 DEF LeaseInv, Indexed, LockDiscipline
<1>9. RefreshIsCurrent'
  BY <1>1, <1>2, <1>4 DEF LeaseInv, RefreshIsCurrent
<1> QED BY <1>5, <1>6, <1>7, <1>8, <1>9 DEF LeaseInv

\* Ending or cancelling the background refresh, whatever stays of the invariant.
LEMMA RefreshGone ==
  ASSUME LeaseInv, NEW stopping, refresh' = NoRefresh,
         IF refresh.phase = "running" THEN Release(refresh.generation, stopping)
         ELSE UNCHANGED <<leases, drained, cleaning>>,
         UNCHANGED <<current, retired, tracked, cleaned, failed, requestVars>>,
         (lockedBy' = "explicit_refresh") <=> (lockedBy = "explicit_refresh")
  PROVE  /\ TypeGenerations' /\ LeasesAreCounted' /\ LeasedStaysOpen' /\ RefreshIsCurrent'
         /\ cleaning' \subseteq retired /\ refresh'.phase = "none"
         /\ refresh' \in [generation : Generations \cup {NoGeneration},
                         phase : {"none", "created", "running"}]
<1>1. refresh'.phase = "none"
      /\ refresh' \in [generation : Generations \cup {NoGeneration},
                       phase : {"none", "created", "running"}]
  BY DEF NoRefresh
<1>2. RefreshIsCurrent'
  BY <1>1 DEF RefreshIsCurrent
<1>3. ASSUME NEW g \in Generations
      PROVE  /\ Cardinality(LeasedBy(g))' = Cardinality(LeasedBy(g))
             /\ Cardinality(LeasedBy(g)) \in Nat
             /\ leases[g] = Cardinality(LeasedBy(g))
                             + One(refresh.phase = "running" /\ refresh.generation = g)
                             + One(lockedBy = "explicit_refresh" /\ current = g)
             /\ One(lockedBy = "explicit_refresh" /\ current = g)'
                  = One(lockedBy = "explicit_refresh" /\ current = g)
  BY HeldUnchanged, HeldIsNat DEF LeaseInv, LeasesAreCounted, One
<1>4. CASE refresh.phase = "running"
  <2>1. refresh.generation = current /\ current \in Generations /\ leases[current] >= 1
    BY <1>4, RefreshHoldsLease
  <2>2. /\ leases' \in [Generations -> Nat] /\ drained' \subseteq Generations
        /\ leases'[current] = leases[current] - 1
        /\ \A h \in Generations \ {current} : leases'[h] = leases[h]
        /\ cleaning' \subseteq retired /\ cleaning' \subseteq Generations
        /\ LeasedStaysOpen'
    <3>1. Release(current, stopping)
      BY <1>4, <2>1
    <3> QED BY <2>1, <3>1, ReleaseFacts
  <2>3. TypeGenerations'
    BY <2>2, TypeParts DEF LeaseInv, TypeGenerations
  <2>4. LeasesAreCounted'
    <3> SUFFICES ASSUME NEW g \in Generations
                 PROVE  leases'[g] = Cardinality(LeasedBy(g))'
                          + One(lockedBy = "explicit_refresh" /\ current = g)'
      BY <1>1, <1>3 DEF LeasesAreCounted, One
    <3> QED BY <1>3, <1>4, <2>1, <2>2 DEF One
  <2> QED BY <1>1, <1>2, <2>2, <2>3, <2>4
<1>5. CASE refresh.phase # "running"
  <2>1. UNCHANGED <<leases, drained, cleaning>>
    BY <1>5
  <2>2. TypeGenerations'
    BY <2>1, TypeParts DEF LeaseInv, TypeGenerations
  <2>3. LeasesAreCounted'
    <3> SUFFICES ASSUME NEW g \in Generations
                 PROVE  leases'[g] = Cardinality(LeasedBy(g))'
                          + One(lockedBy = "explicit_refresh" /\ current = g)'
      BY <1>1, <1>3 DEF LeasesAreCounted, One
    <3> QED BY <1>3, <1>5, <2>1 DEF One
  <2>4. LeasedStaysOpen' /\ cleaning' \subseteq retired
    BY <2>1 DEF LeaseInv, LeasedStaysOpen, Indexed
  <2> QED BY <1>1, <1>2, <2>2, <2>3, <2>4
<1> QED BY <1>4, <1>5

LEMMA RefreshEndsStep ==
  ASSUME LeaseInv, RefreshEnds
  PROVE  LeaseInv'
<1>1. UNCHANGED <<current, retired, tracked, cleaned, failed, unpublished, requestVars, lockedBy,
                  closer, closing, closed>>
  BY DEF RefreshEnds
<1>2. /\ TypeGenerations' /\ LeasesAreCounted' /\ LeasedStaysOpen' /\ RefreshIsCurrent'
      /\ cleaning' \subseteq retired /\ refresh'.phase = "none"
      /\ refresh' \in [generation : Generations \cup {NoGeneration},
                      phase : {"none", "created", "running"}]
  BY <1>1, RefreshGone DEF RefreshEnds
<1>3. TypeRequests' /\ TypeOwners'
  BY <1>1, <1>2, TypeParts DEF LeaseInv, TypeRequests, TypeOwners, requestVars
<1>4. Indexed' /\ LockDiscipline'
  BY <1>1, <1>2 DEF LeaseInv, Indexed, LockDiscipline, requestVars
<1> QED BY <1>2, <1>3, <1>4, TypeNext DEF LeaseInv

LEMMA ExplicitRefreshBeginsStep ==
  ASSUME LeaseInv, ExplicitRefreshBegins
  PROVE  LeaseInv'
<1>1. UNCHANGED <<current, retired, tracked, cleaned, failed, unpublished, requestVars, closer,
                  closing, closed>>
      /\ ~closing /\ lockedBy = "nobody" /\ lockedBy' = "explicit_cancel"
  BY DEF ExplicitRefreshBegins, Lock, Refuse
<1>2. /\ TypeGenerations' /\ LeasesAreCounted' /\ LeasedStaysOpen' /\ RefreshIsCurrent'
      /\ cleaning' \subseteq retired /\ refresh'.phase = "none"
      /\ refresh' \in [generation : Generations \cup {NoGeneration},
                      phase : {"none", "created", "running"}]
  BY <1>1, RefreshGone DEF ExplicitRefreshBegins, CancelRefresh
<1>3. TypeRequests' /\ TypeOwners'
  BY <1>1, <1>2, TypeParts DEF LeaseInv, TypeRequests, TypeOwners, requestVars
<1>4. Indexed' /\ LockDiscipline'
  BY <1>1, <1>2 DEF LeaseInv, Indexed, LockDiscipline, requestVars
<1> QED BY <1>2, <1>3, <1>4, TypeNext DEF LeaseInv

LEMMA ReplaceBeginsStep ==
  ASSUME LeaseInv, ReplaceBegins
  PROVE  LeaseInv'
<1>1. UNCHANGED <<current, retired, tracked, cleaned, failed, requestVars, closer, closing, closed>>
      /\ ~closing /\ lockedBy = "nobody" /\ lockedBy' = "replace"
      /\ current < MaxGenerations /\ unpublished' \in 0..unpublished
  BY DEF ReplaceBegins, Lock, Refuse
<1>2. /\ TypeGenerations' /\ LeasesAreCounted' /\ LeasedStaysOpen' /\ RefreshIsCurrent'
      /\ cleaning' \subseteq retired /\ refresh'.phase = "none"
      /\ refresh' \in [generation : Generations \cup {NoGeneration},
                      phase : {"none", "created", "running"}]
  BY <1>1, RefreshGone DEF ReplaceBegins, CancelRefresh
<1>3. TypeRequests'
  BY <1>1, TypeParts DEF LeaseInv, TypeRequests, requestVars
<1>4. TypeOwners'
  BY <1>1, <1>2, TypeParts DEF LeaseInv, TypeOwners
<1>5. Indexed' /\ LockDiscipline'
  BY <1>1, <1>2 DEF LeaseInv, Indexed, LockDiscipline, requestVars
<1> QED BY <1>2, <1>3, <1>4, <1>5, TypeNext DEF LeaseInv

LEMMA CloseBeginsStep ==
  ASSUME LeaseInv, CloseBegins
  PROVE  LeaseInv'
<1>1. UNCHANGED <<current, retired, tracked, cleaned, failed, unpublished, requestVars, closed>>
      /\ closing' = TRUE /\ lockedBy = "nobody" /\ lockedBy' = "close"
      /\ closer' = [closer EXCEPT !.stage = "retire"]
  BY DEF CloseBegins, Lock
<1>2. /\ TypeGenerations' /\ LeasesAreCounted' /\ LeasedStaysOpen' /\ RefreshIsCurrent'
      /\ cleaning' \subseteq retired /\ refresh'.phase = "none"
      /\ refresh' \in [generation : Generations \cup {NoGeneration},
                      phase : {"none", "created", "running"}]
  BY <1>1, RefreshGone DEF CloseBegins, CancelRefresh
<1>3. TypeRequests'
  BY <1>1, TypeParts DEF LeaseInv, TypeRequests, requestVars
<1>4. closer' \in [stage : {"idle", "retire", "drain", "clean"},
                  targets : SUBSET Generations, waits : SUBSET Generations]
      /\ closer'.targets = closer.targets
  BY <1>1 DEF LeaseInv, TypeOK
<1>5. TypeOwners'
  BY <1>1, <1>2, <1>4, TypeParts DEF LeaseInv, TypeOwners
<1>6. Indexed' /\ LockDiscipline'
  BY <1>1, <1>2, <1>4 DEF LeaseInv, Indexed, LockDiscipline, requestVars
<1> QED BY <1>2, <1>3, <1>5, <1>6, TypeNext DEF LeaseInv

LEMMA ExplicitRefreshLeasesStep ==
  ASSUME LeaseInv, ExplicitRefreshLeases
  PROVE  LeaseInv'
<1>1. UNCHANGED <<current, retired, tracked, cleaning, cleaned, failed, unpublished, requestVars,
                  refresh, closer, closing, closed>>
      /\ lockedBy = "explicit_cancel" /\ lockedBy' = "explicit_refresh"
  BY DEF ExplicitRefreshLeases
<1>2. ~closing
  BY <1>1 DEF LeaseInv, LockDiscipline
<1>3. /\ leases' \in [Generations -> Nat] /\ drained' \subseteq Generations
      /\ leases'[current] = leases[current] + 1
      /\ \A g \in Generations \ {current} : leases'[g] = leases[g]
      /\ LeasedStaysOpen'
  BY <1>1, <1>2, LeaseOnFacts DEF ExplicitRefreshLeases
<1>4. TypeOK'
  <2>1. TypeGenerations'
    BY <1>1, <1>3, TypeParts DEF LeaseInv, TypeGenerations
  <2>2. TypeRequests' /\ TypeOwners'
    BY <1>1, TypeParts DEF LeaseInv, TypeRequests, TypeOwners, requestVars
  <2> QED BY <2>1, <2>2, TypeNext
<1>5. LeasesAreCounted'
  <2> SUFFICES ASSUME NEW g \in Generations
               PROVE  leases'[g] = Cardinality(LeasedBy(g))'
                        + One(refresh.phase = "running" /\ refresh.generation = g)'
                        + One(lockedBy = "explicit_refresh" /\ current = g)'
    BY DEF LeasesAreCounted
  <2>1. Cardinality(LeasedBy(g))' = Cardinality(LeasedBy(g))
        /\ Cardinality(LeasedBy(g)) \in Nat
    BY <1>1, HeldUnchanged, HeldIsNat
  <2>2. leases[g] = Cardinality(LeasedBy(g))
                      + One(refresh.phase = "running" /\ refresh.generation = g)
    BY <1>1, <2>1 DEF LeaseInv, LeasesAreCounted, One
  <2> QED BY <1>1, <1>3, <2>1, <2>2 DEF One
<1>6. Indexed' /\ LockDiscipline' /\ RefreshIsCurrent'
  BY <1>1, <1>2 DEF LeaseInv, Indexed, LockDiscipline, RefreshIsCurrent, requestVars
<1> QED BY <1>3, <1>4, <1>5, <1>6 DEF LeaseInv

LEMMA ExplicitRefreshEndsStep ==
  ASSUME LeaseInv, ExplicitRefreshEnds
  PROVE  LeaseInv'
<1>1. UNCHANGED <<current, retired, tracked, cleaned, failed, unpublished, requestVars, refresh,
                  closer, closing, closed>>
      /\ lockedBy = "explicit_refresh" /\ lockedBy' = "nobody"
  BY DEF ExplicitRefreshEnds
<1>2. ASSUME NEW g \in Generations
      PROVE  /\ Cardinality(LeasedBy(g))' = Cardinality(LeasedBy(g))
             /\ Cardinality(LeasedBy(g)) \in Nat
             /\ leases[g] = Cardinality(LeasedBy(g))
                             + One(refresh.phase = "running" /\ refresh.generation = g)
                             + One(current = g)
  <2>1. Cardinality(LeasedBy(g))' = Cardinality(LeasedBy(g))
        /\ Cardinality(LeasedBy(g)) \in Nat
    BY <1>1, HeldUnchanged, HeldIsNat
  <2> QED BY <1>1, <2>1 DEF LeaseInv, LeasesAreCounted, One
<1>3. current \in Generations /\ leases[current] >= 1
  <2>1. current \in Generations
    BY DEF LeaseInv, TypeOK
  <2> QED BY <1>2, <2>1 DEF One
<1>4. /\ leases' \in [Generations -> Nat] /\ drained' \subseteq Generations
      /\ leases'[current] = leases[current] - 1
      /\ \A h \in Generations \ {current} : leases'[h] = leases[h]
      /\ cleaning' \subseteq retired /\ cleaning' \subseteq Generations
      /\ LeasedStaysOpen'
  BY <1>1, <1>3, ReleaseFacts DEF ExplicitRefreshEnds
<1>5. TypeOK'
  <2>1. TypeGenerations'
    BY <1>1, <1>4, TypeParts DEF LeaseInv, TypeGenerations
  <2>2. TypeRequests' /\ TypeOwners'
    BY <1>1, TypeParts DEF LeaseInv, TypeRequests, TypeOwners, requestVars
  <2> QED BY <2>1, <2>2, TypeNext
<1>6. LeasesAreCounted'
  <2> SUFFICES ASSUME NEW g \in Generations
               PROVE  leases'[g] = Cardinality(LeasedBy(g))'
                        + One(refresh.phase = "running" /\ refresh.generation = g)'
                        + One(lockedBy = "explicit_refresh" /\ current = g)'
    BY DEF LeasesAreCounted
  <2> QED BY <1>1, <1>2, <1>3, <1>4 DEF One
<1>7. Indexed' /\ LockDiscipline' /\ RefreshIsCurrent'
  BY <1>1, <1>4 DEF LeaseInv, Indexed, LockDiscipline, RefreshIsCurrent, requestVars
<1> QED BY <1>4, <1>5, <1>6, <1>7 DEF LeaseInv

\* Actions that only pass the lock on, and perhaps count unpublished runtimes.
LEMMA LockPasses ==
  ASSUME LeaseInv,
         UNCHANGED <<current, generationVars, requestVars, refresh, closer, closing, closed>>,
         unpublished' \in Nat,
         lockedBy # "explicit_refresh",
         lockedBy' = "nobody" \/ (lockedBy' = "account_change" /\ ~closing)
  PROVE  LeaseInv'
<1>1. TypeOK'
  <2>1. TypeGenerations'
    BY TypeParts DEF LeaseInv, TypeGenerations, generationVars
  <2>2. TypeRequests'
    BY TypeParts DEF LeaseInv, TypeRequests, requestVars
  <2>3. TypeOwners'
    BY TypeParts DEF LeaseInv, TypeOwners
  <2> QED BY <2>1, <2>2, <2>3, TypeNext
<1>2. LeasesAreCounted'
  BY HeldUnchanged DEF LeaseInv, LeasesAreCounted, One, generationVars
<1>3. Indexed' /\ RefreshIsCurrent' /\ LeasedStaysOpen'
  BY DEF LeaseInv, Indexed, RefreshIsCurrent, LeasedStaysOpen, generationVars
<1>4. LockDiscipline'
  BY DEF LeaseInv, LockDiscipline, requestVars
<1> QED BY <1>1, <1>2, <1>3, <1>4 DEF LeaseInv

LEMMA ReplacePublishesStep ==
  ASSUME LeaseInv, ReplacePublishes
  PROVE  LeaseInv'
<1>1. /\ current \in Generations /\ current < MaxGenerations /\ ~closing
      /\ lockedBy = "replace" /\ lockedBy' \in {"replace_closes", "nobody"}
      /\ current' = current + 1 /\ current' \in Generations
      /\ retired' = retired \cup {current} /\ tracked' = tracked \cup {current}
      /\ cleaning' = cleaning \/ (cleaning' = cleaning \cup {current} /\ leases[current] = 0)
      /\ refresh' = [generation |-> current + 1, phase |-> "created"]
      /\ UNCHANGED <<leases, drained, cleaned, failed, unpublished, requestVars, closer, closing, closed>>
  BY DEF ReplacePublishes, Retire, MayClean, LeaseInv, LockDiscipline, TypeOK, Generations
<1>2. refresh.phase # "running"
  BY <1>1 DEF LeaseInv, LockDiscipline
<1>3. TypeOK'
  <2>1. TypeGenerations'
    BY <1>1, TypeParts DEF LeaseInv, TypeGenerations
  <2>2. TypeRequests'
    BY <1>1, TypeParts DEF LeaseInv, TypeRequests, requestVars
  <2>3. TypeOwners'
    BY <1>1, TypeParts DEF LeaseInv, TypeOwners
  <2> QED BY <2>1, <2>2, <2>3, TypeNext
<1>4. LeasesAreCounted'
  BY <1>1, <1>2, HeldUnchanged DEF LeaseInv, LeasesAreCounted, One
<1>5. LeasedStaysOpen'
  BY <1>1 DEF LeaseInv, LeasedStaysOpen
<1>6. Indexed'
  <2>1. retired' \subseteq 1..current' /\ current' \notin retired'
    BY <1>1 DEF LeaseInv, Indexed, Generations
  <2>2. tracked' \subseteq retired' /\ closer'.targets \subseteq retired'
        /\ cleaning' \subseteq retired' /\ cleaned' \subseteq retired'
    BY <1>1 DEF LeaseInv, Indexed
  <2> QED BY <2>1, <2>2 DEF Indexed
<1>7. LockDiscipline'
  BY <1>1 DEF LeaseInv, LockDiscipline, requestVars
<1>8. RefreshIsCurrent'
  BY <1>1, <1>6 DEF RefreshIsCurrent, Indexed
<1> QED BY <1>3, <1>4, <1>5, <1>6, <1>7, <1>8 DEF LeaseInv

-----------------------------------------------------------------------------
\* Shutdown.

LEMMA CloseRetiresStep ==
  ASSUME LeaseInv, CloseRetires
  PROVE  LeaseInv'
<1>1. /\ current \in Generations /\ closing
      /\ retired' \subseteq retired \cup {current} /\ retired \subseteq retired'
      /\ tracked' \subseteq tracked \cup {current} /\ tracked' \subseteq retired'
      /\ closer' = [stage |-> "drain", targets |-> tracked', waits |-> tracked']
      /\ lockedBy' = "nobody"
      /\ UNCHANGED <<current, leases, drained, cleaning, cleaned, failed, unpublished, requestVars,
                     refresh, closing, closed>>
  <2>1. current \in Generations /\ closing /\ tracked \subseteq retired
    BY DEF CloseRetires, LeaseInv, LockDiscipline, TypeOK, Indexed
  <2> QED BY <2>1 DEF CloseRetires, Retire
<1>2. refresh.phase = "none"
  BY <1>1 DEF LeaseInv, RefreshIsCurrent, TypeOK
<1>3. tracked' \subseteq Generations /\ retired' \subseteq Generations
  BY <1>1 DEF LeaseInv, TypeOK
<1>4. TypeOK'
  <2>1. TypeGenerations'
    BY <1>1, <1>3, TypeParts DEF LeaseInv, TypeGenerations
  <2>2. TypeRequests'
    BY <1>1, TypeParts DEF LeaseInv, TypeRequests, requestVars
  <2>3. TypeOwners'
    BY <1>1, <1>3, TypeParts DEF LeaseInv, TypeOwners
  <2> QED BY <2>1, <2>2, <2>3, TypeNext
<1>5. lockedBy \in {"nobody", "close"}
  BY <1>1 DEF LeaseInv, LockDiscipline
<1>6. LeasesAreCounted'
  BY <1>1, <1>5, HeldUnchanged DEF LeaseInv, LeasesAreCounted, One
<1>7. LeasedStaysOpen' /\ RefreshIsCurrent'
  BY <1>1, <1>2 DEF LeaseInv, LeasedStaysOpen, RefreshIsCurrent
<1>8. Indexed'
  <2>1. retired' \subseteq 1..current'
    BY <1>1 DEF LeaseInv, Indexed, Generations
  <2> QED BY <1>1, <2>1 DEF LeaseInv, Indexed
<1>9. LockDiscipline'
  BY <1>1 DEF LeaseInv, LockDiscipline, requestVars
<1> QED BY <1>4, <1>6, <1>7, <1>8, <1>9 DEF LeaseInv

LEMMA CloseWaitsStep ==
  ASSUME LeaseInv, NEW g \in Generations, CloseWaits(g)
  PROVE  LeaseInv'
<1>1. /\ closer' \in [stage : {"idle", "retire", "drain", "clean"},
                     targets : SUBSET Generations, waits : SUBSET Generations]
      /\ closer'.targets = closer.targets /\ closer'.stage = closer.stage
      /\ UNCHANGED <<current, generationVars, unpublished, requestVars, refresh, lockedBy,
                     closing, closed>>
  BY DEF CloseWaits, LeaseInv, TypeOK
<1>2. TypeOK'
  <2>1. TypeGenerations'
    BY <1>1, TypeParts DEF LeaseInv, TypeGenerations, generationVars
  <2>2. TypeRequests'
    BY <1>1, TypeParts DEF LeaseInv, TypeRequests, requestVars
  <2>3. TypeOwners'
    BY <1>1, TypeParts DEF LeaseInv, TypeOwners
  <2> QED BY <2>1, <2>2, <2>3, TypeNext
<1>3. LeasesAreCounted'
  BY <1>1, HeldUnchanged DEF LeaseInv, LeasesAreCounted, generationVars
<1>4. LeasedStaysOpen' /\ RefreshIsCurrent' /\ Indexed'
  BY <1>1 DEF LeaseInv, LeasedStaysOpen, RefreshIsCurrent, Indexed, generationVars
<1>5. LockDiscipline'
  BY <1>1 DEF LeaseInv, LockDiscipline, requestVars
<1> QED BY <1>2, <1>3, <1>4, <1>5 DEF LeaseInv

LEMMA CloseCleansStep ==
  ASSUME LeaseInv, CloseCleans
  PROVE  LeaseInv'
<1>1. /\ closer' \in [stage : {"idle", "retire", "drain", "clean"},
                     targets : SUBSET Generations, waits : SUBSET Generations]
      /\ closer'.targets = closer.targets /\ closing
      /\ cleaning' = cleaning \cup {g \in closer.targets : MayClean(g, leases[g])}
      /\ closer.targets \subseteq Generations /\ closer.targets \subseteq retired
      /\ UNCHANGED <<current, leases, drained, retired, tracked, cleaned, failed, unpublished,
                     requestVars, refresh, lockedBy, closing, closed>>
  BY DEF CloseCleans, LeaseInv, TypeOK, Indexed, LockDiscipline
<1>2. TypeOK'
  <2>1. TypeGenerations'
    BY <1>1, TypeParts DEF LeaseInv, TypeGenerations
  <2>2. TypeRequests'
    BY <1>1, TypeParts DEF LeaseInv, TypeRequests, requestVars
  <2>3. TypeOwners'
    BY <1>1, TypeParts DEF LeaseInv, TypeOwners
  <2> QED BY <2>1, <2>2, <2>3, TypeNext
<1>3. LeasesAreCounted'
  BY <1>1, HeldUnchanged DEF LeaseInv, LeasesAreCounted
<1>4. LeasedStaysOpen' /\ RefreshIsCurrent' /\ Indexed'
  BY <1>1 DEF LeaseInv, LeasedStaysOpen, RefreshIsCurrent, Indexed, MayClean
<1>5. LockDiscipline'
  BY <1>1 DEF LeaseInv, LockDiscipline, requestVars
<1> QED BY <1>2, <1>3, <1>4, <1>5 DEF LeaseInv

LEMMA CloseEndsStep ==
  ASSUME LeaseInv, CloseEnds
  PROVE  LeaseInv'
<1>1. /\ closer' = NoCloser /\ closed' \in BOOLEAN /\ unpublished' \in Nat
      /\ UNCHANGED <<current, generationVars, requestVars, refresh, lockedBy, closing>>
  BY DEF CloseEnds, LeaseInv, TypeOK
<1>2. TypeOK'
  <2>1. TypeGenerations'
    BY <1>1, TypeParts DEF LeaseInv, TypeGenerations, generationVars
  <2>2. TypeRequests'
    BY <1>1, TypeParts DEF LeaseInv, TypeRequests, requestVars
  <2>3. TypeOwners'
    BY <1>1, TypeParts DEF LeaseInv, TypeOwners, NoCloser
  <2> QED BY <2>1, <2>2, <2>3, TypeNext
<1>3. LeasesAreCounted'
  BY <1>1, HeldUnchanged DEF LeaseInv, LeasesAreCounted, generationVars
<1>4. LeasedStaysOpen' /\ RefreshIsCurrent' /\ Indexed'
  BY <1>1 DEF LeaseInv, LeasedStaysOpen, RefreshIsCurrent, Indexed, generationVars, NoCloser
<1>5. LockDiscipline'
  BY <1>1 DEF LeaseInv, LockDiscipline, requestVars, NoCloser
<1> QED BY <1>2, <1>3, <1>4, <1>5 DEF LeaseInv

-----------------------------------------------------------------------------
LEMMA InitLeaseInv == Init => LeaseInv
<1> SUFFICES ASSUME Init PROVE LeaseInv
  OBVIOUS
<1>1. 1 \in Generations /\ \A g \in Generations : LeasedBy(g) = {}
  BY NoGenerationIsNone DEF Generations, LeasedBy, Init
<1>2. TypeOK
  <2>1. TypeGenerations
    BY <1>1 DEF Init, TypeGenerations
  <2>2. TypeRequests
    BY DEF Init, TypeRequests
  <2>3. TypeOwners
    BY <1>1 DEF Init, TypeOwners, NoCloser
  <2> QED BY <2>1, <2>2, <2>3, TypeParts
<1>3. LeasesAreCounted
  BY <1>1, FS_EmptySet DEF Init, LeasesAreCounted, One
<1>4. LeasedStaysOpen /\ RefreshIsCurrent /\ Indexed /\ LockDiscipline
  BY DEF Init, LeasedStaysOpen, RefreshIsCurrent, Indexed, LockDiscipline, NoCloser
<1> QED BY <1>2, <1>3, <1>4 DEF LeaseInv

LEMMA StepLeaseInv == LeaseInv /\ [Next]_vars => LeaseInv'
<1> SUFFICES ASSUME LeaseInv, [Next]_vars PROVE LeaseInv'
  OBVIOUS
<1>1. ASSUME NEW r \in Requests, RequestStep(r) PROVE LeaseInv'
  BY <1>1, AcquireStep, ReleaseLeaseStep, ReleaseAgainStep DEF RequestStep
<1>2. ASSUME NEW g \in Generations, CleanupEnds(g) PROVE LeaseInv'
  BY <1>2, CleanupEndsStep
<1>3. CASE RefreshStep
  BY <1>3, RefreshBeginsStep, RefreshEndsStep DEF RefreshStep
<1>4. CASE LockedStep
  <2>1. CASE AccountChangeBegins
    BY <2>1, LockPasses DEF AccountChangeBegins, Lock, Refuse, LeaseInv, TypeOK
  <2>2. CASE AccountChangeEnds
    BY <2>2, LockPasses DEF AccountChangeEnds, LeaseInv, TypeOK
  <2>3. CASE ReplaceFails
    BY <2>3, LockPasses DEF ReplaceFails, LeaseInv, TypeOK
  <2>4. CASE ReplaceReturns
    BY <2>4, LockPasses DEF ReplaceReturns, LeaseInv, TypeOK
  <2> QED BY <1>4, <2>1, <2>2, <2>3, <2>4, ExplicitRefreshBeginsStep,
             ExplicitRefreshLeasesStep, ExplicitRefreshEndsStep, ReplaceBeginsStep,
             ReplacePublishesStep DEF LockedStep
<1>5. CASE CloseStep
  BY <1>5, CloseBeginsStep, CloseRetiresStep, CloseWaitsStep, CloseCleansStep,
     CloseEndsStep DEF CloseStep
<1>6. CASE UNCHANGED vars
  <2>1. TypeOK'
    BY <1>6 DEF LeaseInv, TypeOK, vars, generationVars, requestVars
  <2>2. LeasesAreCounted'
    BY <1>6, HeldUnchanged DEF LeaseInv, LeasesAreCounted, vars, generationVars
  <2>3. LeasedStaysOpen' /\ RefreshIsCurrent' /\ Indexed' /\ LockDiscipline'
    BY <1>6 DEF LeaseInv, LeasedStaysOpen, RefreshIsCurrent, Indexed, LockDiscipline, vars,
                generationVars, requestVars
  <2> QED BY <2>1, <2>2, <2>3 DEF LeaseInv
<1> QED BY <1>1, <1>2, <1>3, <1>4, <1>5, <1>6 DEF Next

\* The inductive invariant: who may lease, what may be cleaned up, and the count.
THEOREM LeaseInvariant == Spec => []LeaseInv
BY InitLeaseInv, StepLeaseInv, PTL DEF Spec

\* Every lease is counted, no provider client is closed or being closed while a request
\* or a refresh leases its generation, and the runtime connected_provider_changed uses
\* without a lease stays open.
THEOREM NothingInUseIsClosed == Spec => []UsedStaysOpen
<1>1. LeaseInv => LeasesAreCounted /\ LeasedStaysOpen
  BY DEF LeaseInv
<1>2. LeaseInv => AccountUsesOpen
  BY DEF LeaseInv, LockDiscipline, Indexed, AccountUsesOpen
<1>3. LeaseInv => UsedStaysOpen
  BY <1>1, <1>2 DEF UsedStaysOpen
<1> QED BY <1>3, LeaseInvariant, PTL

\* The background refresh never runs for a retired generation.
THEOREM RefreshStaysCurrent == Spec => []RefreshIsCurrent
<1>1. LeaseInv => RefreshIsCurrent
  BY DEF LeaseInv
<1> QED BY <1>1, LeaseInvariant, PTL

\* Every state is well typed.
THEOREM GenerationsTypeCorrect == Spec => []TypeOK
<1>1. LeaseInv => TypeOK
  BY DEF LeaseInv
<1> QED BY <1>1, LeaseInvariant, PTL

-----------------------------------------------------------------------------
(***************************************************************************)
(* Shutdown is complete: a retired generation stays tracked until it is    *)
(* closed, and close() takes everything that is tracked after it has       *)
(* retired the current generation, which then stays the current one.       *)
(***************************************************************************)
ShutdownInv ==
    /\ retired \subseteq tracked \cup cleaned
    /\ \A g \in 1..current : g # current => g \in retired
    /\ closer.stage \in {"drain", "clean"} => 1..current \subseteq closer.targets \cup cleaned
    /\ closed => closing
    /\ CloseIsComplete

LEMMA ShutdownIsFar ==
  ASSUME ShutdownInv,
         UNCHANGED <<current, retired, tracked, cleaned, closer, closing, closed>>,
         unpublished' = unpublished \/ ~closing
  PROVE  ShutdownInv'
BY DEF ShutdownInv, CloseIsComplete

LEMMA CleanupKeepsShutdown ==
  ASSUME ShutdownInv, NEW g \in Generations, CleanupEnds(g)
  PROVE  ShutdownInv'
<1>1. /\ cleaned \subseteq cleaned' /\ tracked \cup cleaned \subseteq tracked' \cup cleaned'
      /\ UNCHANGED <<current, retired, unpublished, closer, closing, closed>>
  BY DEF CleanupEnds
<1> QED BY <1>1 DEF ShutdownInv, CloseIsComplete

LEMMA PublishKeepsShutdown ==
  ASSUME LeaseInv, ShutdownInv, ReplacePublishes
  PROVE  ShutdownInv'
<1>1. current \in Nat /\ ~closing /\ closer.stage = "idle"
  BY DEF ReplacePublishes, LeaseInv, LockDiscipline, TypeOK, Generations
<1>2. /\ current' = current + 1
      /\ retired' = retired \cup {current} /\ tracked' = tracked \cup {current}
      /\ UNCHANGED <<cleaned, unpublished, closer, closing, closed>>
  BY DEF ReplacePublishes, Retire
<1>3. ASSUME NEW g \in 1..current', g # current' PROVE g \in retired'
  <2>1. g \in 1..current
    BY <1>1, <1>2, <1>3
  <2> QED BY <1>2, <2>1 DEF ShutdownInv
<1> QED BY <1>1, <1>2, <1>3 DEF ShutdownInv, CloseIsComplete

LEMMA CloseKeepsShutdown ==
  ASSUME LeaseInv, ShutdownInv, CloseStep
  PROVE  ShutdownInv'
<1>1. CASE CloseBegins
  BY <1>1 DEF CloseBegins, ShutdownInv, CloseIsComplete
<1>2. CASE CloseRetires
  <2>1. closing
    BY <1>2 DEF CloseRetires, LeaseInv, LockDiscipline
  <2>2. /\ retired \subseteq retired' /\ current \in retired'
        /\ retired' \subseteq tracked' \cup cleaned
        /\ closer'.targets = tracked'
        /\ UNCHANGED <<current, cleaned, unpublished, closing, closed>>
    BY <1>2 DEF CloseRetires, Retire, ShutdownInv
  <2>3. 1..current \subseteq retired'
    BY <2>2 DEF ShutdownInv
  <2> QED BY <2>1, <2>2, <2>3 DEF ShutdownInv, CloseIsComplete
<1>3. CASE CloseCleans \/ \E g \in Generations : CloseWaits(g)
  <2>1. /\ closer'.targets = closer.targets /\ closer.stage = "drain"
        /\ UNCHANGED <<current, retired, tracked, cleaned, unpublished, closing, closed>>
    BY <1>3 DEF CloseCleans, CloseWaits, LeaseInv, TypeOK, generationVars
  <2> QED BY <2>1 DEF ShutdownInv, CloseIsComplete
<1>4. CASE CloseEnds
  <2>1. /\ closer'.stage = "idle" /\ closing /\ closer.stage = "clean"
        /\ closed' => closer.targets \subseteq cleaned /\ unpublished' = 0
        /\ UNCHANGED <<current, retired, tracked, cleaned, closing>>
    BY <1>4 DEF CloseEnds, NoCloser, LeaseInv, LockDiscipline, generationVars
  <2> QED BY <2>1 DEF ShutdownInv, CloseIsComplete
<1> QED BY <1>1, <1>2, <1>3, <1>4 DEF CloseStep

LEMMA StepShutdownInv ==
  LeaseInv /\ ShutdownInv /\ [Next]_vars => ShutdownInv'
<1> SUFFICES ASSUME LeaseInv, ShutdownInv, [Next]_vars PROVE ShutdownInv'
  OBVIOUS
<1>1. ASSUME NEW r \in Requests, RequestStep(r) PROVE ShutdownInv'
  BY <1>1, ShutdownIsFar DEF RequestStep, Acquire, ReleaseLease, ReleaseAgain, generationVars
<1>2. CASE RefreshStep
  BY <1>2, ShutdownIsFar DEF RefreshStep, RefreshBegins, RefreshEnds
<1>3. CASE LockedStep /\ ~ReplacePublishes
  <2>1. CASE ReplaceFails
    <3>1. ~closing
      BY <2>1 DEF ReplaceFails, LeaseInv, LockDiscipline
    <3> QED BY <2>1, <3>1, ShutdownIsFar DEF ReplaceFails, generationVars
  <2>2. CASE ReplaceBegins
    BY <2>2, ShutdownIsFar DEF ReplaceBegins, Refuse
  <2> QED BY <1>3, <2>1, <2>2, ShutdownIsFar DEF LockedStep, ExplicitRefreshBegins,
             ExplicitRefreshLeases, ExplicitRefreshEnds, AccountChangeBegins,
             AccountChangeEnds, ReplaceReturns, generationVars
<1>4. CASE UNCHANGED vars
  BY <1>4, ShutdownIsFar DEF vars, generationVars
<1> QED BY <1>1, <1>2, <1>3, <1>4, CleanupKeepsShutdown, PublishKeepsShutdown,
           CloseKeepsShutdown DEF Next, LockedStep

\* close() reports success only when every generation ever published is closed
\* and no unpublished candidate is left.
THEOREM ShutdownIsComplete == Spec => []CloseIsComplete
<1>1. Init => ShutdownInv
  <2>1. \A g \in 1..1 : g = 1
    OBVIOUS
  <2> QED BY <2>1 DEF Init, ShutdownInv, CloseIsComplete, NoCloser
<1>2. ShutdownInv => CloseIsComplete
  BY DEF ShutdownInv
<1> QED BY <1>1, <1>2, LeaseInvariant, StepShutdownInv, PTL DEF Spec

-----------------------------------------------------------------------------
(***************************************************************************)
(* The application runtime.                                                *)
(***************************************************************************)
\* The steps of the runtime are steps of the manager, or leave it alone.
LEMMA StepOfManager == AppNext => [Next]_vars
<1> SUFFICES ASSUME AppNext PROVE [Next]_vars
  OBVIOUS
<1>1. CASE ManagerStep
  BY <1>1 DEF ManagerStep, Next, RequestStep, LockedStep
<1>2. CASE ApplyBegins \/ ApplyStops \/ ApplyStep
  BY <1>2 DEF ApplyBegins, ApplyStops, ApplyStep, ApplyIsPrepared, ApplyReplaces, SaveFails,
     Saves, ApplyPublishes, ApplyReturns, Shared, Next, LockedStep
<1>3. CASE TeardownBegins \/ CloseReturns \/ TeardownStep
  BY <1>3 DEF TeardownBegins, CloseReturns, TeardownStep, PartIsSkipped, PartCloses, PartFails,
     ProvidersClose, Shared, Next
<1>4. CASE MessageArrives \/ CodeTurnBegins \/ WorkEnds
  BY <1>4 DEF MessageArrives, CodeTurnBegins, WorkEnds, HandlerEnds, TurnEnds, CodeTurnEnds,
     Works, Shared
<1>5. CASE BeginShutdown \/ StartStep \/ StartIsCancelled
  BY <1>5 DEF BeginShutdown, StartStep, StartIsCancelled, Start, Initialized, Warmed, CodeStarts,
     PlatformIsBuilt, PlatformConnects, PlatformNotifies, StartFinishes, Starts, Shared
<1> QED BY <1>1, <1>2, <1>3, <1>4, <1>5 DEF AppNext

\* The server with everything around the provider manager implements the manager's
\* specification: its own proofs need not assume who calls it when.
THEOREM LifecycleDrivesGenerations == AppSpec => Spec
<1>1. AppInit => Init
  BY DEF AppInit
<1>2. [AppNext]_allVars => [Next]_vars
  BY StepOfManager DEF allVars
<1> QED BY <1>1, <1>2, PTL DEF AppSpec, Spec

-----------------------------------------------------------------------------
Early == {"no", "initialize", "warm", "code", "build"}
Over == {"no", "closing", "up", "failed"}
Platform == {"runtime", "workflow"}

Typed ==
    /\ step \in 0..8
    /\ owned \subseteq {"runtime", "workflow", "sessions", "transcriber", "providers", "accounts"}
    /\ open \subseteq {"ingress", "delivery", "code", "transcriber", "accounts"}
    /\ busy \subseteq {"handler", "turn", "code"}
    /\ step > 0 /\ ~ByStart => draining /\ starting \in Over /\ config = "idle"
    /\ step > 0 /\ ByStart => step \in 2..4
    /\ config # "idle" => starting = "up"

\* Before the platform is connected there is no messaging to close.
NotYet ==
    /\ starting \in Early \cup {"connect"} => "ingress" \notin open /\ busy = {}
    /\ starting \in Early => owned \cap {"runtime", "workflow", "sessions"} = {}
    /\ starting = "connect" => Platform \subseteq owned

\* Messaging at work has what it needs, and the runtime knows about it.
AtWork ==
    /\ "ingress" \in open => {"delivery", "transcriber"} \subseteq open /\ Platform \subseteq owned
    /\ "handler" \in busy => {"delivery", "transcriber"} \subseteq open /\ Platform \subseteq owned
    /\ "turn" \in busy => "delivery" \in open /\ Platform \subseteq owned

\* What the step of a teardown has left behind.
Passed ==
    /\ step >= 3 => "ingress" \notin open /\ "handler" \notin busy
    /\ step >= 4 => "turn" \notin busy /\ owned \cap {"workflow", "sessions"} = {}
    /\ step >= 5 => "runtime" \notin owned
    /\ step >= 6 => "code" \notin busy \cup open
    /\ step >= 7 => "transcriber" \notin owned
    /\ step = 8 => "providers" \notin owned

\* What is no longer owned is closed.
Owned ==
    /\ "runtime" \notin owned => "delivery" \notin open
    /\ "transcriber" \notin owned => "transcriber" \notin open
    /\ "providers" \notin owned => closed
    /\ "accounts" \notin owned => "accounts" \notin open
    /\ closed => closer.stage = "idle"

\* Nothing is started again behind a shutdown.
Final ==
    /\ "transcriber" \notin open => draining /\ starting \in Over
    /\ closing => draining /\ starting \in Over /\ busy = {} /\ "ingress" \notin open
    /\ "accounts" \notin open => closed
    /\ shut => /\ owned = {} /\ open = {} /\ busy = {} /\ config = "idle"
               /\ draining /\ starting \in Over

UserInv == Typed /\ NotYet /\ AtWork /\ Passed /\ Owned /\ Final

LEMMA UserInvIsEnough == UserInv => UsersComeFirst
BY DEF UserInv, AtWork, Final, UsersComeFirst

\* The parts by their number.
LEMMA PartNames ==
    /\ Parts[1] = "picker" /\ Parts[2] = "quiesce" /\ Parts[3] = "workflow"
    /\ Parts[4] = "delivery" /\ Parts[5] = "code" /\ Parts[6] = "transcriber"
    /\ Parts[7] = "providers" /\ Parts[8] = "accounts" /\ Len(Parts) = 8
BY DEF Parts

LEMMA InitUserInv == AppInit => UserInv
BY DEF AppInit, Init, UserInv, Typed, NotYet, AtWork, Passed, Owned, Final, ByStart, Early, Over,
   Platform, NoCloser

-----------------------------------------------------------------------------
\* Where the teardown may stand after a part is over.
LEMMA AdvanceSteps ==
  ASSUME Typed, step > 0, Advance
  PROVE  \/ /\ step' = step + 1 /\ shut' = shut /\ starting' = starting
            /\ (ByStart /\ step \in 2..3) \/ (~ByStart /\ step \in 1..7)
         \/ step = 4 /\ ByStart /\ step' = 0 /\ ~shut' /\ starting' = "finish"
         \/ /\ step = 8 /\ ~ByStart /\ step' = 0 /\ shut' /\ starting' \in Over
            /\ starting' = "no" => starting = "no"
<1>1. CASE ByStart
  <2>1. step \in 2..3 \/ step = 4
    BY <1>1 DEF Typed
  <2>2. CASE step = 4
    BY <1>1, <2>2 DEF Advance
  <2>3. CASE step \in 2..3
    <3>1. step # 4
      BY <2>3
    <3>2. step' = step + 1 /\ shut' = shut /\ starting' = starting
      BY <1>1, <3>1 DEF Advance
    <3> QED BY <1>1, <2>3, <3>2
  <2> QED BY <2>1, <2>2, <2>3
<1>2. CASE ~ByStart
  <2>1. (step \in 1..7 \/ step = 8) /\ starting \in Over /\ Len(Parts) = 8
    BY <1>2, PartNames DEF Typed
  <2>2. CASE step = 8
    BY <1>2, <2>1, <2>2 DEF Advance, Over
  <2>3. CASE step \in 1..7
    <3>1. step # 8
      BY <2>3
    <3>2. step' = step + 1 /\ shut' = shut /\ starting' = starting
      BY <1>2, <2>1, <3>1 DEF Advance
    <3> QED BY <1>2, <2>3, <3>2
  <2> QED BY <2>1, <2>2, <2>3
<1> QED BY <1>1, <1>2

LEMMA GiveUpSteps ==
  ASSUME Typed, step > 0, GiveUp
  PROVE  /\ step' = 0 /\ shut' = shut
         /\ ByStart => starting' = "closing"
         /\ ~ByStart => starting' \in Over /\ (starting' = "no" => starting = "no")
BY DEF GiveUp, Typed, ByStart, Over

-----------------------------------------------------------------------------
\* start() opens things before a shutdown closes any.
LEMMA StartKeeps ==
  ASSUME UserInv, BeginShutdown \/ StartStep \/ StartIsCancelled
  PROVE  UserInv'
<1> USE DEF UserInv, Typed, NotYet, AtWork, Passed, Owned, Final, Early, Over, Platform, ByStart
<1>1. CASE BeginShutdown
  BY <1>1 DEF BeginShutdown, Shared, vars
<1>2. CASE Start
  BY <1>2 DEF Start, Starts, GoOn, Shared, vars
<1>3. CASE Initialized
  BY <1>3 DEF Initialized, Starts, GoOn, Shared, vars
<1>4. CASE Warmed
  BY <1>4 DEF Warmed, Starts, GoOn, Shared, vars
<1>5. CASE CodeStarts
  BY <1>5 DEF CodeStarts, Starts, GoOn, Shared, vars
<1>6. CASE PlatformIsBuilt
  <2>1. PICK got \in SUBSET {"runtime", "sessions", "workflow"} :
             /\ owned' = owned \cup got
             /\ starting' = "connect" => Platform \subseteq got
             /\ starting' \in {"finish", "clean", "connect"}
    <3>1. CASE owned' = owned /\ starting' \in {"finish", "clean"}
      <4> WITNESS {} \in SUBSET {"runtime", "sessions", "workflow"}
      <4> QED BY <3>1
    <3>2. CASE owned' # owned \/ starting' = "connect"
      BY <1>6, <3>2 DEF PlatformIsBuilt, Starts
    <3> QED BY <1>6, <3>1, <3>2 DEF PlatformIsBuilt, Starts
  <2>2. /\ starting = "build" /\ step = 0
        /\ UNCHANGED <<vars, draining, step, open, broken, busy, shut, config, saved>>
    BY <1>6 DEF PlatformIsBuilt, Starts, GoOn, Shared
  <2>3. Typed' /\ NotYet'
    BY <2>1, <2>2 DEF vars
  <2>4. AtWork' /\ Passed'
    BY <2>1, <2>2 DEF vars
  <2>5. Owned' /\ Final'
    BY <2>1, <2>2 DEF vars
  <2> QED BY <2>3, <2>4, <2>5
<1>7. CASE PlatformConnects
  <2>1. /\ starting = "connect" /\ step = 0 /\ starting' \in {"notify", "clean"}
        /\ UNCHANGED <<vars, draining, step, owned, broken, busy, shut, config, saved>>
    BY <1>7 DEF PlatformConnects, Starts, GoOn, Shared
  <2>2. PICK got \in Connected : open' = open \cup got
    BY <1>7 DEF PlatformConnects, Connected
  <2>3. Typed' /\ NotYet'
    BY <2>1, <2>2 DEF vars, Connected
  <2>4. AtWork' /\ Passed'
    BY <2>1, <2>2 DEF vars, Connected
  <2>5. Owned' /\ Final'
    BY <2>1, <2>2 DEF vars, Connected
  <2> QED BY <2>3, <2>4, <2>5
<1>8. CASE PlatformNotifies
  BY <1>8 DEF PlatformNotifies, Starts, GoOn, Shared, vars
<1>9. CASE StartFinishes
  BY <1>9 DEF StartFinishes, Starts, GoOn, Shared, vars
<1>10. CASE StartIsCancelled
  <2>1. /\ step = 0 /\ starting \in {"warm", "code", "build", "connect", "notify", "clean"}
        /\ starting' = "closing"
        /\ UNCHANGED <<vars, draining, step, owned, broken, busy, shut, config, saved>>
    BY <1>10 DEF StartIsCancelled, Starts, Shared
  <2>2. PICK got \in Connected : open' = open \cup got /\ (got # {} => starting = "connect")
    BY <1>10 DEF StartIsCancelled, Connected
  <2>3. config' = "idle" /\ open' \subseteq {"ingress", "delivery", "code", "transcriber", "accounts"}
    BY <2>1, <2>2 DEF Connected
  <2>4. Typed'
    BY <2>1, <2>3
  <2>5. NotYet'
    BY <2>1
  <2>6. AtWork' /\ Passed'
    BY <2>1, <2>2 DEF vars, Connected
  <2>7. Owned' /\ Final'
    BY <2>1, <2>2 DEF vars, Connected
  <2> QED BY <2>4, <2>5, <2>6, <2>7
<1> QED
  BY <1>1, <1>2, <1>3, <1>4, <1>5, <1>6, <1>7, <1>8, <1>9, <1>10 DEF StartStep

\* Work begins only on parts that are there.
LEMMA WorkKeeps ==
  ASSUME UserInv, MessageArrives \/ CodeTurnBegins \/ WorkEnds
  PROVE  UserInv'
<1> USE DEF UserInv, Typed, NotYet, AtWork, Passed, Owned, Final, Early, Over, Platform, ByStart
<1>1. CASE MessageArrives
  <2>1. step # 2
    BY <1>1, PartNames DEF MessageArrives, At
  <2> QED BY <1>1, <2>1 DEF MessageArrives, Works, Shared, vars
<1>2. CASE CodeTurnBegins
  BY <1>2 DEF CodeTurnBegins, Works, Shared, vars
<1>3. CASE HandlerEnds
  <2>1. PICK admitted \in {{}, {"turn"}} : busy' = (busy \cup admitted) \ {"handler"}
    BY <1>3 DEF HandlerEnds, Works
  <2>2. /\ "handler" \in busy
        /\ UNCHANGED <<vars, draining, starting, step, owned, open, broken, shut, config, saved>>
    BY <1>3 DEF HandlerEnds, Works, Shared
  <2>3. Typed'
    BY <2>1, <2>2 DEF vars
  <2>4. AtWork' /\ Passed'
    BY <2>1, <2>2 DEF vars
  <2>5. Owned' /\ Final'
    BY <2>1, <2>2 DEF vars
  <2>6. NotYet'
    BY <2>1, <2>2 DEF vars
  <2> QED BY <2>3, <2>4, <2>5, <2>6
<1>4. CASE TurnEnds
  BY <1>4 DEF TurnEnds, Works, Shared, vars
<1>5. CASE CodeTurnEnds
  BY <1>5 DEF CodeTurnEnds, Works, Shared, vars
<1> QED BY <1>1, <1>2, <1>3, <1>4, <1>5 DEF WorkEnds

\* Changes of the configuration belong to a server that is up.
LEMMA ApplyKeeps ==
  ASSUME UserInv, ApplyBegins \/ ApplyStops \/ ApplyStep
  PROVE  UserInv'
<1> USE DEF UserInv, Typed, NotYet, AtWork, Passed, Owned, Final, Early, Over, Platform, ByStart
<1>1. UNCHANGED <<draining, starting, step, owned, open, busy, shut>> /\ starting = "up"
  BY DEF ApplyBegins, ApplyStops, ApplyStep, ApplyIsPrepared, ApplyReplaces, SaveFails,
     Saves, ApplyPublishes, ApplyReturns, Keeps
<1>2. config = "idle" /\ config' # "idle" => step = 0 /\ ~shut
  BY DEF ApplyBegins, ApplyStops, ApplyStep, ApplyIsPrepared, ApplyReplaces, SaveFails,
     Saves, ApplyPublishes, ApplyReturns, LockedByClose
<1>3. UNCHANGED <<closing, closed, closer>>
  BY DEF ApplyBegins, ApplyStops, ApplyStep, ApplyIsPrepared, ApplyReplaces, SaveFails, Shared, vars,
     Saves, ApplyPublishes, ApplyReturns, ReplaceBegins, ReplaceFails, ReplacePublishes, ReplaceReturns
<1> QED BY <1>1, <1>2, <1>3

\* Requests, refreshes and account changes change nothing of the runtime.
LEMMA ManagerKeeps ==
  ASSUME UserInv, ManagerStep
  PROVE  UserInv'
<1>1. UNCHANGED <<closing, closed, closer>>
  BY DEF ManagerStep, RefreshStep, Acquire, ReleaseLease, ReleaseAgain, CleanupEnds,
     RefreshBegins, RefreshEnds, ExplicitRefreshBegins, ExplicitRefreshLeases, ExplicitRefreshEnds,
     AccountChangeBegins, AccountChangeEnds
<1>2. UNCHANGED appVars
  BY DEF ManagerStep
<1> QED
  BY <1>1, <1>2 DEF appVars, UserInv, Typed, NotYet, AtWork, Passed, Owned, Final, Early, Over,
     Platform, ByStart

-----------------------------------------------------------------------------
\* A teardown that begins has left nothing behind yet.
LEMMA BeginningKeeps ==
  ASSUME UserInv, TeardownBegins \/ CloseReturns
  PROVE  UserInv'
<1> USE DEF UserInv, Typed, NotYet, AtWork, Passed, Owned, Final, Early, Over, Platform, ByStart
<1>1. CASE TeardownBegins
  BY <1>1 DEF TeardownBegins, Shared, vars
<1>2. CASE CloseReturns
  BY <1>2 DEF CloseReturns, Shared, vars
<1> QED BY <1>1, <1>2

\* What each part means for what is owned, open and at work.
Part(k, awaits, closes, forgets) ==
    Awaited(Parts[k]) = awaits /\ Closes(Parts[k]) = closes /\ Forgets(Parts[k]) = forgets

LEMMA PartsAre ==
  /\ Part(1, {}, {}, {"picker"})
  /\ Part(2, {"handler"}, {"ingress"}, {})
  /\ Part(3, {"turn"}, {}, {"workflow", "sessions"})
  /\ Part(4, {}, {"delivery"}, {"runtime"})
  /\ Part(5, {"code"}, {"code"}, {"code"})
  /\ Part(6, {}, {"transcriber"}, {"transcriber"})
  /\ Part(7, {}, {}, {"providers"})
  /\ Part(8, {}, {"accounts"}, {"accounts"})
BY PartNames DEF Part, Awaited, Closes, Forgets, Owners

LEMMA SkippedParts ==
  ASSUME Typed, step > 0, ~Applies
  PROVE  /\ step \notin {1, 5}
         /\ step = 2 => "runtime" \notin owned
         /\ step = 3 => owned \cap {"workflow", "sessions"} = {}
         /\ step = 4 => "runtime" \notin owned
         /\ step = 6 => "transcriber" \notin owned
         /\ step = 7 => "providers" \notin owned
         /\ step = 8 => "accounts" \notin owned
BY PartNames DEF Applies, Owners, Typed

\* What is true of the next step when this one is over.
Done ==
    /\ step = 2 => "ingress" \notin open' /\ "handler" \notin busy
    /\ step = 3 => "turn" \notin busy /\ owned' \cap {"workflow", "sessions"} = {}
    /\ step = 4 => "runtime" \notin owned'
    /\ step = 5 => "code" \notin busy \cup open'
    /\ step = 6 => "transcriber" \notin owned'
    /\ step = 7 => "providers" \notin owned'
    /\ step = 8 => "accounts" \notin owned'

\* What a part may change, and in which step.
Within ==
    /\ open' \subseteq open /\ owned' \subseteq owned
    /\ UNCHANGED <<draining, busy, config>>
    /\ "delivery" \in open \ open' => step = 4
    /\ "transcriber" \in open \ open' => step = 6
    /\ "accounts" \in open \ open' => step = 8
    /\ "runtime" \in owned \ owned' => step = 4 /\ "delivery" \notin open'
    /\ "workflow" \in owned \ owned' => step = 3 /\ "turn" \notin busy
    /\ "transcriber" \in owned \ owned' => step = 6 /\ "transcriber" \notin open'
    /\ "providers" \in owned \ owned' => closed'
    /\ "accounts" \in owned \ owned' => "accounts" \notin open'
    /\ closed => closed'
    /\ closed' => closer'.stage = "idle"
    /\ closing' => closing \/ step = 7

LEMMA TeardownKeeps ==
  ASSUME UserInv, step > 0, Within, (Advance /\ Done) \/ GiveUp
  PROVE  UserInv'
<1>1. /\ step \in 1..8
      /\ ByStart => step \in 2..4
      /\ ~ByStart => draining /\ starting \in Over /\ config = "idle"
  BY DEF UserInv, Typed
<1>2. \/ step' = 0
      \/ /\ Done /\ step' = step + 1 /\ starting' = starting /\ shut' = shut
         /\ ByStart => step \in 2..3
         /\ ~ByStart => step \in 1..7
  BY AdvanceSteps, GiveUpSteps DEF UserInv
<1>3. /\ ByStart => starting' \in {"clean", "finish", "closing"}
      /\ ~ByStart => starting' \in Over /\ (starting' = "no" => starting = "no")
  BY <1>1, AdvanceSteps, GiveUpSteps DEF UserInv, ByStart
<1>4. shut' => shut \/ (step = 8 /\ Done /\ ~ByStart)
  BY AdvanceSteps, GiveUpSteps DEF UserInv
<1>5. Typed'
  <2>1. step' \in 0..8 /\ (step' > 0 /\ ByStart' => step' \in 2..4)
    BY <1>1, <1>2 DEF ByStart
  <2>2. step' > 0 /\ ~ByStart' => draining' /\ starting' \in Over /\ config' = "idle"
    BY <1>1, <1>2 DEF ByStart, Within
  <2>3. config' # "idle" => starting' = "up"
    BY <1>1, <1>2, <1>3 DEF UserInv, Typed, ByStart, Within
  <2> QED BY <2>1, <2>2, <2>3 DEF UserInv, Typed, Within
<1>6. NotYet'
  BY <1>1, <1>3 DEF UserInv, NotYet, Within, Early, Over, ByStart
<1>7. AtWork'
  BY <1>1 DEF UserInv, AtWork, Passed, Within, Platform
<1>8. Passed'
  BY <1>1, <1>2 DEF UserInv, Passed, Within, Done
<1>9. Owned'
  BY DEF UserInv, Owned, Within
<1>10. Final'
  <2>1. "transcriber" \notin open' => draining' /\ starting' \in Over
    BY <1>1, <1>3 DEF UserInv, Final, Within, ByStart, Over
  <2>2. closing' => draining' /\ starting' \in Over /\ busy' = {} /\ "ingress" \notin open'
    BY <1>1, <1>3 DEF UserInv, Typed, Final, Passed, Within, ByStart, Over
  <2>3. "accounts" \notin open' => closed'
    BY <1>1 DEF UserInv, Final, Passed, Owned, Within
  <2>4. shut' => /\ owned' = {} /\ open' = {} /\ busy' = {} /\ config' = "idle"
                 /\ draining' /\ starting' \in Over
    <3>1. CASE shut
      BY <1>1, <1>3, <3>1 DEF UserInv, Final, Within, ByStart, Over
    <3>2. CASE step = 8 /\ Done /\ ~ByStart
      BY <1>1, <1>3, <3>2 DEF UserInv, Typed, Final, AtWork, Passed, Owned, Within, Done
    <3> QED BY <1>4, <3>1, <3>2
  <2> QED BY <2>1, <2>2, <2>3, <2>4 DEF Final
<1> QED BY <1>5, <1>6, <1>7, <1>8, <1>9, <1>10 DEF UserInv

\* Every part stays within what it may change, and an orderly end has done what the next
\* parts rely on.
LEMMA PartsKeep ==
  ASSUME UserInv, PartIsSkipped \/ PartCloses \/ PartFails
  PROVE  UserInv'
<1>1. step \in 1..8 /\ UNCHANGED <<draining, busy, config, closed, closer, closing>>
  BY DEF UserInv, Typed, PartIsSkipped, PartCloses, PartFails, Shared, vars
<1>2. CASE PartIsSkipped
  <2>1. Advance /\ UNCHANGED <<owned, open>>
    BY <1>2 DEF PartIsSkipped
  <2>2. Within
    BY <1>1, <2>1 DEF Within, UserInv, Owned
  <2>3. Done
    BY <1>1, <1>2, <2>1, SkippedParts
       DEF Done, PartIsSkipped, UserInv, AtWork, Platform
  <2> QED BY <1>1, <2>1, <2>2, <2>3, TeardownKeeps
<1>3. CASE PartCloses
  <2>1. /\ Advance /\ step # 7
        /\ Awaited(Parts[step]) \cap busy = {}
        /\ open' = open \ Closes(Parts[step]) /\ owned' = owned \ Forgets(Parts[step])
    BY <1>3, PartNames DEF PartCloses, At
  <2>2. Within /\ Done
    <3>1. CASE step = 1
      BY <1>1, <2>1, <3>1, PartsAre DEF Part, Within, Done, UserInv, Owned, Typed
    <3>2. CASE step = 2
      BY <1>1, <2>1, <3>2, PartsAre DEF Part, Within, Done, UserInv, Owned
    <3>3. CASE step = 3
      BY <1>1, <2>1, <3>3, PartsAre DEF Part, Within, Done, UserInv, Owned
    <3>4. CASE step = 4
      BY <1>1, <2>1, <3>4, PartsAre DEF Part, Within, Done, UserInv, Owned
    <3>5. CASE step = 5
      BY <1>1, <2>1, <3>5, PartsAre DEF Part, Within, Done, UserInv, Owned, Typed
    <3>6. CASE step = 6
      BY <1>1, <2>1, <3>6, PartsAre DEF Part, Within, Done, UserInv, Owned
    <3>8. CASE step = 8
      BY <1>1, <2>1, <3>8, PartsAre DEF Part, Within, Done, UserInv, Owned
    <3> QED BY <1>1, <2>1, <3>1, <3>2, <3>3, <3>4, <3>5, <3>6, <3>8
  <2> QED BY <1>1, <2>1, <2>2, TeardownKeeps
<1>4. CASE PartFails
  <2>1. /\ GiveUp /\ owned' = owned /\ open' \subseteq open
        /\ open \ open' \subseteq Closes(Parts[step])
    BY <1>4 DEF PartFails
  <2>2. /\ "delivery" \in open \ open' => step = 4
        /\ "transcriber" \in open \ open' => step = 6
        /\ "accounts" \in open \ open' => step = 8
    BY <1>1, <2>1, PartsAre DEF Part
  <2>3. Within
    BY <1>1, <2>1, <2>2 DEF Within, UserInv, Owned
  <2> QED BY <1>1, <2>1, <2>3, TeardownKeeps
<1> QED BY <1>2, <1>3, <1>4

LEMMA ProvidersKeep ==
  ASSUME UserInv, ProvidersClose
  PROVE  UserInv'
<1>1. step = 7 /\ UNCHANGED <<draining, open, broken, busy, config>>
  BY PartNames DEF UserInv, Typed, ProvidersClose, At
<1>2. CASE closer.stage = "clean"
  <2>1. CloseEnds
    BY <1>2 DEF ProvidersClose, CloseStep, CloseBegins, CloseRetires, CloseCleans, CloseWaits
  <2>2. closer'.stage = "idle" /\ closing' = closing /\ ~closed
    BY <1>2, <2>1 DEF CloseEnds, NoCloser, UserInv, Owned
  <2>3. \/ closed' /\ Advance /\ owned' = owned \ {"providers"}
        \/ GiveUp /\ owned' = owned
    BY <1>2 DEF ProvidersClose
  <2>4. Within
    BY <1>1, <2>2, <2>3 DEF Within
  <2>5. "providers" \notin owned' => Done
    BY <1>1 DEF Done
  <2> QED BY <1>1, <2>3, <2>4, <2>5, TeardownKeeps
<1>3. CASE closer.stage # "clean"
  <2>1. UNCHANGED <<step, starting, shut, owned>>
    BY <1>3 DEF ProvidersClose
  <2>2. ~closed /\ ~closed'
    <3>1. ~closed
      BY DEF ProvidersClose, CloseStep, CloseBegins, CloseRetires, CloseCleans, CloseWaits, CloseEnds,
         UserInv, Owned
    <3>2. ~CloseEnds
      BY <1>3 DEF CloseEnds
    <3>3. closed' = closed
      BY <3>2 DEF ProvidersClose, CloseStep, CloseBegins, CloseRetires, CloseCleans, CloseWaits
    <3> QED BY <3>1, <3>3
  <2>3. /\ draining /\ starting \in Over /\ busy = {} /\ "ingress" \notin open
    BY <1>1 DEF UserInv, Typed, Passed, ByStart
  <2> QED
    BY <1>1, <2>1, <2>2, <2>3
       DEF UserInv, Typed, NotYet, AtWork, Passed, Owned, Final, ByStart, Early, Over, Platform
<1> QED BY <1>2, <1>3

LEMMA StepUserInv == UserInv /\ [AppNext]_allVars => UserInv'
<1> SUFFICES ASSUME UserInv, [AppNext]_allVars PROVE UserInv'
  OBVIOUS
<1>1. CASE AppNext
  BY <1>1, StartKeeps, WorkKeeps, ApplyKeeps, ManagerKeeps, BeginningKeeps, PartsKeep, ProvidersKeep
     DEF AppNext, TeardownStep
<1>2. CASE UNCHANGED allVars
  BY <1>2 DEF allVars, appVars, vars, UserInv, Typed, NotYet, AtWork, Passed, Owned, Final, ByStart,
     Early, Over, Platform
<1> QED BY <1>1, <1>2

THEOREM UserInvariant == AppSpec => []UserInv
<1> QED BY InitUserInv, StepUserInv, PTL DEF AppSpec

-----------------------------------------------------------------------------
\* Neither a request that leases a generation nor a handler, turn or code session loses what it
\* uses, for any number of requests and generations and however often a teardown is repeated.
THEOREM NothingInUseIsEverClosed == AppSpec => []NothingInUseCloses
<1>1. AppSpec => []UsedStaysOpen
  BY LifecycleDrivesGenerations, NothingInUseIsClosed, PTL
<1>2. UsedStaysOpen /\ UserInv => NothingInUseCloses
  BY UserInvIsEnough DEF NothingInUseCloses
<1> QED BY <1>1, <1>2, UserInvariant, PTL

\* A close() that reports success has released everything: every generation ever published, every
\* candidate, and every part of the runtime.
THEOREM SuccessReleasesEverything == AppSpec => []EverythingIsReleased
<1>1. AppSpec => []CloseIsComplete
  BY LifecycleDrivesGenerations, ShutdownIsComplete, PTL
<1>2. CloseIsComplete /\ UserInv => EverythingIsReleased
  BY DEF EverythingIsReleased, UserInv, Final, Owned
<1> QED BY <1>1, <1>2, UserInvariant, PTL

\* A finalization that has saved holds the configuration until it has published.
SavedInv == saved = "ahead" => config = "publish"

\* The file and the running configuration agree whenever no change is under way, whatever is
\* cancelled or shut down meanwhile.
THEOREM TheFileIsNeverAhead == AppSpec => []SavedIsRunning
<1>1. AppInit => SavedInv
  BY DEF AppInit, SavedInv
<1>2. SavedInv /\ [AppNext]_allVars => SavedInv'
  <2> SUFFICES ASSUME SavedInv, [AppNext]_allVars PROVE SavedInv'
    OBVIOUS
  <2>1. CASE ApplyBegins \/ ApplyStops \/ ApplyStep
    BY <2>1 DEF SavedInv, ApplyBegins, ApplyStops, ApplyStep, ApplyIsPrepared, ApplyReplaces,
       SaveFails, Saves, ApplyPublishes, ApplyReturns
  <2>2. CASE UNCHANGED <<config, saved>>
    BY <2>2 DEF SavedInv
  <2>3. CASE BeginShutdown \/ StartStep \/ StartIsCancelled
    BY <2>2, <2>3 DEF BeginShutdown, StartStep, StartIsCancelled, Start, Initialized, Warmed,
       CodeStarts, PlatformIsBuilt, PlatformConnects, PlatformNotifies, StartFinishes, Starts
  <2>4. CASE TeardownBegins \/ CloseReturns \/ TeardownStep
    BY <2>2, <2>4 DEF TeardownBegins, CloseReturns, TeardownStep, PartIsSkipped, PartCloses,
       PartFails, ProvidersClose
  <2>5. CASE MessageArrives \/ CodeTurnBegins \/ WorkEnds
    BY <2>2, <2>5 DEF MessageArrives, CodeTurnBegins, WorkEnds, HandlerEnds, TurnEnds,
       CodeTurnEnds, Works
  <2>6. CASE ManagerStep \/ UNCHANGED allVars
    BY <2>2, <2>6 DEF ManagerStep, allVars, appVars
  <2> QED BY <2>1, <2>3, <2>4, <2>5, <2>6 DEF AppNext
<1>3. SavedInv => SavedIsRunning
  BY DEF SavedInv, SavedIsRunning
<1> QED BY <1>1, <1>2, <1>3, PTL DEF AppSpec
=============================================================================
