--------------------------- MODULE CircuitBreaker ---------------------------
(***************************************************************************)
(* What ProviderAdmissionController promises (providers/admission.py): the *)
(* first shared transient failure opens one recovery episode, exactly one  *)
(* execution owns its half-open probe, and everybody else waits for the    *)
(* outcome.  Nothing is said of attempts, slots, generations or waiters:   *)
(* ProviderAdmission implements this specification with them.              *)
(***************************************************************************)
CONSTANTS Execs,   \* logical executions
          None     \* no probe

VARIABLES mode,    \* "closed"; "waiting" for a backoff or a terminal window to pass;
                   \* "ready" for a probe; "probing"
          probe,   \* the execution that owns the probe
          calls    \* executions with an unresolved call upstream

vars == <<mode, probe, calls>>

Init ==
  /\ mode = "closed"
  /\ probe = None
  /\ calls = {}

\* While the circuit is not closed, only the owner of the probe may call.
Call(e) ==
  /\ e \notin calls
  /\ mode = "closed" \/ (mode = "probing" /\ probe = e)
  /\ calls' = calls \cup {e}
  /\ UNCHANGED <<mode, probe>>

\* A failed call opens a closed circuit.
Trip(e) ==
  /\ mode = "closed" /\ e \in calls
  /\ mode' = "waiting"
  /\ calls' = calls \ {e}
  /\ UNCHANGED probe

Elapse ==
  /\ mode = "waiting"
  /\ mode' = "ready"
  /\ UNCHANGED <<probe, calls>>

StartProbe(e) ==
  /\ mode = "ready"
  /\ e \notin calls
  /\ mode' = "probing"
  /\ probe' = e
  /\ UNCHANGED calls

\* The outcome of the probe's call is the outcome for the provider: it is reachable, it
\* is not, or it has not said.
ProbeEnds(e) ==
  /\ mode = "probing" /\ probe = e /\ e \in calls
  /\ mode' \in {"closed", "waiting", "ready"}
  /\ probe' = None
  /\ calls' = calls \ {e}

\* The owner leaves before its call.
GiveUpProbe(e) ==
  /\ mode = "probing" /\ probe = e /\ e \notin calls
  /\ mode' = "ready"
  /\ probe' = None
  /\ UNCHANGED calls

\* Any other call ends without a word about the circuit, however late it is.
CallEnds(e) ==
  /\ e \in calls
  /\ probe # e
  /\ calls' = calls \ {e}
  /\ UNCHANGED <<mode, probe>>

Next ==
  \/ Elapse
  \/ \E e \in Execs :
       \/ Call(e) \/ Trip(e) \/ CallEnds(e)
       \/ StartProbe(e) \/ ProbeEnds(e) \/ GiveUpProbe(e)

Spec == Init /\ [][Next]_vars

-----------------------------------------------------------------------------
\* Whatever is called before the circuit closes again is called by the probe, and only
\* what came of that call closes it.
OnlyProbesCall ==
  [][/\ calls' \subseteq calls \/ mode = "closed" \/ calls' = calls \cup {probe}
     /\ mode # "closed" /\ mode' = "closed" => mode = "probing" /\ probe \in calls \ calls']_vars
=============================================================================
