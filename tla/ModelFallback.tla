---------------------------- MODULE ModelFallback ----------------------------
(***************************************************************************)
(* ProviderExecutor._stream_candidates (application/execution.py): one     *)
(* request tries the candidates of its route in order.  The provider       *)
(* stream of a candidate is opened, read chunk by chunk under one progress *)
(* deadline and closed; a candidate that fails before its first chunk is   *)
(* replaced by the next one.  The executor knows nothing of the protocol   *)
(* or the provider, so both are left to the module that composes it.       *)
(***************************************************************************)
EXTENDS Naturals

CONSTANT Candidates   \* number of candidates: the primary and its fallbacks

ASSUME CandidatesAssumption == Candidates \in Nat \ {0}

Indices == 1..Candidates

VARIABLES
    stage,      \* "open", "read" (awaits the next chunk), "handed" (suspended at
                \* yield), "close" (the finally block) or "over"
    candidate,  \* the index of the candidate being tried
    committed,  \* candidate_committed
    failed,     \* candidate_failure is set
    late,       \* the progress deadline has passed
    streams,    \* candidates whose provider stream is open
    shown,      \* candidates of which a chunk was handed on (history)
    verdict     \* how the body ended: "" (not yet), "completed", "failed",
                \* "timeout" or "cancelled"

executorVars == <<stage, candidate, committed, failed, late, streams, shown, verdict>>

ExecutorInit ==
    /\ stage = "open"
    /\ candidate = 1
    /\ committed = FALSE /\ failed = FALSE
    /\ late = FALSE
    /\ streams = {}
    /\ shown = {}
    /\ verdict = ""

\* open_candidate returned a stream
OpenCandidate ==
    /\ stage = "open"
    /\ stage' = "read"
    /\ streams' = streams \cup {candidate}
    /\ UNCHANGED <<candidate, committed, failed, late, shown, verdict>>

EndWith(v) ==
    /\ stage' = "over"
    /\ verdict' = v
    /\ UNCHANGED <<candidate, committed, failed>>

MutFallBackAnyway ==
    /\ candidate < Candidates
    /\ candidate' = candidate + 1
    /\ stage' = "open"
    /\ committed' = FALSE /\ failed' = FALSE
    /\ UNCHANGED verdict

\* a failure of a candidate nobody saw anything of: the next one is tried
FallBack ==
    /\ ~committed
    /\ candidate < Candidates
    /\ candidate' = candidate + 1
    /\ stage' = "open"
    /\ committed' = FALSE /\ failed' = FALSE
    /\ UNCHANGED verdict

FailOrFallBack == FallBack \/ ((committed \/ candidate = Candidates) /\ EndWith("failed"))

\* preflight refused the candidate's request
CandidateRefused ==
    /\ stage = "open"
    /\ FailOrFallBack
    /\ UNCHANGED <<late, streams, shown>>

\* any other error of opening it (an unknown provider) ends the request
OpenRaises ==
    /\ stage = "open"
    /\ EndWith("failed")
    /\ UNCHANGED <<late, streams, shown>>

MutReading == stage = "read"

Reading == stage = "read" /\ ~late

\* an empty chunk makes no progress
ReadEmpty == Reading /\ UNCHANGED executorVars

ReadChunk ==
    /\ Reading
    /\ committed' = TRUE
    /\ shown' = shown \cup {candidate}
    /\ stage' = "handed"
    /\ UNCHANGED <<candidate, failed, late, streams, verdict>>

\* the consumer asks for more: only now the deadline is set again
Resume ==
    /\ stage = "handed"
    /\ stage' = "read"
    /\ late' = FALSE
    /\ UNCHANGED <<candidate, committed, failed, streams, shown, verdict>>

ReadEnd ==
    /\ Reading
    /\ stage' = "close"
    /\ UNCHANGED <<candidate, committed, failed, late, streams, shown, verdict>>

ReadFailure ==
    /\ Reading
    /\ failed' = TRUE
    /\ stage' = "close"
    /\ UNCHANGED <<candidate, committed, late, streams, shown, verdict>>

\* the deadline covers opening a candidate only
MutDeadlinePasses ==
    /\ stage = "open" /\ ~late
    /\ late' = TRUE
    /\ UNCHANGED <<stage, candidate, committed, failed, streams, shown, verdict>>

DeadlinePasses ==
    /\ stage \in {"open", "read"} /\ ~late
    /\ late' = TRUE
    /\ UNCHANGED <<stage, candidate, committed, failed, streams, shown, verdict>>

\* asyncio.timeout_at cancels the read, or the loop finds the deadline passed
TimesOut ==
    /\ stage = "read" /\ late
    /\ stage' = "close"
    /\ verdict' = "timeout"
    /\ UNCHANGED <<candidate, committed, failed, late, streams, shown>>

\* the consumer closes the body or its task is cancelled
Cancel ==
    /\ \/ stage = "open" /\ candidate = 1   \* the body was never started
       \/ stage \in {"read", "handed"}
       \/ stage = "close" /\ verdict = "timeout"
    /\ verdict' = "cancelled"
    /\ stage' = IF streams = {} THEN "over" ELSE "close"
    /\ UNCHANGED <<candidate, committed, failed, late, streams, shown>>

\* the end of the finally block and what follows it; without an error the provider
\* stream is exhausted by now, and closing it takes no time
CloseCandidate ==
    /\ stage = "close"
    /\ streams' = streams \ {candidate}
    /\ \/ verdict # "" /\ EndWith(verdict)
       \/ verdict = "" /\ ~failed /\ EndWith("completed")
       \/ verdict = "" /\ failed /\ FailOrFallBack
    /\ UNCHANGED <<late, shown>>

ExecutorNext ==
    \/ OpenCandidate
    \/ CandidateRefused
    \/ OpenRaises
    \/ ReadEmpty
    \/ ReadChunk
    \/ Resume
    \/ ReadEnd
    \/ ReadFailure
    \/ DeadlinePasses
    \/ TimesOut
    \/ Cancel
    \/ CloseCandidate

ExecutorSpec == ExecutorInit /\ [][ExecutorNext]_executorVars

-----------------------------------------------------------------------------
ExecutorTypeOK ==
    /\ stage \in {"open", "read", "handed", "close", "over"}
    /\ candidate \in Indices
    /\ committed \in BOOLEAN /\ failed \in BOOLEAN /\ late \in BOOLEAN
    /\ streams \subseteq Indices
    /\ shown \subseteq Indices
    /\ verdict \in {"", "completed", "failed", "timeout", "cancelled"}

\* A client sees the answer of one candidate only, the one being tried, and nothing
\* of a candidate it does not see goes on: its provider stream is closed before the
\* next one is opened and none is left when the request is over (execution.py,
\* "if candidate_committed or ...: raise candidate_failure").
FallbackIsInvisible ==
    /\ \A i \in shown : i = candidate /\ committed
    /\ streams \subseteq {candidate}
    /\ stage = "over" => streams = {}

\* The progress deadline spans the attempts of all candidates: once it has passed,
\* nothing more is handed on and only cleanup is left (_progress_timeout_failure).
DeadlineIsFinal ==
    [][late => late' /\ shown' = shown /\ verdict' # "completed"]_executorVars
=============================================================================
