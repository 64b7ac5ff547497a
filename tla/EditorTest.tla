----------------------------- MODULE EditorTest -----------------------------
(***************************************************************************)
(* The test runs of the editor page (datacontract-editor.es.js, runTest    *)
(* and cancelTest): a run posts the contract to the server and shows the   *)
(* outcome.  Starting a run aborts the one before; a timer aborts a run    *)
(* that takes too long; the user may cancel.  An aborted run comes back to *)
(* its catch block some time later, when another may have taken its place. *)
(***************************************************************************)
EXTENDS Naturals

CONSTANT MaxRuns   \* bound: how often a test is run

ASSUME RunsAssumption == MaxRuns \in Nat

Runs == 1 .. MaxRuns

VARIABLES
  started,   \* runs 1 .. started were started, in this order
  run,       \* how far each is, and the results that were shown when it began
  current,   \* the run that may still show its outcome, or 0
  running,   \* isTestRunning
  results    \* the run whose outcome is shown, or 0

test == <<started, run, current, running, results>>

Unstarted == [at |-> "settled", before |-> 0]

TestInit ==
  /\ started = 0
  /\ run = [i \in Runs |-> Unstarted]
  /\ current = 0
  /\ running = FALSE
  /\ results = 0

\* AbortController.abort: only the first reason counts, and a run that has
\* settled is past it.
Aborted(runs, i, why) ==
  [j \in Runs |-> IF j = i /\ runs[j].at = "waiting" THEN [runs[j] EXCEPT !.at = why] ELSE runs[j]]

-----------------------------------------------------------------------------
BrokenRunTest ==
  /\ started < MaxRuns
  /\ started' = started + 1
  /\ run' = [run EXCEPT ![started + 1] = [at |-> "waiting", before |-> results]]
  /\ current' = started + 1
  /\ running' = TRUE
  /\ UNCHANGED results

\* runTest up to the fetch; the run before is told to give up.
RunTest ==
  /\ started < MaxRuns
  /\ started' = started + 1
  /\ run' = [Aborted(run, current, "cancelled") EXCEPT
               ![started + 1] = [at |-> "waiting", before |-> results]]
  /\ current' = started + 1
  /\ running' = TRUE
  /\ UNCHANGED results

\* The button while a test is running.
CancelTest ==
  /\ running
  /\ run' = Aborted(run, current, "cancelled")
  /\ running' = (current # 0)
  /\ UNCHANGED <<started, current, results>>

\* A test without its timer.
BrokenTimeOut(i) == i \notin Runs /\ UNCHANGED test

\* The timer, which the end of a run clears.
TimeOut(i) ==
  /\ run[i].at = "waiting"
  /\ run' = Aborted(run, i, "timedOut")
  /\ UNCHANGED <<started, current, running, results>>

BrokenConclude(i, shown) ==
  /\ run' = [run EXCEPT ![i] = Unstarted]
  /\ results' = shown
  /\ running' = FALSE
  /\ current' = IF current = i THEN 0 ELSE current
  /\ UNCHANGED started

\* Only the current run shows its outcome, ends the spinner and gives up its
\* place.
Conclude(i, shown) ==
  /\ run' = [run EXCEPT ![i] = Unstarted]
  /\ IF current = i
       THEN results' = shown /\ running' = FALSE /\ current' = 0
       ELSE UNCHANGED <<results, running, current>>
  /\ UNCHANGED started

\* The server answers, or the connection breaks: an outcome either way.
Answered(i) == run[i].at = "waiting" /\ Conclude(i, i)

TimedOut(i) == run[i].at = "timedOut" /\ Conclude(i, i)

\* A run that was cancelled shows again what it found.
Cancelled(i) == run[i].at = "cancelled" /\ Conclude(i, run[i].before)

\* The button below the results.
clearTestResults ==
  /\ results # 0
  /\ results' = 0
  /\ UNCHANGED <<started, run, current, running>>

-----------------------------------------------------------------------------
RunType ==
  [at : {"waiting", "cancelled", "timedOut", "settled"}, before : 0 .. MaxRuns]

TestTypeOK ==
  /\ started \in 0 .. MaxRuns
  /\ run \in [Runs -> RunType]
  /\ current \in 0 .. MaxRuns
  /\ running \in BOOLEAN
  /\ results \in 0 .. MaxRuns
=============================================================================
