------------------------------ MODULE RunPromise ------------------------------
(***************************************************************************)
(* What DataContract.test promises its callers (the test and ci commands,  *)
(* the API server, the edit server, the Python library): one verdict,      *)
(* given once and final; publishing only after it, at most once, and only  *)
(* of a run that executed something.                                       *)
(***************************************************************************)

CONSTANT Verdicts   \* ResultEnum

Unexecuted == {"skipped", "unknown"}

VARIABLES phase, verdict, published

Init ==
  /\ phase = "running"
  /\ verdict = "unknown"
  /\ published = "no"

Conclude ==
  /\ phase = "running"
  /\ phase' = "concluded"
  /\ verdict' \in Verdicts
  /\ UNCHANGED published

Return ==
  /\ phase = "concluded"
  /\ phase' = "returned"
  /\ UNCHANGED <<verdict, published>>

Publish ==
  /\ phase = "concluded"
  /\ verdict \notin Unexecuted
  /\ phase' = "returned"
  /\ published' \in {"succeeded", "failed"}
  /\ UNCHANGED verdict

\* An untrusted contract's broken definition leaves as an exception.
Raise ==
  /\ phase = "running"
  /\ phase' = "raised"
  /\ UNCHANGED <<verdict, published>>

Next == Conclude \/ Return \/ Publish \/ Raise

vars == <<phase, verdict, published>>

Spec == Init /\ [][Next]_vars
=============================================================================
