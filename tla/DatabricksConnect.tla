-------------------------- MODULE DatabricksConnect --------------------------
(***************************************************************************)
(* Connecting to Databricks (engines/ibis/connections/connect.py), where   *)
(* the runs of several threads share what they change.                     *)
(*                                                                         *)
(* Over the SQL connector, without ibis's staging volume                   *)
(* (_databricks_connect): for the time of one connect, the class attribute *)
(* Backend._post_connect is replaced by a function that does nothing.  The *)
(* attribute is shared by the threads the API server runs its requests in  *)
(* (api.py).                                                               *)
(*                                                                         *)
(* Over a Spark session the caller handed over (connect_ibis): the session *)
(* is switched to the schema of the server and stays there, and the tables *)
(* of the contract are read by name in whatever schema it is in.           *)
(***************************************************************************)
EXTENDS Naturals

CONSTANTS
  Threads,      \* the threads of the API server's pool, or of a notebook
  Schemas,      \* the catalogs and schemas that servers name
  MaxConnects   \* bound: how often each thread connects

ASSUME ConnectAssumption == MaxConnects \in Nat

VARIABLES
  postConnect,  \* Backend._post_connect: ibis's own, or the one that does nothing
  saved,        \* original_post_connect of each thread's latest call
  pc,           \* where each thread is in _databricks_connect
  left,         \* how often it may still call it
  staged,       \* ibis set up its staging volume in the target schema
  overlapped,   \* history: two threads were in _databricks_connect at once
  schema,       \* the current schema of the Spark session
  wants,        \* the schema the server of each thread's latest run names
  misread,      \* a run read a table in another schema than its server names
  shared        \* history: two runs used the session at once

class == <<postConnect, saved, staged, overlapped>>
spark == <<schema, wants, misread, shared>>
vars == <<class, pc, left, spark>>

Unnamed == "unnamed"

Callers == "callers"

Init ==
  /\ postConnect = "original"
  /\ saved = [t \in Threads |-> "unbound"]
  /\ pc = [t \in Threads |-> "outside"]
  /\ left = [t \in Threads |-> MaxConnects]
  /\ staged = FALSE
  /\ overlapped = FALSE
  /\ schema = Callers
  /\ wants = [t \in Threads |-> Unnamed]
  /\ misread = FALSE
  /\ shared = FALSE

Inside(t) == pc[t] \in {"patch", "open", "post", "restore"}

InSession(t) == pc[t] = "spark"

Goto(t, l) == pc' = [pc EXCEPT ![t] = l]

-----------------------------------------------------------------------------
\* The definitions named Broken... are plausible mistakes the properties must
\* catch: the original saved once and not for each call, the attribute set on
\* an instance only, a failure that leaves without restoring, the session
\* switched only if no run has switched it before.
BrokenSave(t) ==
  /\ pc[t] = "outside" /\ left[t] > 0
  /\ left' = [left EXCEPT ![t] = @ - 1]
  /\ overlapped' = (overlapped \/ \E u \in Threads : Inside(u))
  /\ Goto(t, "patch")
  /\ UNCHANGED <<postConnect, saved, staged, spark>>

\* original_post_connect = Backend._post_connect
Save(t) ==
  /\ pc[t] = "outside" /\ left[t] > 0
  /\ saved' = [saved EXCEPT ![t] = postConnect]
  /\ left' = [left EXCEPT ![t] = @ - 1]
  /\ overlapped' = (overlapped \/ \E u \in Threads : Inside(u))
  /\ Goto(t, "patch")
  /\ UNCHANGED <<postConnect, staged, spark>>

BrokenPatch(t) ==
  /\ pc[t] = "patch"
  /\ Goto(t, "open")
  /\ UNCHANGED <<postConnect, saved, left, staged, overlapped, spark>>

Patch(t) ==
  /\ pc[t] = "patch"
  /\ postConnect' = "nothing"
  /\ Goto(t, "open")
  /\ UNCHANGED <<saved, left, staged, overlapped, spark>>

\* ibis opens the connection; the warehouse may be slow, and other threads
\* run meanwhile.
Open(t) ==
  /\ pc[t] = "open"
  /\ Goto(t, "post")
  /\ UNCHANGED <<postConnect, saved, left, staged, overlapped, spark>>

BrokenOpenFails(t) ==
  /\ pc[t] = "open"
  /\ Goto(t, "outside")
  /\ UNCHANGED <<postConnect, saved, left, staged, overlapped, spark>>

OpenFails(t) ==
  /\ pc[t] = "open"
  /\ Goto(t, "restore")
  /\ UNCHANGED <<postConnect, saved, left, staged, overlapped, spark>>

\* ... and then calls whatever _post_connect is by now.
PostConnect(t) ==
  /\ pc[t] = "post"
  /\ staged' = (staged \/ postConnect = "original")
  /\ Goto(t, "restore")
  /\ UNCHANGED <<postConnect, saved, left, overlapped, spark>>

\* The finally block.
Restore(t) ==
  /\ pc[t] = "restore"
  /\ postConnect' = saved[t]
  /\ Goto(t, "outside")
  /\ UNCHANGED <<saved, left, staged, overlapped, spark>>

-----------------------------------------------------------------------------
BrokenUse(t, s) ==
  /\ pc[t] = "outside" /\ left[t] > 0
  /\ left' = [left EXCEPT ![t] = @ - 1]
  /\ schema' = IF schema = Callers /\ s # Unnamed THEN s ELSE schema
  /\ wants' = [wants EXCEPT ![t] = s]
  /\ shared' = (shared \/ \E u \in Threads : InSession(u))
  /\ Goto(t, "spark")
  /\ UNCHANGED <<class, misread>>

\* USE, unless the server names neither a catalog nor a schema.
Use(t, s) ==
  /\ pc[t] = "outside" /\ left[t] > 0
  /\ left' = [left EXCEPT ![t] = @ - 1]
  /\ schema' = IF s = Unnamed THEN schema ELSE s
  /\ wants' = [wants EXCEPT ![t] = s]
  /\ shared' = (shared \/ \E u \in Threads : InSession(u))
  /\ Goto(t, "spark")
  /\ UNCHANGED <<class, misread>>

\* There is no such schema: the run fails, the session stays where it is.
UseFails(t) ==
  /\ pc[t] = "outside" /\ left[t] > 0
  /\ left' = [left EXCEPT ![t] = @ - 1]
  /\ UNCHANGED <<class, pc, spark>>

\* A table is resolved, or a query over it executed, by its bare name.
ReadTable(t) ==
  /\ InSession(t)
  /\ misread' = (misread \/ wants[t] \notin {Unnamed, schema})
  /\ UNCHANGED <<class, pc, left, schema, wants, shared>>

\* The run ends; the session is the caller's and is left as it is.
LeaveSession(t) ==
  /\ InSession(t)
  /\ Goto(t, "outside")
  /\ UNCHANGED <<class, left, spark>>

Next ==
  \E t \in Threads :
    \/ Save(t) \/ Patch(t)
    \/ Open(t) \/ OpenFails(t) \/ PostConnect(t)
    \/ Restore(t)
    \/ \E s \in Schemas \cup {Unnamed} : Use(t, s)
    \/ UseFails(t) \/ ReadTable(t) \/ LeaveSession(t)

Spec == Init /\ [][Next]_vars

-----------------------------------------------------------------------------
Functions == {"original", "nothing"}

TypeOK ==
  /\ postConnect \in Functions
  /\ saved \in [Threads -> Functions \cup {"unbound"}]
  /\ \A t \in Threads : Inside(t) => saved[t] \in Functions
  /\ pc \in [Threads -> {"outside", "patch", "open", "post", "restore", "spark"}]
  /\ left \in [Threads -> 0 .. MaxConnects]
  /\ staged \in BOOLEAN
  /\ overlapped \in BOOLEAN
  /\ schema \in Schemas \cup {Callers}
  /\ wants \in [Threads -> Schemas \cup {Unnamed}]
  /\ misread \in BOOLEAN
  /\ shared \in BOOLEAN

\* As long as no two calls overlap, no staging volume is set up, whichever
\* thread connects and however often a connection fails (connect.py:304-310).
AloneStagesNothing == ~ overlapped => ~ staged

\* As long as no two calls overlap, the class is as ibis defined it whenever
\* no thread is connecting (connect.py:307-310).
AloneRestoresTheClass ==
  ~ overlapped /\ (\A t \in Threads : ~ Inside(t)) => postConnect = "original"

\* The inductive invariant behind both: the thread that is alone inside knows
\* the original and, from the patch to the restore, has replaced it.
Alone ==
  ~ overlapped =>
    /\ ~ staged
    /\ \A t, u \in Threads : Inside(t) /\ Inside(u) => t = u
    /\ (\A t \in Threads : ~ Inside(t)) => postConnect = "original"
    /\ \A t \in Threads : Inside(t) => saved[t] = "original"
    /\ \A t \in Threads : pc[t] = "patch" => postConnect = "original"
    /\ \A t \in Threads : pc[t] \in {"open", "post", "restore"} => postConnect = "nothing"

\* As long as no two runs use the session at once, every run whose server names
\* a schema reads its tables there, wherever the caller or an earlier run has
\* left the session, and also if connects that failed came in between
\* (connect.py:111-117, ibis_check_execute.py:1592-1638).
AloneReadsItsOwn == ~ shared => ~ misread

\* The inductive invariant behind it: the run that is alone in the session
\* finds it where its server says.
SessionIsOwn ==
  ~ shared =>
    /\ ~ misread
    /\ \A t, u \in Threads : InSession(t) /\ InSession(u) => t = u
    /\ \A t \in Threads : InSession(t) => wants[t] \in {Unnamed, schema}

\* What the docstring promises of every call (connect.py:284-292): "Connect to
\* Databricks without creating ibis's memtable staging volume."
NoStagingVolume == ~ staged
=============================================================================
