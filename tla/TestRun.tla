------------------------------- MODULE TestRun -------------------------------
(***************************************************************************)
(* One test run of a data contract: DataContract.test (data_contract.py)   *)
(* with execute_data_contract_test (engines/data_contract_test.py) and     *)
(* execute_ibis_checks (engines/ibis/ibis_check_execute.py), up to the     *)
(* verdict (model/run.py) and its publication.                             *)
(*                                                                         *)
(* The checks a contract leads to are numbered in the order create_checks  *)
(* emits them.  Every registered check has a key; results are recorded     *)
(* under the key, not under the check.                                     *)
(***************************************************************************)
EXTENDS Integers, FiniteSets, FiniteSetsExt

CONSTANTS
  NumSpecs,   \* the checks of the contract are 1 .. NumSpecs
  Key,        \* the key of each check
  Model,      \* the model each check belongs to
  Kind,       \* how it is evaluated, see Kinds
  Parent,     \* the type check of the enclosing property, 0 for none
  Preset      \* the result of an unsupported check

Specs == 1 .. NumSpecs

\* count: a row count batched into one aggregation per model; query: a query
\* of its own; type: a type line read from the catalog; present: presence of
\* a column, read from the catalog; unsupported: cannot be executed.
Kinds == {"count", "query", "type", "present", "unsupported"}

ResultEnum == {"passed", "warning", "failed", "error", "info", "skipped", "unknown"}

ASSUME TestRunAssumption ==
  /\ NumSpecs \in Nat
  /\ Kind \in [Specs -> Kinds]
  /\ Parent \in [Specs -> {0} \cup Specs]
  /\ Preset \in [Specs -> {"warning", "failed", "error"}]
  /\ DOMAIN Key = Specs /\ DOMAIN Model = Specs
  /\ \A s \in Specs : Parent[s] # 0 => Kind[Parent[s]] = "type" /\ Model[Parent[s]] = Model[s] /\ Parent[Parent[s]] = 0

VARIABLES
  opt,         \* how the run was started
  pc,          \* where the run is
  selected,    \* the checks registered on the run
  result,      \* the result of each registered check, "none" at first
  mismatch,    \* checks whose reason is a structure their parent cannot hold
  extra,       \* the results of the checks appended without a key
  todo,        \* checks still to be executed
  specs,       \* the checks of the model being run
  pending,     \* those of them not looked at yet
  batch,       \* those of them waiting for the aggregation
  con,         \* the connection to the data source
  contractId,  \* dataContractId is set on the run
  dryRun,      \* run.dryRun
  verdict,     \* run.result
  published,   \* run.publish_succeeded
  found        \* history: what evaluating each check by itself came to

checks == <<selected, result, mismatch, found>>
work == <<todo, specs, pending, batch>>
outcome == <<contractId, dryRun, verdict, published>>
vars == <<opt, pc, selected, result, mismatch, extra, todo, specs, pending, batch,
          con, contractId, dryRun, verdict, published, found>>

\* dry_run, metadata_only, whether publishing was requested, whether the
\* server's files get checks of their own, and what the caller handed over.
Options ==
  [dry : BOOLEAN, metadataOnly : BOOLEAN, publish : BOOLEAN,
   server : {"files", "database", "dataframe"},
   given : {"nothing", "spark", "duckdb"}]

\* What a DataContractException reports of itself.
RaisedResults == {"failed", "error", "warning"}

NoConnection == [backend |-> "none", owner |-> "none", open |-> FALSE]

Init ==
  /\ opt \in Options
  /\ pc = "resolve"
  /\ selected = {}
  /\ result = [s \in Specs |-> "none"]
  /\ mismatch = {}
  /\ extra = {}
  /\ todo = {} /\ specs = {} /\ pending = {} /\ batch = {}
  /\ con = NoConnection
  /\ contractId = FALSE
  /\ dryRun = FALSE
  /\ verdict = "unknown"
  /\ published = "no"
  /\ found = [s \in Specs |-> "none"]

-----------------------------------------------------------------------------
(* A result is recorded under a key: the first registered check with that  *)
(* key takes it, the last one recorded stays.  A reason is only replaced   *)
(* by another one, and a check that passes has none.                       *)
First(sel, s) == Min({t \in sel : Key[t] = Key[s]})

Under(S) == {t \in Specs : \E s \in S : First(selected, s) = t}

SetResults(S, r) ==
  [t \in Specs |-> IF t \in Under(S) THEN r[Max({s \in S : First(selected, s) = t})] ELSE result[t]]

Reasons(S, r) == mismatch \ Under({s \in S : r[s] # "passed"})

\* The evaluation of the checks S came to r.
Found(S, r) ==
  /\ result' = SetResults(S, r)
  /\ found' = [s \in Specs |-> IF s \in S THEN r[s] ELSE found[s]]

Record(S, r) == Found(S, r) /\ mismatch' = Reasons(S, r)

RecordAll(S, r) == Record(S, [s \in S |-> r])

BrokenReadsData(s) == Kind[s] = "count"
ReadsData(s) == Kind[s] \in {"count", "query"}

\* An exception caught by DataContract.test becomes a check.
Raise(r) ==
  /\ pc' = "finish"
  /\ extra' = extra \cup {r}

\* The connection is disposed of, unless it may be the caller's: every
\* pyspark one, every DuckDB one when a DuckDB connection was handed over,
\* every one when a Spark session was.
BrokenDisposed ==
  IF con.backend = "pyspark" \/ opt.given = "spark" THEN con ELSE [con EXCEPT !.open = FALSE]

Disposed ==
  IF \/ con.backend = "pyspark"
     \/ con.backend = "duckdb" /\ opt.given = "duckdb"
     \/ opt.given = "spark"
  THEN con
  ELSE [con EXCEPT !.open = FALSE]

-----------------------------------------------------------------------------
(* Before the checks are known.                                            *)

\* The contract is read, validated and its references are inlined.
Resolve ==
  /\ pc = "resolve"
  /\ \/ pc' = "prepare" /\ extra' \in {{}, {"warning"}}
     \/ \E r \in RaisedResults : Raise(r)
     \/ pc' = "raised" /\ UNCHANGED extra
  /\ UNCHANGED <<opt, checks, work, con, outcome>>

\* Server and variables are resolved, the schema, quality rules and filters
\* asked for must exist, and an API is fetched.
Prepare ==
  /\ pc = "prepare"
  /\ \/ pc' = "finish" /\ UNCHANGED <<extra, contractId>>
     \/ \E r \in RaisedResults : Raise(r) /\ contractId' \in BOOLEAN
     \/ pc' = "plan" /\ contractId' = TRUE /\ UNCHANGED extra
  /\ UNCHANGED <<opt, checks, work, con, dryRun, verdict, published>>

BrokenAfterPlan == IF opt.dry /\ ~ opt.metadataOnly THEN "dry" ELSE "files"
AfterPlan == IF opt.dry THEN "dry" ELSE "files"

\* The checks left by the category, dimension, id and tag filters are
\* registered; --metadata-only skips those that read rows.
Plan ==
  /\ pc = "plan"
  /\ \E sel \in SUBSET Specs :
       LET skipped == IF opt.metadataOnly THEN {s \in sel : ReadsData(s)} ELSE {} IN
       /\ selected' = sel
       /\ result' = [t \in Specs |->
                       IF \E s \in skipped : First(sel, s) = t THEN "skipped" ELSE "none"]
       /\ todo' = sel \ skipped
  /\ pc' = AfterPlan
  /\ UNCHANGED <<opt, extra, mismatch, found, specs, pending, batch, con, outcome>>

\* A contract the checks cannot be created from.
PlanFails ==
  /\ pc = "plan"
  /\ Raise("error")
  /\ UNCHANGED <<opt, checks, work, con, outcome>>

\* The plan is reported instead of being executed. Building the JSON Schemas
\* may fail; file-metadata checks cannot be planned and leave a warning.
ReportDryRun ==
  /\ pc = "dry"
  /\ dryRun' = TRUE
  /\ result' = SetResults(todo, [s \in Specs |-> IF Kind[s] = "unsupported" THEN Preset[s] ELSE "skipped"])
  /\ \/ opt.server # "files" /\ pc' = "finish" /\ UNCHANGED extra
     \/ /\ opt.server = "files" /\ pc' = "finish"
        /\ \E planned \in SUBSET {"skipped"} : extra' = extra \cup planned \cup {"error"}
     \/ /\ opt.server = "files" /\ pc' = "finish"
        /\ \E planned \in SUBSET {"skipped", "warning"} : extra' = extra \cup planned
  /\ UNCHANGED <<opt, selected, mismatch, found, work, con, contractId, verdict, published>>

-----------------------------------------------------------------------------
(* The checks on files: JSON Schema validation, blob metadata.  They add    *)
(* their results one by one, before an exception also.                     *)
FileResults == {"passed", "failed", "error", "warning", "skipped"}

CheckFiles ==
  /\ pc = "files"
  /\ \/ opt.server # "files" /\ pc' = "presets" /\ UNCHANGED extra
     \/ opt.server = "files" /\ pc' = "presets"
        /\ \E rs \in SUBSET FileResults : extra' = extra \cup rs
     \/ opt.server = "files" /\ pc' = "finish"
        /\ \E rs \in SUBSET FileResults, r \in RaisedResults : extra' = extra \cup rs \cup {r}
  /\ UNCHANGED <<opt, checks, work, con, outcome>>

-----------------------------------------------------------------------------
(* The checks on tables.                                                   *)

ReportUnsupported ==
  LET unsupported == {s \in todo : Kind[s] = "unsupported"} IN
  /\ pc = "presets"
  /\ result' = SetResults(unsupported, Preset)
  /\ todo' = todo \ unsupported
  /\ pc' = IF todo' = {} THEN "finish" ELSE "connect"
  /\ UNCHANGED <<opt, selected, mismatch, found, extra, specs, pending, batch, con, outcome>>

\* The backend that answers: pyspark wraps the caller's session; duckdb uses
\* the caller's connection where it was handed one, except for duckdb
\* database files and mysql.
Backends ==
  {[backend |-> "other", owner |-> "run", open |-> TRUE],
   [backend |-> "duckdb", owner |-> "run", open |-> TRUE]}
  \cup (IF opt.given = "spark" THEN {[backend |-> "pyspark", owner |-> "caller", open |-> TRUE]} ELSE {})
  \cup (IF opt.given = "duckdb" THEN {[backend |-> "duckdb", owner |-> "caller", open |-> TRUE]} ELSE {})

Connect ==
  /\ pc = "connect"
  /\ con' \in Backends
  /\ pc' = "model"
  /\ UNCHANGED <<opt, checks, extra, work, outcome>>

BrokenCannotConnect ==
  /\ pc = "connect"
  /\ pc' = "finish"
  /\ UNCHANGED <<opt, checks, extra, work, con, outcome>>

\* A server type that is not supported leaves a warning; a data frame without
\* a Spark session leaves only a line in the log.
CannotConnect ==
  /\ pc = "connect"
  /\ pc' = "finish"
  /\ IF opt.server = "dataframe" /\ opt.given # "spark"
       THEN UNCHANGED extra
       ELSE extra' = extra \cup {"warning"}
  /\ UNCHANGED <<opt, checks, work, con, outcome>>

\* A backend that is not installed or refuses the connection fails the run,
\* any other exception is the run's own.
ConnectFails ==
  /\ pc = "connect"
  /\ \E r \in RaisedResults : Raise(r)
  /\ UNCHANGED <<opt, checks, work, con, outcome>>

BrokenNextModel == {s \in Specs : Model[s] = Model[Min(todo)]}
NextModel == {s \in todo : Model[s] = Model[Min(todo)]}

BrokenBeginModel ==
  /\ pc = "model" /\ todo # {}
  /\ specs' = NextModel
  /\ pending' = NextModel
  /\ pc' = "check"
  /\ UNCHANGED <<opt, checks, extra, todo, batch, con, outcome>>

BeginModel ==
  /\ pc = "model" /\ todo # {}
  /\ specs' = NextModel
  /\ pending' = NextModel
  /\ todo' = todo \ NextModel
  /\ pc' = "check"
  /\ UNCHANGED <<opt, checks, extra, batch, con, outcome>>

TableUnreadable ==
  /\ pc = "model" /\ todo # {}
  /\ RecordAll(NextModel, "failed")
  /\ todo' = todo \ NextModel
  /\ UNCHANGED <<opt, pc, selected, extra, specs, pending, batch, con, outcome>>

\* A row filter that does not compile: only the checks that read rows err,
\* the others of the model are run without it.
ReadingRows == {s \in NextModel : ReadsData(s)}

BrokenWithoutFilter == NextModel
WithoutFilter == NextModel \ ReadingRows

FilterUnusable ==
  /\ pc = "model" /\ todo # {}
  /\ RecordAll(ReadingRows, "error")
  /\ todo' = todo \ NextModel
  /\ specs' = WithoutFilter
  /\ pending' = WithoutFilter
  /\ pc' = IF WithoutFilter = {} THEN "model" ELSE "check"
  /\ UNCHANGED <<opt, selected, extra, batch, con, outcome>>

\* The catalog cannot be read: the exception ends the run, the connection is
\* disposed of on the way.
BrokenIntrospectionFails ==
  /\ pc = "model" /\ todo # {}
  /\ Raise("error")
  /\ UNCHANGED <<opt, checks, work, con, outcome>>

IntrospectionFails ==
  /\ pc = "model" /\ todo # {}
  /\ con' = Disposed
  /\ Raise("error")
  /\ UNCHANGED <<opt, checks, work, outcome>>

\* What a check can come to by itself: whether its threshold holds, its
\* severity, a column that is missing, an exception, a constraint that cannot
\* be measured.
Outcomes(s) ==
  IF Kind[s] = "count" THEN {"passed", "failed", "warning", "error"}
                       ELSE {"passed", "failed", "warning"}

EvaluateCheck ==
  LET s == Min(pending) IN
  /\ pc = "check" /\ pending # {}
  /\ \/ \E r \in Outcomes(s) : RecordAll({s}, r)
     \/ /\ Parent[s] # 0
        /\ Found({s}, [c \in {s} |-> "warning"])
        /\ mismatch' = mismatch \cup Under({s})
  /\ pending' = pending \ {s}
  /\ UNCHANGED <<opt, pc, selected, extra, todo, specs, batch, con, outcome>>

BatchCheck ==
  LET s == Min(pending) IN
  /\ pc = "check" /\ pending # {}
  /\ Kind[s] = "count"
  /\ batch' = batch \cup {s}
  /\ pending' = pending \ {s}
  /\ UNCHANGED <<opt, pc, checks, extra, todo, specs, con, outcome>>

\* One query measures every count of the model. It cannot name two columns
\* by the same key.
Aggregate ==
  /\ pc = "check" /\ pending = {} /\ batch # {}
  /\ \A s, t \in batch : Key[s] = Key[t] => s = t
  /\ \E r \in [batch -> {"passed", "failed", "warning"}] : Record(batch, r)
  /\ batch' = {}
  /\ UNCHANGED <<opt, pc, selected, extra, todo, specs, pending, con, outcome>>

AggregationFails ==
  /\ pc = "check" /\ pending = {} /\ batch # {}
  /\ RecordAll(batch, "failed")
  /\ batch' = {}
  /\ UNCHANGED <<opt, pc, selected, extra, todo, specs, pending, con, outcome>>

\* A structure the parent cannot hold is put right at the parent's type line,
\* so that line fails, if it is among the checks that were run.
BrokenMismatchedParents ==
  {t \in Under({Parent[c] : c \in {s \in specs : Under({s}) \subseteq mismatch}} \cap specs) : result[t] = "passed"}

MismatchedParents == Under({Parent[c] : c \in {s \in specs : Under({s}) \subseteq mismatch}} \cap specs)

EndModel ==
  /\ pc = "check" /\ pending = {} /\ batch = {}
  /\ result' = [t \in Specs |-> IF t \in MismatchedParents THEN "failed" ELSE result[t]]
  /\ mismatch' = mismatch \ {t \in MismatchedParents : result[t] # "failed"}
  /\ specs' = {}
  /\ pc' = "model"
  /\ UNCHANGED <<opt, selected, found, extra, todo, pending, batch, con, outcome>>

Disconnect ==
  /\ pc = "model" /\ todo = {}
  /\ con' = Disposed
  /\ pc' = "finish"
  /\ UNCHANGED <<opt, checks, extra, work, outcome>>

-----------------------------------------------------------------------------
(* The verdict.                                                            *)

Results == {result[s] : s \in selected} \cup extra

BrokenVerdict ==
  CASE "failed" \in Results -> "failed"
    [] "error" \in Results /\ "failed" \notin Results -> "error"
    [] "warning" \in Results /\ Results \cap {"error", "failed"} = {} -> "warning"
    [] OTHER -> IF "passed" \in Results THEN "passed" ELSE "unknown"

Verdict ==
  CASE "error" \in Results -> "error"
    [] "failed" \in Results /\ "error" \notin Results -> "failed"
    [] "warning" \in Results /\ Results \cap {"error", "failed"} = {} -> "warning"
    [] Results \cap {"error", "failed", "warning"} = {} ->
         IF dryRun THEN IF Results = {} THEN "unknown" ELSE "skipped"
         ELSE IF "passed" \in Results THEN "passed"
         ELSE IF "skipped" \in Results THEN "skipped" ELSE "unknown"

Finish ==
  /\ pc = "finish"
  /\ verdict' = Verdict
  /\ pc' = "publish"
  /\ UNCHANGED <<opt, checks, extra, work, con, contractId, dryRun, published>>

BrokenPublishable == opt.publish /\ ~ opt.dry
Publishable == opt.publish /\ ~ opt.dry /\ verdict \notin {"skipped", "unknown"}

SkipPublish ==
  /\ pc = "publish" /\ ~ Publishable
  /\ pc' = "done"
  /\ UNCHANGED <<opt, checks, extra, work, con, outcome>>

\* A run that never learned its contract's id is not sent.
Publish ==
  /\ pc = "publish" /\ Publishable
  /\ published' \in IF contractId THEN {"succeeded", "failed"} ELSE {"failed"}
  /\ pc' = "done"
  /\ UNCHANGED <<opt, checks, extra, work, con, contractId, dryRun, verdict>>

-----------------------------------------------------------------------------
Next ==
  \/ Resolve \/ Prepare \/ Plan \/ PlanFails \/ ReportDryRun
  \/ CheckFiles \/ ReportUnsupported
  \/ Connect \/ CannotConnect \/ ConnectFails
  \/ BeginModel \/ TableUnreadable \/ FilterUnusable \/ IntrospectionFails
  \/ EvaluateCheck \/ BatchCheck \/ Aggregate \/ AggregationFails
  \/ EndModel \/ Disconnect
  \/ Finish \/ SkipPublish \/ Publish

Spec == Init /\ [][Next]_vars

\* A run is one thread of sequential code.
FairSpec == Spec /\ WF_vars(Next)

-----------------------------------------------------------------------------
Answers == ResultEnum \cup {"none"}

TypeOK ==
  /\ opt \in Options
  /\ pc \in {"resolve", "prepare", "plan", "dry", "files", "presets", "connect", "model",
            "check", "finish", "publish", "done", "raised"}
  /\ selected \subseteq Specs
  /\ result \in [Specs -> Answers]
  /\ mismatch \subseteq Specs
  /\ extra \subseteq ResultEnum
  /\ todo \subseteq selected /\ specs \subseteq selected
  /\ pending \subseteq specs /\ batch \subseteq specs
  /\ pc # "check" => specs = {} /\ batch = {}
  /\ con \in [backend : {"none", "other", "duckdb", "pyspark"},
              owner : {"none", "run", "caller"}, open : BOOLEAN]
  /\ contractId \in BOOLEAN
  /\ dryRun \in BOOLEAN
  /\ verdict \in ResultEnum
  /\ published \in {"no", "succeeded", "failed"}
  /\ found \in [Specs -> Answers]

\* No other check registered on the run has the key of s.
OwnKey(s) == \A t \in selected : Key[t] = Key[s] => t = s

Severity == [r \in Answers |-> CASE r = "error" -> 3 [] r = "failed" -> 2 [] r = "warning" -> 1 [] OTHER -> 0]

Concluded == pc \in {"publish", "done"}

\* What makes the properties below inductive: who the connection belongs to
\* and when the run still owes its disposal; what a dry run cannot reach; what
\* --metadata-only has taken out of the work; and that the work left has not
\* been evaluated, so that no answer under a key of its own is ever replaced by
\* a milder one.
MayBeTheCallers ==
  opt.given = "spark" \/ (opt.given = "duckdb" /\ con.backend = "duckdb")

Ownership ==
  /\ con.owner = "caller" =>
       con.open /\ (con.backend = "pyspark" \/ (con.backend = "duckdb" /\ opt.given = "duckdb"))
  /\ con.backend = "pyspark" => opt.given = "spark"
  /\ con.open => con.owner # "none"
  /\ con.owner = "run" /\ con.open /\ pc \notin {"model", "check"} => MayBeTheCallers

Planned ==
  opt.dry => /\ pc \notin {"files", "presets", "connect", "model", "check"}
             /\ \A s \in Specs : found[s] = "none"
             /\ con = NoConnection
             /\ "passed" \notin Results /\ verdict # "passed"
             /\ published = "no"

Unread ==
  opt.metadataOnly => \A s \in Specs : ReadsData(s) => found[s] = "none" /\ s \notin todo \cup specs

Early == pc \in {"resolve", "prepare", "plan"}

Kept ==
  /\ \A s \in Specs : OwnKey(s) => Severity[found[s]] <= Severity[result[s]]
  /\ \A s \in Specs : found[s] # "none" => s \in selected
  /\ \A s \in Specs : OwnKey(s) /\ Kind[s] = "type" => result[s] # "error"
  /\ \A s \in todo \cup pending \cup batch : found[s] = "none"
  /\ specs \cap todo = {} /\ pending \cap batch = {}
  /\ Early => \A s \in Specs : found[s] = "none"
  /\ Concluded => \A s \in selected : Severity[result[s]] <= Severity[verdict]

Discipline == Ownership /\ Planned /\ Unread /\ Kept

\* Nothing the evaluation of a check came to is lost on the way to the verdict,
\* unless another check of the run shares its key: not by a
\* later step recording over it, not by the aggregation, not by a row filter
\* or an exception that stops the run half way (ibis_check_execute.py:218-423,
\* run.py:241-266).
NothingFoundIsLost ==
  Concluded => \A s \in Specs : OwnKey(s) => Severity[found[s]] <= Severity[verdict]

\* A run is called passed only if every check registered under a key of its own
\* was answered, whatever keys the others share:
\* whatever ends a run early leaves a trace that is worse than passed
\* (ibis_check_execute.py:134-175, data_contract.py:268-294).
PassedIsComplete ==
  Concluded /\ verdict = "passed" => \A s \in selected : OwnKey(s) => result[s] # "none"

\* A dry run evaluates nothing, connects to nothing, passes nothing and is
\* never published (data_contract_test.py:189-202, run.py:242-254).
DryRunAssertsNothing ==
  opt.dry => /\ \A s \in Specs : found[s] = "none"
             /\ con = NoConnection
             /\ verdict # "passed"
             /\ published = "no"

\* With --metadata-only no check that reads rows is evaluated, on no path
\* (data_contract_test.py:180-187, check_spec.py:43-47).
MetadataOnlyReadsNoRows ==
  opt.metadataOnly => \A s \in Specs : Kind[s] \in {"count", "query"} => found[s] = "none"

\* What the caller handed over is still open when the run returns or raises:
\* a Spark session, a DuckDB connection (ibis_check_execute.py:198-215).
CallerKeepsConnection == con.owner = "caller" => con.open

\* A run never leaves a connection of its own behind, also not when an
\* exception cuts it short, unless the disposal cannot tell it from what the
\* caller handed over: any with a Spark session, a DuckDB one with a DuckDB
\* connection (ibis_check_execute.py:181-215).
OwnConnectionIsClosed ==
  con.owner = "run" /\ Concluded => ~ con.open \/ MayBeTheCallers

\* A check skipped with a warning because of the structure of the property
\* it is in leaves that property's type line failed, once its model was run
\* and if that line was among the checks, each under a key of its own
\* (ibis_check_execute.py:386-396).
MismatchFailsItsParent ==
  \A s \in mismatch \ specs :
    Parent[s] \in selected /\ OwnKey(s) /\ OwnKey(Parent[s]) => result[Parent[s]] = "failed"

\* No check is evaluated twice, and an answer recorded under a key of its own
\* changes only where a type line is made to fail for a structure below it
\* (ibis_check_execute.py:271-289, 298-396).
AnsweredOnce ==
  [][\A s \in Specs :
       /\ found[s] # "none" => found'[s] = found[s]
       /\ result[s] # "none" /\ OwnKey(s) => result'[s] \in {result[s], "failed"}]_vars

\* What callers see of where a run is.
Phase ==
  CASE pc = "raised" -> "raised" [] pc = "done" -> "returned"
    [] pc = "publish" -> "concluded" [] OTHER -> "running"

\* The verdict of a run is given once, and only a run that executed something
\* is published, after it (data_contract.py:296-308).
Promise == INSTANCE RunPromise WITH Verdicts <- ResultEnum, phase <- Phase

KeepsPromise == Promise!Spec

\* Every run returns or raises.
RunEnds == <>(pc \in {"done", "raised"})

\* What Run.result documents (run.py:215-219): passed only if every check
\* passed; here, only if no evaluation of a check failed.
PassedMeansNothingFailed ==
  Concluded /\ verdict = "passed" => \A s \in Specs : found[s] # "failed"
=============================================================================
