---------------------------- MODULE TestRunProofs ----------------------------
(***************************************************************************)
(* What holds of TestRun for every contract: any number of checks, with    *)
(* any keys, models, kinds and parents.                                    *)
(***************************************************************************)
EXTENDS TestRun, NatSetLemmas, TLAPS

\* The checks are natural numbers.
LEMMA SpecsAreNumbers == NumSpecs \in Nat /\ Specs \subseteq 0 .. NumSpecs /\ Specs \subseteq Nat
<1>1. NumSpecs \in Nat
  BY TestRunAssumption
<1> QED BY <1>1 DEF Specs

\* Recording results for S changes only the entries that answer for S, and
\* those get one of the recorded results (ibis_check_execute.py:1240-1247).
LEMMA RecordedResult ==
  ASSUME NEW S \in SUBSET Specs, NEW r, NEW t \in Specs
  PROVE  \/ SetResults(S, r)[t] = result[t] /\ t \notin Under(S)
         \/ \E s \in S : SetResults(S, r)[t] = r[s] /\ First(selected, s) = t
<1>1. CASE t \notin Under(S)
  BY <1>1 DEF SetResults
<1>2. CASE t \in Under(S)
  <2> DEFINE U == {s \in S : First(selected, s) = t}
  <2>1. U # {}
    BY <1>2 DEF Under
  <2>2. U \in SUBSET (0 .. NumSpecs)
    BY SpecsAreNumbers
  <2>3. Max(U) \in U
    <3> HIDE DEF U
    <3> QED BY <2>1, <2>2, MaxOfInterval, SpecsAreNumbers
  <2>4. SetResults(S, r)[t] = r[Max(U)]
    BY <1>2 DEF SetResults
  <2> QED BY <2>3, <2>4
<1> QED BY <1>1, <1>2

\* What set_result records is a result, for every check it records under
\* (ibis_check_execute.py:1240-1247).
LEMMA RecordedType ==
  ASSUME TypeOK, NEW S \in SUBSET Specs, NEW r, \A s \in S : r[s] \in Answers
  PROVE  SetResults(S, r) \in [Specs -> Answers]
<1>1. ASSUME NEW t \in Specs PROVE SetResults(S, r)[t] \in Answers
  <2>1. result[t] \in Answers
    BY DEF TypeOK
  <2>2. CASE SetResults(S, r)[t] = result[t]
    BY <2>1, <2>2
  <2>3. CASE \E s \in S : SetResults(S, r)[t] = r[s]
    BY <2>3
  <2> QED BY <2>2, <2>3, RecordedResult
<1> DEFINE e(t) == IF t \in Under(S) THEN r[Max({s \in S : First(selected, s) = t})] ELSE result[t]
<1>2. SetResults(S, r) = [t \in Specs |-> e(t)]
  BY DEF SetResults
<1>3. \A t \in Specs : e(t) \in Answers
  BY <1>1, <1>2
<1> HIDE DEF e
<1> QED BY <1>2, <1>3

\* One evaluation: what it leaves in result, found and mismatch.
LEMMA EvaluatedType ==
  ASSUME TypeOK, NEW S \in SUBSET Specs, NEW r, \A s \in S : r[s] \in Answers, Found(S, r)
  PROVE  result' \in [Specs -> Answers] /\ found' \in [Specs -> Answers]
<1>1. result' \in [Specs -> Answers]
  BY RecordedType DEF Found
<1>2. found' \in [Specs -> Answers]
  BY DEF Found, TypeOK
<1> QED BY <1>1, <1>2

\* So is what one evaluation records, its reason included
\* (ibis_check_execute.py:1181-1228).
LEMMA RecordType ==
  ASSUME TypeOK, NEW S \in SUBSET Specs, NEW r, \A s \in S : r[s] \in Answers, Record(S, r)
  PROVE  /\ result' \in [Specs -> Answers] /\ found' \in [Specs -> Answers]
         /\ mismatch' \subseteq Specs
BY EvaluatedType DEF Record, Reasons, TypeOK

\* And what is recorded for several checks at once
\* (_fail_all, ibis_check_execute.py:1304-1306).
LEMMA RecordAllType ==
  ASSUME TypeOK, NEW S \in SUBSET Specs, NEW a \in Answers, RecordAll(S, a)
  PROVE  /\ result' \in [Specs -> Answers] /\ found' \in [Specs -> Answers]
         /\ mismatch' \subseteq Specs
<1>1. \A s \in S : [u \in S |-> a][s] \in Answers
  OBVIOUS
<1>2. Record(S, [u \in S |-> a])
  BY DEF RecordAll
<1> QED BY <1>1, <1>2, RecordType, Zenon

\* The verdict is one of the results (run.py:241-266).
LEMMA VerdictType == Verdict \in ResultEnum
<1>1. CASE "error" \in Results
  BY <1>1 DEF Verdict, ResultEnum
<1>2. CASE "failed" \in Results /\ "error" \notin Results
  BY <1>2 DEF Verdict, ResultEnum
<1>3. CASE "warning" \in Results /\ Results \cap {"error", "failed"} = {}
  BY <1>3 DEF Verdict, ResultEnum
<1>4. CASE Results \cap {"error", "failed", "warning"} = {}
  BY <1>4 DEF Verdict, ResultEnum
<1> QED BY <1>1, <1>2, <1>3, <1>4

\* A connection is opened by the run or wraps what the caller handed over; in
\* that case it is a Spark session's or the caller's DuckDB connection
\* (connect.py:50-219).
LEMMA BackendsAreOpen ==
  ASSUME NEW c \in Backends
  PROVE  \E b \in {"other", "duckdb", "pyspark"}, o \in {"run", "caller"} :
           /\ c = [backend |-> b, owner |-> o, open |-> TRUE]
           /\ o = "caller" => b = "pyspark" \/ (b = "duckdb" /\ opt.given = "duckdb")
           /\ b = "pyspark" => opt.given = "spark"
<1> DEFINE Wanted == \E b \in {"other", "duckdb", "pyspark"}, o \in {"run", "caller"} :
             /\ c = [backend |-> b, owner |-> o, open |-> TRUE]
             /\ o = "caller" => b = "pyspark" \/ (b = "duckdb" /\ opt.given = "duckdb")
             /\ b = "pyspark" => opt.given = "spark"
<1>1. CASE c = [backend |-> "other", owner |-> "run", open |-> TRUE]
  <2>1. "other" \in {"other", "duckdb", "pyspark"} /\ "other" # "pyspark" /\ "run" \in {"run", "caller"} /\ "run" # "caller"
    OBVIOUS
  <2> QED BY <1>1, <2>1, Zenon
<1>5. CASE c = [backend |-> "duckdb", owner |-> "run", open |-> TRUE]
  <2>1. "duckdb" \in {"other", "duckdb", "pyspark"} /\ "duckdb" # "pyspark" /\ "run" \in {"run", "caller"} /\ "run" # "caller"
    OBVIOUS
  <2> QED BY <1>5, <2>1, Zenon
<1>2. CASE opt.given = "spark" /\ c = [backend |-> "pyspark", owner |-> "caller", open |-> TRUE]
  <2>1. "pyspark" \in {"other", "duckdb", "pyspark"} /\ "caller" \in {"run", "caller"}
    OBVIOUS
  <2> QED BY <1>2, <2>1
<1>3. CASE opt.given = "duckdb" /\ c = [backend |-> "duckdb", owner |-> "caller", open |-> TRUE]
  <2>1. "duckdb" \in {"other", "duckdb", "pyspark"} /\ "duckdb" # "pyspark" /\ "caller" \in {"run", "caller"}
    OBVIOUS
  <2> QED BY <1>3, <2>1
<1>4. \/ c = [backend |-> "other", owner |-> "run", open |-> TRUE]
      \/ c = [backend |-> "duckdb", owner |-> "run", open |-> TRUE]
      \/ opt.given = "spark" /\ c = [backend |-> "pyspark", owner |-> "caller", open |-> TRUE]
      \/ opt.given = "duckdb" /\ c = [backend |-> "duckdb", owner |-> "caller", open |-> TRUE]
  BY DEF Backends
<1> QED BY <1>1, <1>5, <1>2, <1>3, <1>4, Zenon

\* Every step keeps the types of the variables, and the checks being worked
\* on are among those registered (data_contract_test.py:149-233,
\* ibis_check_execute.py:105-399).
THEOREM TypeCorrect == Spec => []TypeOK
<1>1. Init => TypeOK
  <2> SUFFICES ASSUME Init PROVE TypeOK
    OBVIOUS
  <2>1. NoConnection \in [backend : {"none", "other", "duckdb", "pyspark"},
                         owner : {"none", "run", "caller"}, open : BOOLEAN]
    BY DEF NoConnection
  <2>2. result \in [Specs -> Answers] /\ found \in [Specs -> Answers]
    BY DEF Init, Answers
  <2> QED BY <2>1, <2>2 DEF Init, TypeOK, ResultEnum
<1>2. TypeOK /\ [Next]_vars => TypeOK'
  <2> SUFFICES ASSUME TypeOK, [Next]_vars PROVE TypeOK'
    OBVIOUS
  <2> USE DEF checks, work, outcome, Raise, RaisedResults
  <2>1. CASE Resolve
    <3>1. extra' \subseteq ResultEnum
      BY <2>1 DEF Resolve, TypeOK, ResultEnum
    <3>2. pc = "resolve" /\ pc' \in {"prepare", "finish", "raised"}
      BY <2>1 DEF Resolve
    <3> QED BY <2>1, <3>1, <3>2 DEF Resolve, TypeOK
  <2>2. CASE Prepare
    <3>1. extra' \subseteq ResultEnum
      BY <2>2 DEF Prepare, TypeOK, ResultEnum
    <3>2. pc = "prepare" /\ pc' \in {"plan", "finish"} /\ contractId' \in BOOLEAN
      BY <2>2 DEF Prepare, TypeOK
    <3> QED BY <2>2, <3>1, <3>2 DEF Prepare, TypeOK
  <2>3. CASE Plan
    BY <2>3 DEF Plan, AfterPlan, TypeOK, Answers, ResultEnum
  <2>4. CASE PlanFails
    BY <2>4 DEF PlanFails, TypeOK, ResultEnum
  <2>5. CASE ReportDryRun
    <3> DEFINE plan == [s \in Specs |-> IF Kind[s] = "unsupported" THEN Preset[s] ELSE "skipped"]
    <3>1. todo \in SUBSET Specs /\ \A s \in todo : plan[s] \in Answers
      BY TestRunAssumption DEF TypeOK, Answers, ResultEnum
    <3>2. result' = SetResults(todo, plan)
      BY <2>5 DEF ReportDryRun
    <3>3. result' \in [Specs -> Answers]
      <4> HIDE DEF plan
      <4> QED BY <3>1, <3>2, RecordedType
    <3>4. extra' \subseteq ResultEnum
      BY <2>5 DEF ReportDryRun, TypeOK, ResultEnum
    <3>5. pc = "dry" /\ pc' = "finish" /\ dryRun' = TRUE
      BY <2>5 DEF ReportDryRun
    <3> QED BY <2>5, <3>3, <3>4, <3>5 DEF ReportDryRun, TypeOK
  <2>6. CASE CheckFiles
    <3>1. extra' \subseteq ResultEnum
      BY <2>6 DEF CheckFiles, FileResults, TypeOK, ResultEnum
    <3>2. pc = "files" /\ pc' \in {"presets", "finish"}
      BY <2>6 DEF CheckFiles
    <3> QED BY <2>6, <3>1, <3>2 DEF CheckFiles, TypeOK
  <2>7. CASE ReportUnsupported
    <3> DEFINE U == {s \in todo : Kind[s] = "unsupported"}
    <3>1. U \in SUBSET Specs /\ \A s \in U : Preset[s] \in Answers
      BY TestRunAssumption DEF TypeOK, Answers, ResultEnum
    <3>2. result' \in [Specs -> Answers]
      BY <2>7, <3>1, RecordedType DEF ReportUnsupported
    <3> QED BY <2>7, <3>2 DEF ReportUnsupported, TypeOK
  <2>8. CASE Connect
    <3>1. con' \in [backend : {"none", "other", "duckdb", "pyspark"},
                   owner : {"none", "run", "caller"}, open : BOOLEAN]
      <4>1. \E b \in {"other", "duckdb", "pyspark"}, o \in {"run", "caller"} :
              con' = [backend |-> b, owner |-> o, open |-> TRUE]
        BY <2>8, BackendsAreOpen DEF Connect
      <4> QED BY <4>1
    <3> QED BY <2>8, <3>1 DEF Connect, TypeOK
  <2>9. CASE CannotConnect
    BY <2>9 DEF CannotConnect, TypeOK, ResultEnum
  <2>10. CASE ConnectFails
    BY <2>10 DEF ConnectFails, TypeOK, ResultEnum
  <2>11. CASE BeginModel
    BY <2>11 DEF BeginModel, NextModel, TypeOK
  <2>12. CASE TableUnreadable
    <3>1. NextModel \in SUBSET Specs /\ "failed" \in Answers
      BY DEF NextModel, TypeOK, Answers, ResultEnum
    <3>2. RecordAll(NextModel, "failed")
      BY <2>12 DEF TableUnreadable
    <3>3. result' \in [Specs -> Answers] /\ found' \in [Specs -> Answers] /\ mismatch' \subseteq Specs
      BY <3>1, <3>2, RecordAllType
    <3> QED BY <2>12, <3>3 DEF TableUnreadable, TypeOK
  <2>13. CASE FilterUnusable
    <3>1. ReadingRows \in SUBSET Specs /\ "error" \in Answers
      BY DEF ReadingRows, NextModel, TypeOK, Answers, ResultEnum
    <3>2. RecordAll(ReadingRows, "error")
      BY <2>13 DEF FilterUnusable
    <3>3. result' \in [Specs -> Answers] /\ found' \in [Specs -> Answers] /\ mismatch' \subseteq Specs
      BY <3>1, <3>2, RecordAllType
    <3>4. WithoutFilter \subseteq todo
      BY DEF WithoutFilter, NextModel
    <3> QED BY <2>13, <3>3, <3>4 DEF FilterUnusable, TypeOK
  <2>14. CASE IntrospectionFails
    BY <2>14 DEF IntrospectionFails, Disposed, TypeOK, ResultEnum
  <2>15. CASE EvaluateCheck
    <3>1. Min(pending) \in pending
      <4>1. pending \in SUBSET Nat /\ pending # {}
        BY <2>15, TestRunAssumption DEF EvaluateCheck, TypeOK, Specs
      <4> QED BY <4>1, MinOfNat
    <3> DEFINE s == Min(pending)
    <3> HIDE DEF s
    <3>2. {s} \in SUBSET Specs
      BY <3>1 DEF TypeOK, s
    <3>3. result' \in [Specs -> Answers] /\ found' \in [Specs -> Answers] /\ mismatch' \subseteq Specs
      <4>1. CASE \E r \in Outcomes(s) : RecordAll({s}, r)
        <5>1. Outcomes(s) \subseteq Answers
          BY DEF Outcomes, Answers, ResultEnum
        <5> QED BY <3>2, <4>1, <5>1, RecordAllType
      <4>2. CASE Found({s}, [c \in {s} |-> "warning"]) /\ mismatch' = mismatch \cup Under({s})
        <5>1. \A c \in {s} : [d \in {s} |-> "warning"][c] \in Answers
          BY DEF Answers, ResultEnum
        <5>2. result' \in [Specs -> Answers] /\ found' \in [Specs -> Answers]
          BY <3>2, <4>2, <5>1, EvaluatedType
        <5> QED BY <4>2, <5>2 DEF Under, TypeOK
      <4> QED BY <2>15, <4>1, <4>2 DEF EvaluateCheck, s
    <3> QED BY <2>15, <3>3 DEF EvaluateCheck, TypeOK
  <2>16. CASE BatchCheck
    <3>1. Min(pending) \in pending
      <4>1. pending \in SUBSET Nat /\ pending # {}
        BY <2>16, TestRunAssumption DEF BatchCheck, TypeOK, Specs
      <4> QED BY <4>1, MinOfNat
    <3> QED BY <2>16, <3>1 DEF BatchCheck, TypeOK
  <2>17. CASE Aggregate
    <3>1. PICK r \in [batch -> {"passed", "failed", "warning"}] : Record(batch, r)
      BY <2>17 DEF Aggregate
    <3>2. batch \in SUBSET Specs /\ \A s \in batch : r[s] \in Answers
      BY DEF TypeOK, Answers, ResultEnum
    <3>3. result' \in [Specs -> Answers] /\ found' \in [Specs -> Answers] /\ mismatch' \subseteq Specs
      BY <3>1, <3>2, RecordType
    <3> QED BY <2>17, <3>3 DEF Aggregate, TypeOK
  <2>18. CASE AggregationFails
    <3>1. batch \in SUBSET Specs /\ "failed" \in Answers
      BY DEF TypeOK, Answers, ResultEnum
    <3>2. RecordAll(batch, "failed")
      BY <2>18 DEF AggregationFails
    <3>3. result' \in [Specs -> Answers] /\ found' \in [Specs -> Answers] /\ mismatch' \subseteq Specs
      BY <3>1, <3>2, RecordAllType
    <3> QED BY <2>18, <3>3 DEF AggregationFails, TypeOK
  <2>19. CASE EndModel
    BY <2>19 DEF EndModel, TypeOK, Answers, ResultEnum
  <2>20. CASE Disconnect
    BY <2>20 DEF Disconnect, Disposed, TypeOK
  <2>21. CASE Finish
    BY <2>21, VerdictType DEF Finish, TypeOK
  <2>22. CASE SkipPublish
    BY <2>22 DEF SkipPublish, TypeOK
  <2>23. CASE Publish
    BY <2>23 DEF Publish, TypeOK
  <2>24. CASE UNCHANGED vars
    BY <2>24 DEF vars, TypeOK
  <2> QED
    BY <2>1, <2>2, <2>3, <2>4, <2>5, <2>6, <2>7, <2>8, <2>9, <2>10, <2>11, <2>12, <2>13,
       <2>14, <2>15, <2>16, <2>17, <2>18, <2>19, <2>20, <2>21, <2>22, <2>23, <2>24 DEF Next
<1> QED
  BY <1>1, <1>2, PTL DEF Spec

-----------------------------------------------------------------------------
\* Whose connection it is, and when it is still to be disposed of: one case
\* per step that opens or disposes of it (ibis_check_execute.py:134-215).
LEMMA OwnershipStep == TypeOK /\ Ownership /\ [Next]_vars => Ownership'
<1> SUFFICES ASSUME TypeOK, Ownership, [Next]_vars PROVE Ownership'
  OBVIOUS
<1> USE DEF Ownership, MayBeTheCallers
<1>1. CASE Connect
  <2>1. PICK b \in {"other", "duckdb", "pyspark"}, o \in {"run", "caller"} :
          /\ con' = [backend |-> b, owner |-> o, open |-> TRUE]
          /\ o = "caller" => b = "pyspark" \/ (b = "duckdb" /\ opt.given = "duckdb")
          /\ b = "pyspark" => opt.given = "spark"
    BY <1>1, BackendsAreOpen DEF Connect
  <2> QED BY <1>1, <2>1 DEF Connect
<1>2. CASE con' = Disposed /\ UNCHANGED opt
  <2>1. CASE con' = con /\ MayBeTheCallers
    BY <1>2, <2>1
  <2>2. CASE con' = [con EXCEPT !.open = FALSE] /\ con.owner # "caller"
    BY <1>2, <2>2 DEF TypeOK
  <2> QED BY <1>2, <2>1, <2>2 DEF Disposed
<1>3. CASE /\ UNCHANGED <<opt, con>>
           /\ pc \in {"model", "check"} => pc' \in {"model", "check"}
  BY <1>3
<1>4. CASE ~ Connect
  <2>1. \/ con' = Disposed /\ UNCHANGED opt
        \/ /\ UNCHANGED <<opt, con>>
           /\ pc \in {"model", "check"} => pc' \in {"model", "check"}
    <3> USE DEF checks, work, outcome, Raise
    <3>1. CASE Resolve \/ Prepare \/ Plan \/ PlanFails \/ ReportDryRun \/ CheckFiles \/ ReportUnsupported
      BY <3>1 DEF Resolve, Prepare, Plan, PlanFails, ReportDryRun, CheckFiles, ReportUnsupported
    <3>2. CASE CannotConnect \/ ConnectFails \/ BeginModel \/ TableUnreadable \/ FilterUnusable
      BY <3>2 DEF CannotConnect, ConnectFails, BeginModel, TableUnreadable, FilterUnusable
    <3>3. CASE IntrospectionFails \/ Disconnect
      BY <3>3 DEF IntrospectionFails, Disconnect
    <3>4. CASE EvaluateCheck \/ BatchCheck \/ Aggregate \/ AggregationFails \/ EndModel
      BY <3>4 DEF EvaluateCheck, BatchCheck, Aggregate, AggregationFails, EndModel
    <3>5. CASE Finish \/ SkipPublish \/ Publish
      BY <3>5 DEF Finish, SkipPublish, Publish
    <3>6. CASE UNCHANGED vars
      BY <3>6 DEF vars
    <3> QED BY <1>4, <3>1, <3>2, <3>3, <3>4, <3>5, <3>6 DEF Next
  <2> QED BY <1>2, <1>3, <2>1
<1> QED BY <1>1, <1>4

\* A run never closes what its caller handed over
\* (ibis_check_execute.py:198-215).
THEOREM CallersConnectionStaysOpen == Spec => []CallerKeepsConnection
<1>1. Init => Ownership
  BY DEF Init, Ownership, NoConnection
<1>2. Ownership => CallerKeepsConnection
  BY DEF Ownership, CallerKeepsConnection
<1> QED BY <1>1, <1>2, OwnershipStep, TypeCorrect, PTL DEF Spec

\* A run leaves no connection of its own open, however it ends, unless the
\* disposal takes it for the caller's (ibis_check_execute.py:181-215).
THEOREM OwnConnectionIsReleased == Spec => []OwnConnectionIsClosed
<1>1. Init => Ownership
  BY DEF Init, Ownership, NoConnection
<1>2. Ownership => OwnConnectionIsClosed
  BY DEF Ownership, OwnConnectionIsClosed, Concluded, MayBeTheCallers
<1> QED BY <1>1, <1>2, OwnershipStep, TypeCorrect, PTL DEF Spec

-----------------------------------------------------------------------------
\* What a dry run cannot reach: one case per step it can take
\* (data_contract_test.py:189-207).
LEMMA PlannedStep == TypeOK /\ Planned /\ [Next]_vars => Planned'
<1> SUFFICES ASSUME TypeOK, Planned, [Next]_vars PROVE Planned'
  OBVIOUS
<1>0. opt' = opt
  <2>1. CASE Resolve \/ Prepare \/ Plan \/ PlanFails \/ ReportDryRun \/ CheckFiles \/ ReportUnsupported
    BY <2>1, Zenon DEF Resolve, Prepare, Plan, PlanFails, ReportDryRun, CheckFiles, ReportUnsupported
  <2>2. CASE Connect \/ CannotConnect \/ ConnectFails \/ BeginModel \/ TableUnreadable \/ FilterUnusable
    BY <2>2, Zenon DEF Connect, CannotConnect, ConnectFails, BeginModel, TableUnreadable, FilterUnusable
  <2>3. CASE IntrospectionFails \/ EvaluateCheck \/ BatchCheck \/ Aggregate \/ AggregationFails \/ EndModel
    BY <2>3, Zenon DEF IntrospectionFails, EvaluateCheck, BatchCheck, Aggregate, AggregationFails, EndModel
  <2>4. CASE Disconnect \/ Finish \/ SkipPublish \/ Publish
    BY <2>4, Zenon DEF Disconnect, Finish, SkipPublish, Publish
  <2>5. CASE UNCHANGED vars
    BY <2>5 DEF vars
  <2> QED BY <2>1, <2>2, <2>3, <2>4, <2>5 DEF Next
<1> SUFFICES ASSUME opt.dry PROVE Planned'
  BY <1>0 DEF Planned
<1> USE DEF Planned, Results, checks, work, outcome, Raise, RaisedResults
<1>1. CASE Resolve
  BY <1>1 DEF Resolve
<1>2. CASE Prepare
  BY <1>2 DEF Prepare
<1>3. CASE Plan
  <2>1. \A s \in Specs : result'[s] \in {"skipped", "none"}
    BY <1>3 DEF Plan
  <2>2. selected' \subseteq Specs /\ pc' = "dry"
    BY <1>3 DEF Plan, AfterPlan
  <2> QED BY <1>3, <2>1, <2>2 DEF Plan
<1>4. CASE PlanFails
  BY <1>4 DEF PlanFails
<1>5. CASE ReportDryRun
  <2> DEFINE plan == [s \in Specs |-> IF Kind[s] = "unsupported" THEN Preset[s] ELSE "skipped"]
  <2>1. todo \in SUBSET Specs /\ \A s \in todo : plan[s] # "passed"
    BY TestRunAssumption DEF TypeOK
  <2>2. ASSUME NEW t \in selected PROVE result'[t] # "passed"
    <3>1. t \in Specs /\ result[t] # "passed" /\ result' = SetResults(todo, plan)
      BY <1>5 DEF ReportDryRun, TypeOK
    <3> HIDE DEF plan
    <3> QED BY <2>1, <3>1, RecordedResult
  <2>3. "passed" \notin extra' /\ pc' = "finish" /\ UNCHANGED <<selected, found, con, verdict, published>>
    BY <1>5 DEF ReportDryRun
  <2>4. opt' = opt
    BY <1>5 DEF ReportDryRun
  <2> HIDE DEF plan
  <2> QED BY <2>2, <2>3, <2>4
<1>6. CASE Finish
  <2>1. Verdict # "passed"
    <3>1. CASE "error" \in Results
      BY <3>1 DEF Verdict
    <3>2. CASE "failed" \in Results /\ "error" \notin Results
      BY <3>2 DEF Verdict
    <3>3. CASE "warning" \in Results /\ Results \cap {"error", "failed"} = {}
      BY <3>3 DEF Verdict
    <3>4. CASE Results \cap {"error", "failed", "warning"} = {}
      BY <3>4 DEF Verdict
    <3> QED BY <3>1, <3>2, <3>3, <3>4
  <2> QED BY <1>6, <2>1 DEF Finish
<1>7. CASE SkipPublish
  BY <1>7 DEF SkipPublish
<1>8. CASE UNCHANGED vars
  BY <1>8 DEF vars
<1>9. ~ Publish
  BY DEF Publish, Publishable
<1>10. /\ ~ CheckFiles /\ ~ ReportUnsupported /\ ~ Connect /\ ~ CannotConnect /\ ~ ConnectFails
       /\ ~ BeginModel /\ ~ TableUnreadable /\ ~ FilterUnusable /\ ~ IntrospectionFails
       /\ ~ EvaluateCheck /\ ~ BatchCheck /\ ~ Aggregate /\ ~ AggregationFails
       /\ ~ EndModel /\ ~ Disconnect
  BY DEF CheckFiles, ReportUnsupported, Connect, CannotConnect, ConnectFails, BeginModel,
         TableUnreadable, FilterUnusable, IntrospectionFails, EvaluateCheck, BatchCheck,
         Aggregate, AggregationFails, EndModel, Disconnect
<1> QED BY <1>1, <1>2, <1>3, <1>4, <1>5, <1>6, <1>7, <1>8, <1>9, <1>10 DEF Next

\* A dry run connects to nothing, evaluates nothing, is never called passed and
\* is not published, whatever fails on its way (data_contract_test.py:189-207,
\* data_contract.py:296-311).
THEOREM DryRunIsOnlyAPlan == Spec => []DryRunAssertsNothing
<1>1. Init => Planned
  BY DEF Init, Planned, Results
<1>2. Planned => DryRunAssertsNothing
  BY DEF Planned, DryRunAssertsNothing
<1> QED BY <1>1, <1>2, PlannedStep, TypeCorrect, PTL DEF Spec

\* What --metadata-only has taken out of the work never gets back into it, and
\* only the checks worked on are evaluated (data_contract_test.py:180-187).
LEMMA UnreadStep == TypeOK /\ Unread /\ [Next]_vars => Unread'
<1> SUFFICES ASSUME TypeOK, Unread, [Next]_vars PROVE Unread'
  OBVIOUS
<1> USE DEF Unread, checks, work, outcome, Raise
<1>1. CASE /\ UNCHANGED <<opt, found>>
           /\ todo' \cup specs' \subseteq todo \cup specs
  BY <1>1
<1>2. CASE Plan
  BY <1>2 DEF Plan, TypeOK
<1>3. ASSUME NEW S \in SUBSET (todo \cup specs), NEW r, Found(S, r), UNCHANGED opt,
             todo' \cup specs' \subseteq todo \cup specs
      PROVE  Unread'
  BY <1>3 DEF Found, TypeOK
<1>4. CASE TableUnreadable
  <2>1. Found(NextModel, [s \in NextModel |-> "failed"]) /\ NextModel \subseteq todo
    BY <1>4 DEF TableUnreadable, RecordAll, Record, NextModel
  <2> QED BY <1>3, <1>4, <2>1 DEF TableUnreadable
<1>5. CASE FilterUnusable
  <2>1. Found(ReadingRows, [s \in ReadingRows |-> "error"]) /\ ReadingRows \subseteq todo
    BY <1>5 DEF FilterUnusable, RecordAll, Record, NextModel, ReadingRows
  <2>2. WithoutFilter \subseteq todo
    BY DEF WithoutFilter, NextModel
  <2> QED BY <1>3, <1>5, <2>1, <2>2 DEF FilterUnusable
<1>6. CASE EvaluateCheck
  <2>1. Min(pending) \in pending
    <3>1. pending \in SUBSET Nat /\ pending # {}
      BY <1>6, TestRunAssumption DEF EvaluateCheck, TypeOK, Specs
    <3> QED BY <3>1, MinOfNat
  <2> DEFINE s == Min(pending)
  <2> HIDE DEF s
  <2>2. \E r : Found({s}, r)
    BY <1>6 DEF EvaluateCheck, RecordAll, Record, s
  <2>3. {s} \subseteq specs
    BY <2>1 DEF TypeOK, s
  <2> QED BY <1>3, <1>6, <2>2, <2>3 DEF EvaluateCheck
<1>7. CASE Aggregate
  <2>1. PICK r \in [batch -> {"passed", "failed", "warning"}] : Record(batch, r)
    BY <1>7 DEF Aggregate
  <2> QED BY <1>3, <1>7, <2>1 DEF Aggregate, Record, TypeOK
<1>8. CASE AggregationFails
  <2>1. Found(batch, [s \in batch |-> "failed"])
    BY <1>8 DEF AggregationFails, RecordAll, Record
  <2> QED BY <1>3, <1>8, <2>1 DEF AggregationFails, TypeOK
<1>9. CASE Resolve \/ Prepare \/ PlanFails \/ ReportDryRun \/ CheckFiles \/ ReportUnsupported
  BY <1>1, <1>9 DEF Resolve, Prepare, PlanFails, ReportDryRun, CheckFiles, ReportUnsupported
<1>10. CASE Connect \/ CannotConnect \/ ConnectFails \/ IntrospectionFails \/ Disconnect
  BY <1>1, <1>10 DEF Connect, CannotConnect, ConnectFails, IntrospectionFails, Disconnect
<1>11. CASE BeginModel \/ BatchCheck \/ EndModel
  BY <1>1, <1>11 DEF BeginModel, NextModel, BatchCheck, EndModel
<1>12. CASE Finish \/ SkipPublish \/ Publish
  BY <1>1, <1>12 DEF Finish, SkipPublish, Publish
<1>13. CASE UNCHANGED vars
  BY <1>1, <1>13 DEF vars
<1> QED BY <1>2, <1>4, <1>5, <1>6, <1>7, <1>8, <1>9, <1>10, <1>11, <1>12, <1>13 DEF Next

\* With --metadata-only no check that reads rows is evaluated, by no row
\* filter, failure or aggregation (data_contract_test.py:180-187).
THEOREM MetadataOnlyStaysOutOfRows == Spec => []MetadataOnlyReadsNoRows
<1>1. Init => Unread
  BY DEF Init, Unread
<1>2. Unread => MetadataOnlyReadsNoRows
  BY DEF Unread, MetadataOnlyReadsNoRows, ReadsData
<1> QED BY <1>1, <1>2, UnreadStep, TypeCorrect, PTL DEF Spec

-----------------------------------------------------------------------------
(* No answer of a check with a key of its own is lost on the way to the    *)
(* verdict, whatever keys the other checks of the run share.               *)

\* The severities a verdict compares are numbers, and a result is never worse
\* than an error (run.py:255-266).
LEMMA SeverityOf ==
  /\ \A a \in Answers : Severity[a] \in 0 .. 3
  /\ Severity["error"] = 3 /\ Severity["failed"] = 2 /\ Severity["warning"] = 1
  /\ \A a \in Answers : a \notin {"error", "failed", "warning"} => Severity[a] = 0
BY DEF Severity, Answers, ResultEnum

\* A result is recorded under a registered check with the same key.
LEMMA FirstWithKey ==
  ASSUME NEW sel \in SUBSET Specs, NEW s \in sel
  PROVE  First(sel, s) \in sel /\ Key[First(sel, s)] = Key[s]
<1> DEFINE same == {t \in sel : Key[t] = Key[s]}
<1>1. same \in SUBSET Nat /\ s \in same
  BY SpecsAreNumbers
<1>2. Min(same) \in same
  <2> HIDE DEF same
  <2> QED BY <1>1, MinOfNat
<1> QED BY <1>2 DEF First

\* Which checks have keys of their own is settled with the plan.
LEMMA KeysStay ==
  ASSUME UNCHANGED selected
  PROVE  \A s : OwnKey(s)' <=> OwnKey(s)
BY DEF OwnKey

\* A check with a key of its own takes its own results, and no others.
LEMMA OwnEntry ==
  ASSUME TypeOK, NEW S \in SUBSET selected, NEW t \in Specs, OwnKey(t)
  PROVE  /\ \A s \in S : First(selected, s) = t <=> s = t
         /\ t \in Under(S) <=> t \in S
<1>1. selected \in SUBSET Specs
  BY DEF TypeOK
<1>2. ASSUME NEW s \in S PROVE First(selected, s) = t <=> s = t
  <2>1. First(selected, s) \in selected /\ Key[First(selected, s)] = Key[s] /\ s \in selected
    BY <1>1, FirstWithKey
  <2> QED BY <2>1 DEF OwnKey
<1> QED BY <1>2 DEF Under

\* Every check recorded under a key of its own gets exactly what was recorded
\* for it, and no other such check changes (ibis_check_execute.py:1240-1247).
LEMMA OwnResults ==
  ASSUME TypeOK, NEW S \in SUBSET selected, NEW r, NEW t \in Specs, OwnKey(t)
  PROVE  SetResults(S, r)[t] = IF t \in S THEN r[t] ELSE result[t]
<1>1. S \in SUBSET Specs
  BY DEF TypeOK
<1> QED BY <1>1, OwnEntry, RecordedResult

\* An evaluation of S finds what each check of S came to, and leaves those with
\* keys of their own with it.
LEMMA OwnEvaluation ==
  ASSUME TypeOK, NEW S \in SUBSET selected, NEW r, Found(S, r)
  PROVE  \A t \in Specs :
           /\ OwnKey(t) => result'[t] = IF t \in S THEN r[t] ELSE result[t]
           /\ found'[t] = IF t \in S THEN r[t] ELSE found[t]
<1> TAKE t \in Specs
<1>1. OwnKey(t) => result'[t] = IF t \in S THEN r[t] ELSE result[t]
  BY OwnResults DEF Found
<1>2. found'[t] = IF t \in S THEN r[t] ELSE found[t]
  BY DEF Found
<1> QED BY <1>1, <1>2

\* The verdict is as severe as every result (run.py:241-266).
LEMMA VerdictIsMostSevere ==
  ASSUME TypeOK, NEW s \in selected
  PROVE  Severity[result[s]] <= Severity[Verdict]
<1>1. result[s] \in Results /\ result[s] \in Answers
  BY DEF Results, TypeOK
<1>2. Severity[result[s]] \in 0 .. 3 /\ Severity[Verdict] \in 0 .. 3
  BY <1>1, SeverityOf, VerdictType DEF Answers
<1>3. CASE "error" \in Results
  <2>1. Verdict = "error"
    BY <1>3 DEF Verdict
  <2> QED BY <2>1, <1>2, SeverityOf
<1>4. CASE "failed" \in Results /\ "error" \notin Results
  <2>1. Verdict = "failed"
    BY <1>4 DEF Verdict
  <2>2. result[s] # "error"
    BY <1>1, <1>4
  <2>3. Severity[result[s]] <= 2
    BY <1>1, <2>2, SeverityOf
  <2> QED BY <2>1, <2>3, SeverityOf
<1>5. CASE "warning" \in Results /\ Results \cap {"error", "failed"} = {}
  <2>1. Verdict = "warning"
    BY <1>5 DEF Verdict
  <2>2. result[s] \notin {"error", "failed"}
    BY <1>1, <1>5
  <2>3. Severity[result[s]] <= 1
    BY <1>1, <2>2, SeverityOf
  <2> QED BY <2>1, <2>3, SeverityOf
<1>6. CASE Results \cap {"error", "failed", "warning"} = {}
  <2>1. Severity[result[s]] = 0
    BY <1>1, <1>6, SeverityOf
  <2> QED BY <1>2, <2>1
<1> QED BY <1>3, <1>4, <1>5, <1>6

\* An evaluation of checks that had no answer, taken out of the work.
LEMMA EvaluationKeeps ==
  ASSUME TypeOK, Kept, NEW S \in SUBSET selected,
         NEW r, \A s \in S : r[s] \in Answers /\ (Kind[s] = "type" => r[s] # "error"),
         \A t \in Specs :
           /\ OwnKey(t) => result'[t] = IF t \in S THEN r[t] ELSE result[t]
           /\ found'[t] = IF t \in S THEN r[t] ELSE found[t],
         selected' = selected,
         todo' \cup pending' \cup batch' \subseteq (todo \cup pending \cup batch) \ S,
         specs' \cap todo' = {}, pending' \cap batch' = {},
         ~ Early', ~ Concluded'
  PROVE  Kept'
<1>0. \A s : OwnKey(s)' <=> OwnKey(s)
  BY KeysStay
<1>1. ASSUME NEW s \in Specs, OwnKey(s) PROVE Severity[found'[s]] <= Severity[result'[s]]
  <2>1. CASE s \in S
    <3>1. found'[s] = result'[s] /\ found'[s] \in Answers
      BY <1>1, <2>1
    <3> QED BY <3>1, SeverityOf
  <2>2. CASE s \notin S
    BY <1>1, <2>2 DEF Kept
  <2> QED BY <2>1, <2>2
<1>2. \A s \in Specs : found'[s] # "none" => s \in selected'
  BY DEF Kept, TypeOK
<1>3. \A s \in Specs : OwnKey(s) /\ Kind[s] = "type" => result'[s] # "error"
  BY DEF Kept
<1>4. \A s \in todo' \cup pending' \cup batch' : found'[s] = "none"
  <2> TAKE s \in todo' \cup pending' \cup batch'
  <2>1. s \in todo \cup pending \cup batch /\ s \notin S /\ s \in Specs
    BY DEF TypeOK
  <2> QED BY <2>1 DEF Kept
<1> QED BY <1>0, <1>1, <1>2, <1>3, <1>4 DEF Kept

\* Failing or erring several checks at once keeps the evaluations so far
\* (ibis_check_execute.py:1304-1306).
LEMMA EvaluationOfAllKeeps ==
  ASSUME TypeOK, Kept, NEW S \in SUBSET selected,
         NEW a \in Answers, \A s \in S : Kind[s] = "type" => a # "error",
         Found(S, [u \in S |-> a]),
         selected' = selected,
         todo' \cup pending' \cup batch' \subseteq (todo \cup pending \cup batch) \ S,
         specs' \cap todo' = {}, pending' \cap batch' = {},
         ~ Early', ~ Concluded'
  PROVE  Kept'
<1> DEFINE r == [u \in S |-> a]
<1>1. \A t \in S : r[t] = a
  OBVIOUS
<1>2. S \subseteq Specs
  BY DEF TypeOK
<1>3. Found(S, r)
  OBVIOUS
<1> HIDE DEF r
<1>4. \A t \in Specs :
        /\ OwnKey(t) => result'[t] = IF t \in S THEN r[t] ELSE result[t]
        /\ found'[t] = IF t \in S THEN r[t] ELSE found[t]
  BY <1>3, OwnEvaluation
<1>5. \A s \in S : r[s] \in Answers /\ (Kind[s] = "type" => r[s] # "error")
  BY <1>1, <1>2
<1> QED BY <1>4, <1>5, EvaluationKeeps

\* A step that answers nothing.
LEMMA NothingAnswered ==
  ASSUME Kept, UNCHANGED <<selected, result, found, todo, specs, pending, batch>>,
         Early' => Early,
         Concluded' => \A s \in selected : Severity[result[s]] <= Severity[verdict']
  PROVE  Kept'
BY KeysStay DEF Kept

\* One step of Kept, by the step taken.
LEMMA KeptStep == TypeOK /\ Kept /\ [Next]_vars => Kept'
<1> SUFFICES ASSUME TypeOK, Kept, [Next]_vars PROVE Kept'
  OBVIOUS
<1> USE DEF checks, work, outcome
<1>1. CASE \/ Resolve \/ Prepare \/ PlanFails \/ CheckFiles
           \/ Connect \/ CannotConnect \/ ConnectFails \/ IntrospectionFails \/ Disconnect
  <2>1. /\ UNCHANGED <<selected, result, found, todo, specs, pending, batch>>
        /\ Early' => Early
        /\ ~ Concluded'
    BY <1>1 DEF Resolve, Prepare, PlanFails, CheckFiles, Connect, CannotConnect, ConnectFails,
                IntrospectionFails, Disconnect, Raise, Early, Concluded
  <2> QED BY <2>1, NothingAnswered
<1>2. CASE Plan
  <2>1. PICK sel \in SUBSET Specs :
          LET skipped == IF opt.metadataOnly THEN {s \in sel : ReadsData(s)} ELSE {} IN
            /\ result' = [t \in Specs |->
                            IF \E s \in skipped : First(sel, s) = t THEN "skipped" ELSE "none"]
            /\ todo' = sel \ skipped
    BY <1>2 DEF Plan
  <2>2. \A t \in Specs : result'[t] \in {"skipped", "none"}
    BY <2>1
  <2>3. \A t \in Specs : found'[t] = "none"
    BY <1>2 DEF Plan, Kept, Early
  <2>4. specs' = {} /\ pending' = {} /\ batch' = {} /\ todo' \subseteq Specs
    BY <1>2, <2>1 DEF Plan, TypeOK
  <2>5. ~ Early' /\ ~ Concluded'
    BY <1>2 DEF Plan, AfterPlan, Early, Concluded
  <2>6. \A t \in Specs : Severity[found'[t]] <= Severity[result'[t]]
    <3>1. "none" \in Answers /\ "skipped" \in Answers
      BY DEF Answers, ResultEnum
    <3>2. Severity["none"] = 0 /\ Severity["skipped"] = 0
      BY <3>1, SeverityOf
    <3> QED BY <2>2, <2>3, <3>2
  <2> QED BY <2>2, <2>3, <2>4, <2>5, <2>6 DEF Kept
<1>3. CASE ReportDryRun
  <2> DEFINE plan == [s \in Specs |-> IF Kind[s] = "unsupported" THEN Preset[s] ELSE "skipped"]
  <2>1. result' = SetResults(todo, plan) /\ UNCHANGED <<selected, found, todo, specs, pending, batch>>
    BY <1>3 DEF ReportDryRun
  <2>2. \A s \in Specs : plan[s] \in Answers /\ (Kind[s] = "type" => plan[s] # "error")
    BY TestRunAssumption DEF Answers, ResultEnum
  <2>3. \A t \in Specs : OwnKey(t) => result'[t] = IF t \in todo THEN plan[t] ELSE result[t]
    <3> HIDE DEF plan
    <3> QED BY <2>1, OwnResults DEF TypeOK
  <2>4. ASSUME NEW t \in Specs, OwnKey(t) PROVE Severity[found[t]] <= Severity[result'[t]]
    <3> HIDE DEF plan
    <3>1. CASE t \in todo
      <4>1. found[t] = "none" /\ result'[t] \in Answers /\ "none" \in Answers
        BY <2>2, <2>3, <2>4, <3>1 DEF Kept, Answers
      <4> QED BY <4>1, SeverityOf
    <3>2. CASE t \notin todo
      BY <2>3, <2>4, <3>2 DEF Kept
    <3> QED BY <3>1, <3>2
  <2>5. ~ Early' /\ ~ Concluded'
    BY <1>3 DEF ReportDryRun, Raise, Early, Concluded
  <2> HIDE DEF plan
  <2>6. \A s \in Specs : OwnKey(s) /\ Kind[s] = "type" => result'[s] # "error"
    BY <2>2, <2>3 DEF Kept
  <2>7. \A s : OwnKey(s)' <=> OwnKey(s)
    BY <2>1, KeysStay
  <2> QED BY <2>1, <2>4, <2>5, <2>6, <2>7 DEF Kept
<1>4. CASE ReportUnsupported
  <2> DEFINE U == {s \in todo : Kind[s] = "unsupported"}
  <2>1. /\ result' = SetResults(U, Preset) /\ todo' = todo \ U
        /\ UNCHANGED <<selected, found, specs, pending, batch>>
    BY <1>4 DEF ReportUnsupported
  <2>2. \A s \in U : Preset[s] \in Answers /\ Kind[s] # "type"
    BY TestRunAssumption DEF TypeOK, Answers, ResultEnum
  <2>3. \A t \in Specs : OwnKey(t) => result'[t] = IF t \in U THEN Preset[t] ELSE result[t]
    BY <2>1, OwnResults DEF TypeOK
  <2>4. ASSUME NEW t \in Specs, OwnKey(t) PROVE Severity[found[t]] <= Severity[result'[t]]
    <3>1. CASE t \in U
      <4>1. found[t] = "none" /\ result'[t] \in Answers /\ "none" \in Answers
        BY <2>2, <2>3, <2>4, <3>1 DEF Kept, Answers
      <4> QED BY <4>1, SeverityOf
    <3>2. CASE t \notin U
      BY <2>3, <2>4, <3>2 DEF Kept
    <3> QED BY <3>1, <3>2
  <2>5. ~ Early' /\ ~ Concluded'
    BY <1>4 DEF ReportUnsupported, Early, Concluded
  <2>6. \A s \in Specs : OwnKey(s) /\ Kind[s] = "type" => result'[s] # "error"
    BY <2>2, <2>3 DEF Kept
  <2>7. \A s : OwnKey(s)' <=> OwnKey(s)
    BY <2>1, KeysStay
  <2> QED BY <2>1, <2>4, <2>5, <2>6, <2>7 DEF Kept
<1>5. CASE BeginModel
  <2>1. /\ UNCHANGED <<selected, result, found, batch>> /\ ~ Early' /\ ~ Concluded'
        /\ specs' \cap todo' = {} /\ batch = {}
        /\ todo' \subseteq todo /\ pending' \subseteq todo
    BY <1>5 DEF BeginModel, NextModel, TypeOK, Early, Concluded
  <2> QED BY <2>1, KeysStay DEF Kept
<1>6. CASE TableUnreadable
  <2>1. NextModel \in SUBSET selected /\ Found(NextModel, [u \in NextModel |-> "failed"])
    BY <1>6 DEF TableUnreadable, RecordAll, Record, NextModel, TypeOK
  <2>2. /\ UNCHANGED <<pc, selected, specs, pending, batch>> /\ todo' = todo \ NextModel
        /\ pc = "model"
    BY <1>6 DEF TableUnreadable
  <2>3. specs = {} /\ pending = {} /\ batch = {}
    BY <2>2 DEF TypeOK
  <2>4. "failed" \in Answers /\ ~ Early' /\ ~ Concluded'
    BY <2>2 DEF Answers, ResultEnum, Early, Concluded
  <2> QED BY <2>1, <2>2, <2>3, <2>4, EvaluationOfAllKeeps
<1>7. CASE FilterUnusable
  <2>1. ReadingRows \in SUBSET selected /\ Found(ReadingRows, [u \in ReadingRows |-> "error"])
    BY <1>7 DEF FilterUnusable, RecordAll, Record, ReadingRows, NextModel, TypeOK
  <2>2. /\ UNCHANGED <<selected, batch>> /\ todo' = todo \ NextModel
        /\ specs' = WithoutFilter /\ pending' = WithoutFilter /\ batch = {}
    BY <1>7 DEF FilterUnusable, TypeOK
  <2>3. WithoutFilter \subseteq todo \ ReadingRows /\ WithoutFilter \subseteq NextModel /\ ReadingRows \subseteq NextModel
    BY DEF WithoutFilter, ReadingRows, NextModel
  <2>4. "error" \in Answers /\ ~ Early' /\ ~ Concluded'
    BY <1>7 DEF FilterUnusable, Answers, ResultEnum, Early, Concluded
  <2>5. \A s \in ReadingRows : Kind[s] # "type"
    BY DEF ReadingRows, ReadsData
  <2> QED BY <2>1, <2>2, <2>3, <2>4, <2>5, EvaluationOfAllKeeps
<1>8. CASE EvaluateCheck
  <2>1. Min(pending) \in pending
    <3>1. pending \in SUBSET Nat /\ pending # {}
      BY <1>8, SpecsAreNumbers DEF EvaluateCheck, TypeOK
    <3> QED BY <3>1, MinOfNat
  <2> DEFINE s == Min(pending)
  <2> HIDE DEF s
  <2>2. s \in pending /\ {s} \in SUBSET selected
    BY <2>1 DEF s, TypeOK
  <2>3. /\ UNCHANGED <<pc, selected, todo, specs, batch>> /\ pending' = pending \ {s}
        /\ pc = "check"
    BY <1>8 DEF EvaluateCheck, s
  <2>4. ~ Early' /\ ~ Concluded'
    BY <2>3 DEF Early, Concluded
  <2>5. specs' \cap todo' = {} /\ pending' \cap batch' = {}
    BY <2>3 DEF Kept
  <2>6. todo' \cup pending' \cup batch' \subseteq (todo \cup pending \cup batch) \ {s}
    BY <2>2, <2>3 DEF Kept, TypeOK
  <2>7. PICK a \in Answers : /\ Kind[s] = "type" => a # "error"
                            /\ Found({s}, [u \in {s} |-> a])
    <3>1. CASE \E r \in Outcomes(s) : RecordAll({s}, r)
      BY <3>1 DEF Outcomes, RecordAll, Record, Answers, ResultEnum
    <3>2. CASE Found({s}, [u \in {s} |-> "warning"])
      BY <3>2 DEF Answers, ResultEnum
    <3> QED BY <1>8, <3>1, <3>2 DEF EvaluateCheck, s
  <2> QED BY <2>2, <2>3, <2>4, <2>5, <2>6, <2>7, EvaluationOfAllKeeps
<1>9. CASE BatchCheck
  <2>1. Min(pending) \in pending
    <3>1. pending \in SUBSET Nat /\ pending # {}
      BY <1>9, SpecsAreNumbers DEF BatchCheck, TypeOK
    <3> QED BY <3>1, MinOfNat
  <2>2. /\ UNCHANGED <<pc, selected, result, found, todo, specs>>
        /\ pending' = pending \ {Min(pending)} /\ batch' = batch \cup {Min(pending)}
        /\ ~ Early' /\ ~ Concluded'
    BY <1>9 DEF BatchCheck, Early, Concluded
  <2> QED BY <2>1, <2>2, KeysStay DEF Kept
<1>10. CASE Aggregate
  <2>1. PICK r \in [batch -> {"passed", "failed", "warning"}] : Found(batch, r)
    BY <1>10 DEF Aggregate, Record
  <2>2. batch \in SUBSET selected
    BY DEF TypeOK
  <2>3. \A t \in batch : r[t] \in Answers /\ (Kind[t] = "type" => r[t] # "error")
    BY DEF Answers, ResultEnum
  <2>4. /\ UNCHANGED <<pc, selected, todo, specs, pending>> /\ batch' = {} /\ pc = "check" /\ pending = {}
    BY <1>10 DEF Aggregate
  <2>5. ~ Early' /\ ~ Concluded' /\ specs' \cap todo' = {} /\ todo \cap batch = {}
    BY <2>4 DEF Early, Concluded, Kept, TypeOK
  <2>6. \A t \in Specs :
          /\ OwnKey(t) => result'[t] = IF t \in batch THEN r[t] ELSE result[t]
          /\ found'[t] = IF t \in batch THEN r[t] ELSE found[t]
    BY <2>1, <2>2, OwnEvaluation
  <2>7. todo' \cup pending' \cup batch' \subseteq (todo \cup pending \cup batch) \ batch
    BY <2>4, <2>5
  <2>8. selected' = selected /\ pending' \cap batch' = {}
    BY <2>4
  <2> HIDE DEF Found
  <2> QED BY <2>2, <2>3, <2>5, <2>6, <2>7, <2>8, EvaluationKeeps
<1>11. CASE AggregationFails
  <2>1. batch \in SUBSET selected /\ Found(batch, [u \in batch |-> "failed"])
    BY <1>11 DEF AggregationFails, RecordAll, Record, TypeOK
  <2>2. /\ UNCHANGED <<pc, selected, todo, specs, pending>> /\ batch' = {} /\ pc = "check" /\ pending = {}
    BY <1>11 DEF AggregationFails
  <2>3. ~ Early' /\ ~ Concluded' /\ specs' \cap todo' = {} /\ todo \cap batch = {}
    BY <2>2 DEF Early, Concluded, Kept, TypeOK
  <2>4. "failed" \in Answers
    BY DEF Answers, ResultEnum
  <2> QED BY <2>1, <2>2, <2>3, <2>4, EvaluationOfAllKeeps
<1>12. CASE EndModel
  <2>1. /\ UNCHANGED <<selected, found, todo, pending, batch>> /\ specs' = {}
        /\ \A t \in Specs : result'[t] = IF t \in MismatchedParents THEN "failed" ELSE result[t]
        /\ ~ Early' /\ ~ Concluded'
    BY <1>12 DEF EndModel, Early, Concluded
  <2>2. ASSUME NEW t \in MismatchedParents, OwnKey(t) PROVE Kind[t] = "type"
    <3>1. PICK c \in specs : Parent[c] \in specs /\ First(selected, Parent[c]) = t /\ t \in Specs
      BY DEF MismatchedParents, Under
    <3>2. Parent[c] \in Specs /\ specs \subseteq selected /\ c \in Specs
      BY <3>1 DEF TypeOK
    <3>3. t = Parent[c]
      BY <2>2, <3>1, <3>2, OwnEntry
    <3>4. Parent[c] # 0
      BY <3>2 DEF Specs
    <3> QED BY <3>2, <3>3, <3>4, TestRunAssumption
  <2>3. ASSUME NEW t \in Specs, OwnKey(t) PROVE Severity[found[t]] <= Severity[result'[t]]
    <3>1. CASE t \in MismatchedParents
      <4>1. result[t] # "error" /\ result[t] \in Answers /\ found[t] \in Answers
        BY <2>2, <2>3, <3>1 DEF Kept, TypeOK
      <4>2. Severity[found[t]] <= Severity[result[t]] /\ Severity[found[t]] \in 0 .. 3
        BY <2>3, <4>1, SeverityOf DEF Kept
      <4>3. Severity[result[t]] <= 2 /\ Severity[result[t]] \in 0 .. 3
        BY <4>1, SeverityOf
      <4> QED BY <2>1, <3>1, <4>2, <4>3, SeverityOf
    <3>2. CASE t \notin MismatchedParents
      BY <2>1, <2>3, <3>2 DEF Kept
    <3> QED BY <3>1, <3>2
  <2>4. \A t \in Specs : OwnKey(t) /\ Kind[t] = "type" => result'[t] # "error"
    BY <2>1 DEF Kept
  <2>5. \A t \in todo' \cup pending' \cup batch' : found'[t] = "none"
    BY <2>1 DEF Kept
  <2>6. \A t \in Specs : found'[t] # "none" => t \in selected'
    BY <2>1 DEF Kept
  <2>7. specs' \cap todo' = {} /\ pending' \cap batch' = {}
    BY <2>1 DEF Kept
  <2>8. \A s : OwnKey(s)' <=> OwnKey(s)
    BY <2>1, KeysStay
  <2> QED BY <2>1, <2>3, <2>4, <2>5, <2>6, <2>7, <2>8 DEF Kept
<1>13. CASE Finish
  <2>1. /\ UNCHANGED <<selected, result, found, todo, specs, pending, batch>>
        /\ verdict' = Verdict /\ ~ Early'
    BY <1>13 DEF Finish, Early
  <2> QED BY <2>1, NothingAnswered, VerdictIsMostSevere
<1>14. CASE SkipPublish \/ Publish
  <2>1. /\ UNCHANGED <<selected, result, found, todo, specs, pending, batch, verdict>>
        /\ Concluded /\ ~ Early'
    BY <1>14 DEF SkipPublish, Publish, Concluded, Early
  <2> QED BY <2>1, NothingAnswered DEF Kept
<1>15. CASE UNCHANGED vars
  BY <1>15, KeysStay DEF vars, Kept, Early, Concluded
<1> QED
  BY <1>1, <1>2, <1>3, <1>4, <1>5, <1>6, <1>7, <1>8, <1>9, <1>10, <1>11, <1>12, <1>13, <1>14, <1>15
  DEF Next

\* Before anything has run, nothing can be lost.
LEMMA KeptInit == Init => Kept
<1> SUFFICES ASSUME Init PROVE Kept
  OBVIOUS
<1>1. \A s \in Specs : found[s] = "none" /\ result[s] = "none"
  BY DEF Init
<1>2. Severity["none"] = 0
  BY SeverityOf DEF Answers
<1> QED BY <1>1, <1>2 DEF Init, Kept, Early, Concluded

\* The verdict of a run is at least as severe as everything a check came to
\* that shares its key with no other, for every contract and however the run went
\* (ibis_check_execute.py:218-423, run.py:241-266).
THEOREM VerdictLosesNothing == Spec => []NothingFoundIsLost
<1>1. Init => Kept
  BY KeptInit
<1>2. TypeOK /\ Kept => NothingFoundIsLost
  <2> SUFFICES ASSUME TypeOK, Kept, Concluded, NEW s \in Specs, OwnKey(s)
               PROVE  Severity[found[s]] <= Severity[verdict]
    BY DEF NothingFoundIsLost
  <2>1. found[s] \in Answers /\ result[s] \in Answers /\ verdict \in Answers
    BY DEF TypeOK, Answers
  <2>2. Severity[found[s]] \in 0 .. 3 /\ Severity[result[s]] \in 0 .. 3 /\ Severity[verdict] \in 0 .. 3
    BY <2>1, SeverityOf
  <2>3. CASE found[s] = "none"
    BY <2>1, <2>2, <2>3, SeverityOf
  <2>4. CASE found[s] # "none"
    BY <2>2, <2>4 DEF Kept
  <2> QED BY <2>3, <2>4
<1> QED BY <1>1, <1>2, KeptStep, TypeCorrect, PTL DEF Spec

\* The four parts of the inductive invariant hold together, whatever the run
\* goes through (data_contract_test.py:149-233, ibis_check_execute.py:105-423).
THEOREM DisciplineIsInductive == Spec => []Discipline
<1>1. Init => Discipline
  BY KeptInit DEF Init, Discipline, Ownership, NoConnection, Planned, Results, Unread
<1>2. TypeOK /\ Discipline /\ [Next]_vars => Discipline'
  BY OwnershipStep, PlannedStep, UnreadStep, KeptStep DEF Discipline
<1> QED BY <1>1, <1>2, TypeCorrect, PTL DEF Spec

-----------------------------------------------------------------------------
(* Every check is evaluated once, and answered once under a key of its own. *)

\* Where checks are still to be answered, and which.
Working == pc \in {"dry", "files", "presets", "connect", "model", "check"}

Undone == todo \cup pending \cup batch

\* Under a key of its own, what is still to be run has no answer, and everything
\* else has one; a dry run answers what it planned and runs nothing after.
Unanswered ==
  /\ Early => \A s \in Specs : result[s] = "none"
  /\ Working => \A s \in Undone : OwnKey(s) => result[s] = "none"
  /\ \A s \in selected \ Undone : OwnKey(s) => result[s] # "none"

\* The four kinds of steps: answers are left alone; the plan makes the work;
\* work is done and answered; a type line is failed for what lies below it.
Leaves ==
  /\ UNCHANGED <<selected, result, found>>
  /\ Undone' = Undone
  /\ Early' => Early
  /\ Working' => Working

Plans ==
  /\ Early /\ ~ Early'
  /\ UNCHANGED found
  /\ \A s \in Undone' : OwnKey(s)' => result'[s] = "none"
  /\ \A s \in selected' \ Undone' : OwnKey(s)' => result'[s] # "none"

Settles(S) ==
  /\ Working /\ ~ Early'
  /\ S \subseteq Undone
  /\ \A t \in Specs \ S : found'[t] = found[t]
  /\ \A t \in Specs \ S : OwnKey(t) => result'[t] = result[t]
  /\ \A t \in S : OwnKey(t) => result'[t] # "none"
  /\ Working' => Undone' \subseteq Undone \ S
  /\ UNCHANGED selected
  /\ Undone \ S \subseteq Undone'

FailsParents ==
  /\ Working /\ ~ Early'
  /\ UNCHANGED found
  /\ UNCHANGED selected
  /\ Undone = todo /\ Undone' = todo
  /\ \A t \in Specs :
       OwnKey(t) => result'[t] = result[t] \/ (t \notin todo /\ result'[t] = "failed")

\* Recording an evaluation settles what was evaluated.
LEMMA EvaluationSettles ==
  ASSUME TypeOK, NEW S \in SUBSET selected, NEW r, Found(S, r),
         \A s \in S : r[s] # "none",
         Working, ~ Early', S \subseteq Undone, Undone' = Undone \ S, UNCHANGED selected
  PROVE  Settles(S)
<1>1. S \in SUBSET Specs
  BY DEF TypeOK
<1> QED BY <1>1, OwnEvaluation DEF Settles

\* Every step is of one of the four kinds (data_contract_test.py:149-233,
\* ibis_check_execute.py:105-423).
LEMMA SortAnswers ==
  ASSUME TypeOK, Kept, [Next]_vars
  PROVE  Leaves \/ Plans \/ (\E S \in SUBSET Specs : Settles(S)) \/ FailsParents
<1> USE DEF checks, work, outcome, Raise, RaisedResults
<1>0. ASSUME NEW S \in SUBSET selected, Settles(S) PROVE \E T \in SUBSET Specs : Settles(T)
  BY <1>0 DEF TypeOK
<1>1. CASE Resolve \/ Prepare \/ PlanFails
  BY <1>1 DEF Resolve, Prepare, PlanFails, Leaves, Undone, Early, Working
<1>2. CASE CheckFiles \/ Connect \/ CannotConnect \/ ConnectFails \/ IntrospectionFails \/ Disconnect
  BY <1>2 DEF CheckFiles, Connect, CannotConnect, ConnectFails, IntrospectionFails, Disconnect,
              Leaves, Undone, Early, Working
<1>3. CASE BeginModel
  <2>1. pending = {}
    BY <1>3 DEF BeginModel, TypeOK
  <2> QED BY <1>3, <2>1 DEF BeginModel, NextModel, Leaves, Undone, Early, Working
<1>4. CASE BatchCheck
  <2>1. Min(pending) \in pending
    <3>1. pending \in SUBSET Nat /\ pending # {}
      BY <1>4, SpecsAreNumbers DEF BatchCheck, TypeOK
    <3> QED BY <3>1, MinOfNat
  <2> QED BY <1>4, <2>1 DEF BatchCheck, Leaves, Undone, Early, Working
<1>5. CASE Finish \/ SkipPublish \/ Publish
  BY <1>5 DEF Finish, SkipPublish, Publish, Leaves, Undone, Early, Working
<1>6. CASE UNCHANGED vars
  BY <1>6 DEF vars, Leaves, Undone, Early, Working
<1>7. CASE Plan
  <2>0. PICK sel \in SUBSET Specs :
          LET skipped == IF opt.metadataOnly THEN {s \in sel : ReadsData(s)} ELSE {} IN
            /\ selected' = sel
            /\ result' = [t \in Specs |->
                            IF \E s \in skipped : First(sel, s) = t THEN "skipped" ELSE "none"]
            /\ todo' = sel \ skipped
    BY <1>7 DEF Plan
  <2> DEFINE skipped == IF opt.metadataOnly THEN {s \in sel : ReadsData(s)} ELSE {}
  <2>1. /\ skipped \in SUBSET sel
        /\ result' = [t \in Specs |->
                        IF \E s \in skipped : First(sel, s) = t THEN "skipped" ELSE "none"]
        /\ todo' = sel \ skipped
    BY <2>0
  <2> HIDE DEF skipped
  <2>2. ASSUME NEW s \in todo', OwnKey(s)' PROVE result'[s] = "none"
    <3>1. \A t \in skipped : First(sel, t) # s
      BY <2>0, <2>1, <2>2, FirstWithKey DEF OwnKey
    <3> QED BY <2>1, <3>1
  <2>3. pending' = {} /\ batch' = {} /\ selected' = sel
    BY <1>7, <2>0 DEF Plan, TypeOK
  <2>4. ASSUME NEW s \in sel \ todo', OwnKey(s)' PROVE result'[s] # "none"
    <3>1. s \in skipped /\ First(sel, s) = s
      BY <2>0, <2>1, <2>4, FirstWithKey DEF OwnKey
    <3> QED BY <2>1, <3>1
  <2> QED BY <1>7, <2>2, <2>3, <2>4 DEF Plan, AfterPlan, Plans, Undone, Early
<1>8. CASE ReportDryRun
  <2> DEFINE plan == [s \in Specs |-> IF Kind[s] = "unsupported" THEN Preset[s] ELSE "skipped"]
  <2>1. /\ result' = SetResults(todo, plan) /\ pc = "dry" /\ pc' = "finish"
        /\ UNCHANGED <<selected, found, todo, pending, batch>>
    BY <1>8 DEF ReportDryRun
  <2>4. \A t \in Specs : plan[t] # "none"
    BY TestRunAssumption
  <2>2. \A t \in Specs : OwnKey(t) => result'[t] = IF t \in todo THEN plan[t] ELSE result[t]
    <3> HIDE DEF plan
    <3> QED BY <2>1, OwnResults DEF TypeOK
  <2> HIDE DEF plan
  <2>3. Settles(todo) /\ todo \in SUBSET selected
    BY <2>1, <2>2, <2>4 DEF Settles, Undone, Early, Working, TypeOK
  <2> QED BY <1>0, <2>3
<1>9. CASE ReportUnsupported
  <2> DEFINE U == {s \in todo : Kind[s] = "unsupported"}
  <2>1. /\ result' = SetResults(U, Preset) /\ todo' = todo \ U
        /\ UNCHANGED <<selected, found, pending, batch>>
        /\ pc = "presets" /\ pc' \in {"finish", "connect"}
    BY <1>9 DEF ReportUnsupported
  <2>2. \A t \in Specs : OwnKey(t) => result'[t] = IF t \in U THEN Preset[t] ELSE result[t]
    BY <2>1, OwnResults DEF TypeOK
  <2>6. \A t \in Specs : Preset[t] # "none"
    BY TestRunAssumption
  <2>3. pending = {} /\ batch = {}
    BY <2>1 DEF TypeOK
  <2>4. U \in SUBSET selected
    BY DEF TypeOK
  <2> HIDE DEF U
  <2>5. Settles(U)
    <3>1. U \subseteq todo
      BY DEF U
    <3> QED BY <2>1, <2>2, <2>3, <2>4, <2>6, <3>1 DEF Settles, Undone, Early, Working, TypeOK
  <2> QED BY <1>0, <2>4, <2>5
<1>10. CASE TableUnreadable
  <2>1. NextModel \in SUBSET selected /\ Found(NextModel, [u \in NextModel |-> "failed"])
    BY <1>10 DEF TableUnreadable, RecordAll, Record, NextModel, TypeOK
  <2>2. UNCHANGED <<pc, selected, pending, batch>> /\ todo' = todo \ NextModel /\ pc = "model" /\ NextModel \subseteq todo
    BY <1>10 DEF TableUnreadable, NextModel
  <2>3. pending = {} /\ batch = {}
    BY <2>2 DEF TypeOK
  <2>4. Working /\ ~ Early' /\ NextModel \subseteq Undone /\ Undone' = Undone \ NextModel
    BY <2>2, <2>3 DEF Working, Early, Undone
  <2>5. \A s \in NextModel : [u \in NextModel |-> "failed"][s] # "none"
    OBVIOUS
  <2> QED BY <1>0, <2>1, <2>2, <2>4, <2>5, EvaluationSettles
<1>11. CASE FilterUnusable
  <2>1. ReadingRows \in SUBSET selected /\ Found(ReadingRows, [u \in ReadingRows |-> "error"])
    BY <1>11 DEF FilterUnusable, RecordAll, Record, ReadingRows, NextModel, TypeOK
  <2>2. /\ batch' = batch /\ todo' = todo \ NextModel /\ pending' = WithoutFilter /\ batch = {}
        /\ selected' = selected
        /\ pc = "model" /\ pc' \in {"model", "check"}
    BY <1>11 DEF FilterUnusable, TypeOK
  <2>3. WithoutFilter = NextModel \ ReadingRows /\ ReadingRows \subseteq NextModel /\ NextModel \subseteq todo
    BY DEF WithoutFilter, ReadingRows, NextModel
  <2>4. Working /\ ~ Early' /\ ReadingRows \subseteq Undone /\ Undone' = Undone \ ReadingRows
    <3>1. pending = {}
      BY <2>2 DEF TypeOK
    <3> QED BY <2>2, <2>3, <3>1 DEF Working, Early, Undone
  <2>5. \A s \in ReadingRows : [u \in ReadingRows |-> "error"][s] # "none"
    OBVIOUS
  <2> QED BY <1>0, <2>1, <2>2, <2>4, <2>5, EvaluationSettles
<1>12. CASE EvaluateCheck
  <2>1. Min(pending) \in pending
    <3>1. pending \in SUBSET Nat /\ pending # {}
      BY <1>12, SpecsAreNumbers DEF EvaluateCheck, TypeOK
    <3> QED BY <3>1, MinOfNat
  <2> DEFINE s == Min(pending)
  <2> HIDE DEF s
  <2>2. s \in pending /\ {s} \in SUBSET selected /\ s \in specs
    BY <2>1 DEF s, TypeOK
  <2>3. UNCHANGED <<pc, selected, todo, batch>> /\ pending' = pending \ {s} /\ pc = "check"
    BY <1>12 DEF EvaluateCheck, s
  <2>4. s \notin todo /\ s \notin batch
    BY <2>2 DEF Kept
  <2>5. Working /\ ~ Early' /\ {s} \subseteq Undone /\ Undone' = Undone \ {s}
    BY <2>2, <2>3, <2>4 DEF Working, Early, Undone
  <2>6. PICK r : Found({s}, r) /\ r[s] # "none"
    <3>1. CASE \E a \in Outcomes(s) : RecordAll({s}, a)
      <4>1. PICK a \in Outcomes(s) : Found({s}, [u \in {s} |-> a])
        BY <3>1 DEF RecordAll, Record
      <4>2. a # "none"
        BY DEF Outcomes
      <4> QED BY <4>1, <4>2
    <3>2. CASE Found({s}, [u \in {s} |-> "warning"])
      BY <3>2
    <3> QED BY <1>12, <3>1, <3>2 DEF EvaluateCheck, s
  <2> QED BY <1>0, <2>2, <2>3, <2>5, <2>6, EvaluationSettles
<1>13. CASE Aggregate \/ AggregationFails
  <2>1. PICK r : Found(batch, r) /\ \A t \in batch : r[t] # "none"
    <3>1. CASE Aggregate
      BY <3>1 DEF Aggregate, Record
    <3>2. CASE AggregationFails
      BY <3>2 DEF AggregationFails, RecordAll, Record
    <3> QED BY <1>13, <3>1, <3>2
  <2>2. UNCHANGED <<pc, selected, todo>> /\ batch' = {} /\ pc = "check" /\ pending = {} /\ pending' = {}
    BY <1>13 DEF Aggregate, AggregationFails
  <2>3. batch \in SUBSET selected /\ todo \cap batch = {}
    BY DEF TypeOK, Kept
  <2>4. Working /\ ~ Early' /\ batch \subseteq Undone /\ Undone' = Undone \ batch
    BY <2>2, <2>3 DEF Working, Early, Undone
  <2> QED BY <1>0, <2>1, <2>2, <2>3, <2>4, EvaluationSettles
<1>14. CASE EndModel
  <2>1. /\ UNCHANGED <<selected, found, todo>> /\ pending' = {} /\ batch' = {}
        /\ pending = {} /\ batch = {} /\ pc = "check" /\ pc' = "model"
        /\ \A t \in Specs : result'[t] = IF t \in MismatchedParents THEN "failed" ELSE result[t]
    BY <1>14 DEF EndModel
  <2>2. ASSUME NEW t \in MismatchedParents, OwnKey(t) PROVE t \notin todo
    <3>1. PICK p \in specs : First(selected, p) = t /\ t \in Specs
      BY DEF MismatchedParents, Under
    <3>2. t = p
      BY <2>2, <3>1, OwnEntry DEF TypeOK
    <3> QED BY <3>2 DEF Kept
  <2> QED BY <2>1, <2>2 DEF FailsParents, Working, Early, Undone
<1> QED
  BY <1>1, <1>2, <1>3, <1>4, <1>5, <1>6, <1>7, <1>8, <1>9, <1>10, <1>11, <1>12, <1>13, <1>14 DEF Next

\* What is still to be run stays unanswered.
LEMMA UnansweredStep ==
  ASSUME TypeOK, TypeOK', Kept, Unanswered, [Next]_vars
  PROVE  Unanswered'
<1>1. CASE Leaves
  BY <1>1, KeysStay DEF Leaves, Unanswered
<1>2. CASE Plans
  BY <1>2 DEF Plans, Unanswered
<1>3. ASSUME NEW S \in SUBSET Specs, Settles(S) PROVE Unanswered'
  <2>1. Undone \subseteq Specs /\ selected \subseteq Specs
    BY DEF Undone, TypeOK
  <2>2. \A s : OwnKey(s)' <=> OwnKey(s)
    BY <1>3, KeysStay DEF Settles
  <2> QED BY <1>3, <2>1, <2>2 DEF Settles, Unanswered
<1>4. CASE FailsParents
  <2>1. todo \subseteq Specs /\ selected \subseteq Specs
    BY DEF TypeOK
  <2>2. \A s : OwnKey(s)' <=> OwnKey(s)
    BY <1>4, KeysStay DEF FailsParents
  <2> QED BY <1>4, <2>1, <2>2 DEF FailsParents, Unanswered
<1> QED BY <1>1, <1>2, <1>3, <1>4, SortAnswers

\* An evaluation is not repeated; an answer given under a key of its own stays,
\* but for a type line failed for what lies below it.
LEMMA AnswersStay ==
  ASSUME TypeOK, Kept, Unanswered, [Next]_vars, NEW s \in Specs
  PROVE  /\ found[s] # "none" => found'[s] = found[s]
         /\ result[s] # "none" /\ OwnKey(s) => result'[s] \in {result[s], "failed"}
<1>1. CASE Leaves
  BY <1>1 DEF Leaves
<1>2. CASE Plans
  BY <1>2 DEF Plans, Unanswered
<1>3. ASSUME NEW S \in SUBSET Specs, Settles(S)
      PROVE  /\ found[s] # "none" => found'[s] = found[s]
             /\ result[s] # "none" /\ OwnKey(s) => result'[s] \in {result[s], "failed"}
  <2>1. s \in S => found[s] = "none" /\ (OwnKey(s) => result[s] = "none")
    BY <1>3 DEF Settles, Unanswered, Kept, Undone
  <2> QED BY <1>3, <2>1 DEF Settles
<1>4. CASE FailsParents
  BY <1>4 DEF FailsParents
<1> QED BY <1>1, <1>2, <1>3, <1>4, SortAnswers

\* No check is evaluated twice, and an answer recorded under a key of its own
\* changes only where a type line is made to fail for a structure below it, for
\* every contract (ibis_check_execute.py:271-289, 298-396).
THEOREM EveryCheckIsAnsweredOnce == Spec => AnsweredOnce
<1> DEFINE Stay == \A s \in Specs :
                     /\ found[s] # "none" => found'[s] = found[s]
                     /\ result[s] # "none" /\ OwnKey(s) => result'[s] \in {result[s], "failed"}
<1>1. Init => Unanswered
  BY DEF Init, Unanswered, Undone
<1>2. TypeOK /\ TypeOK' /\ Kept /\ Unanswered /\ [Next]_vars => Unanswered'
  BY UnansweredStep
<1>3. TypeOK /\ Kept /\ Unanswered /\ [Next]_vars => [Stay]_vars
  BY AnswersStay
<1> HIDE DEF Stay
<1>4. Spec => [][Stay]_vars
  BY <1>1, <1>2, <1>3, KeptInit, KeptStep, TypeCorrect, PTL DEF Spec
<1> QED BY <1>4, PTL DEF AnsweredOnce, Stay

-----------------------------------------------------------------------------
(* Passed means complete, for the checks with keys of their own.           *)

\* Whatever ends a run with checks unanswered leaves a trace: a result that is
\* worse than passed, or no result that is passed at all.
Traced ==
  /\ Early => selected = {} /\ "passed" \notin extra
  /\ pc \in {"files", "presets", "connect"} /\ opt.server # "files" => "passed" \notin Results
  /\ pc \in {"finish", "publish", "done"} =>
       \/ \A s \in selected : OwnKey(s) => result[s] # "none"
       \/ extra \cap RaisedResults # {}
       \/ "passed" \notin Results
  /\ Concluded => verdict = Verdict

\* A verdict is passed only if some result is and none is worse (run.py:241-266).
LEMMA PassedVerdict ==
  ASSUME Verdict = "passed"
  PROVE  "passed" \in Results /\ Results \cap RaisedResults = {}
<1>1. CASE "error" \in Results
  BY <1>1 DEF Verdict
<1>2. CASE "failed" \in Results /\ "error" \notin Results
  BY <1>2 DEF Verdict
<1>3. CASE "warning" \in Results /\ Results \cap {"error", "failed"} = {}
  BY <1>3 DEF Verdict
<1>4. CASE Results \cap {"error", "failed", "warning"} = {}
  BY <1>4 DEF Verdict, RaisedResults
<1> QED BY <1>1, <1>2, <1>3, <1>4

\* One step of Traced, by the step taken (data_contract.py:264-311,
\* ibis_check_execute.py:125-195).
LEMMA TracedStep ==
  ASSUME TypeOK, TypeOK', Unanswered, Unanswered', Traced, [Next]_vars
  PROVE  Traced'
<1> USE DEF Traced, Early, Concluded, Raise, RaisedResults, checks, work, outcome
<1>1. CASE Resolve
  BY <1>1 DEF Resolve
<1>2. CASE Prepare
  BY <1>2 DEF Prepare
<1>3. CASE Plan
  <2>1. \A s \in Specs : result'[s] \in {"skipped", "none"}
    BY <1>3 DEF Plan
  <2>2. extra' = extra /\ pc' \in {"dry", "files"} /\ "passed" \notin extra /\ selected' \subseteq Specs
    BY <1>3 DEF Plan, AfterPlan
  <2> QED BY <2>1, <2>2 DEF Results
<1>4. CASE PlanFails
  BY <1>4 DEF PlanFails
<1>5. CASE ReportDryRun
  <2> DEFINE plan == [s \in Specs |-> IF Kind[s] = "unsupported" THEN Preset[s] ELSE "skipped"]
  <2>1. /\ result' = SetResults(todo, plan) /\ pc = "dry" /\ pc' = "finish"
        /\ selected' = selected
    BY <1>5 DEF ReportDryRun
  <2>2. \A t \in Specs : plan[t] # "none"
    BY TestRunAssumption
  <2>3. \A t \in Specs : OwnKey(t) => result'[t] = IF t \in todo THEN plan[t] ELSE result[t]
    <3> HIDE DEF plan
    <3> QED BY <2>1, OwnResults DEF TypeOK
  <2> HIDE DEF plan
  <2>4. pending = {} /\ batch = {}
    BY <2>1 DEF TypeOK
  <2>5. \A s \in selected : OwnKey(s)' => result'[s] # "none"
    BY <2>1, <2>2, <2>3, <2>4, KeysStay DEF Unanswered, Undone, TypeOK
  <2> QED BY <2>1, <2>5
<1>6. CASE CheckFiles
  <2>1. CASE pc' = "presets"
    BY <1>6, <2>1 DEF CheckFiles, Results
  <2>2. CASE pc' = "finish"
    BY <1>6, <2>2 DEF CheckFiles
  <2> QED BY <1>6, <2>1, <2>2 DEF CheckFiles
<1>7. CASE ReportUnsupported
  <2> DEFINE U == {s \in todo : Kind[s] = "unsupported"}
  <2>1. /\ result' = SetResults(U, Preset)
        /\ UNCHANGED <<opt, selected, extra, pending, batch>>
        /\ pc = "presets" /\ pc' \in {"finish", "connect"}
        /\ pc' = "finish" => todo' = {}
    BY <1>7 DEF ReportUnsupported
  <2>2. \A t \in Specs : Preset[t] # "passed"
    BY TestRunAssumption
  <2>3. U \in SUBSET Specs /\ selected \subseteq Specs
    BY DEF TypeOK
  <2> HIDE DEF U
  <2>4. "passed" \notin Results => "passed" \notin Results'
    <3>1. ASSUME NEW t \in selected, result[t] # "passed" PROVE result'[t] # "passed"
      <4>1. t \in Specs /\ result' = SetResults(U, Preset)
        BY <2>1, <2>3
      <4>2. \A s \in U : Preset[s] # "passed"
        BY <2>2, <2>3
      <4>3. \/ SetResults(U, Preset)[t] = result[t] /\ t \notin Under(U)
            \/ \E s \in U : SetResults(U, Preset)[t] = Preset[s] /\ First(selected, s) = t
        BY <2>3, <4>1, RecordedResult
      <4> QED BY <3>1, <4>1, <4>2, <4>3
    <3> QED BY <2>1, <3>1 DEF Results
  <2>5. pc' = "finish" => \A s \in selected' : OwnKey(s)' => result'[s] # "none"
    BY <2>1 DEF Unanswered, Undone, TypeOK
  <2> QED BY <2>1, <2>4, <2>5
<1>8. CASE CannotConnect
  <2>1. CASE opt.server = "dataframe"
    <3>1. "passed" \notin Results'
      BY <1>8, <2>1 DEF CannotConnect, Results
    <3> QED BY <1>8, <3>1 DEF CannotConnect
  <2>2. CASE opt.server # "dataframe"
    BY <1>8, <2>2 DEF CannotConnect
  <2> QED BY <2>1, <2>2
<1>9. CASE ConnectFails
  BY <1>9 DEF ConnectFails
<1>10. CASE IntrospectionFails
  BY <1>10 DEF IntrospectionFails
<1>11. CASE Disconnect
  <2>1. pc' = "finish" /\ todo' = {} /\ pending' = {} /\ batch' = {}
    BY <1>11 DEF Disconnect, TypeOK
  <2>2. \A s \in selected' : OwnKey(s)' => result'[s] # "none"
    BY <2>1 DEF Unanswered, Undone
  <2> QED BY <2>1, <2>2
<1>12. CASE Connect \/ BeginModel \/ TableUnreadable \/ FilterUnusable
  BY <1>12 DEF Connect, BeginModel, TableUnreadable, FilterUnusable
<1>13. CASE EvaluateCheck \/ BatchCheck \/ Aggregate \/ AggregationFails \/ EndModel
  BY <1>13 DEF EvaluateCheck, BatchCheck, Aggregate, AggregationFails, EndModel
<1>14. CASE Finish
  <2>1. /\ UNCHANGED <<selected, result, extra, dryRun>>
        /\ verdict' = Verdict /\ pc = "finish" /\ pc' = "publish"
    BY <1>14 DEF Finish
  <2>2. Results' = Results
    BY <2>1 DEF Results
  <2>3. Verdict' = Verdict
    BY <2>1, <2>2 DEF Verdict
  <2>4. \A s : OwnKey(s)' <=> OwnKey(s)
    BY <2>1, KeysStay
  <2> QED BY <2>1, <2>2, <2>3, <2>4
<1>15. CASE SkipPublish \/ Publish \/ UNCHANGED vars
  <2>1. /\ UNCHANGED <<opt, selected, result, extra, dryRun, verdict>>
        /\ \/ pc = "publish" /\ pc' = "done"
           \/ pc' = pc
    BY <1>15 DEF SkipPublish, Publish, vars
  <2>2. Results' = Results
    BY <2>1 DEF Results
  <2>3. Verdict' = Verdict
    BY <2>1, <2>2 DEF Verdict
  <2>4. \A s : OwnKey(s)' <=> OwnKey(s)
    BY <2>1, KeysStay
  <2> QED BY <2>1, <2>2, <2>3, <2>4
<1> QED
  BY <1>1, <1>2, <1>3, <1>4, <1>5, <1>6, <1>7, <1>8, <1>9, <1>10, <1>11, <1>12, <1>13, <1>14, <1>15
  DEF Next

\* A run is called passed only if every check it registered under a key of its
\* own was answered, for every contract and on every path to the verdict
\* (ibis_check_execute.py:134-175, data_contract.py:268-294).
THEOREM PassedMeansComplete == Spec => []PassedIsComplete
<1> DEFINE Complete == Unanswered /\ Traced
<1>1. Init => Complete
  BY DEF Init, Unanswered, Undone, Traced, Early, Concluded
<1>2. TypeOK /\ TypeOK' /\ Kept /\ Complete /\ [Next]_vars => Complete'
  <2> SUFFICES ASSUME TypeOK, TypeOK', Kept, Unanswered, Traced, [Next]_vars
               PROVE  Unanswered' /\ Traced'
    OBVIOUS
  <2>1. Unanswered'
    BY UnansweredStep
  <2> QED BY <2>1, TracedStep
<1>3. TypeOK /\ Complete => PassedIsComplete
  <2> SUFFICES ASSUME TypeOK, Traced, Concluded, verdict = "passed", NEW s \in selected, OwnKey(s)
               PROVE  result[s] # "none"
    BY DEF PassedIsComplete
  <2>1. Verdict = "passed" /\ pc \in {"finish", "publish", "done"}
    BY DEF Traced, Concluded
  <2>2. "passed" \in Results /\ Results \cap RaisedResults = {}
    BY <2>1, PassedVerdict
  <2>3. extra \cap RaisedResults = {}
    BY <2>2 DEF Results
  <2> QED BY <2>1, <2>2, <2>3 DEF Traced
<1> HIDE DEF Complete
<1> QED BY <1>1, <1>2, <1>3, KeptInit, KeptStep, TypeCorrect, PTL DEF Spec

-----------------------------------------------------------------------------
(* A structure its parent cannot hold fails the parent, when both have     *)
(* keys of their own.                                                      *)

\* The type lines of a model are worked on with everything else of it: none is
\* left out by --metadata-only, a row filter or a preset.
TypesWith(S) ==
  \A s \in S, t \in selected : Kind[t] = "type" /\ Model[t] = Model[s] => t \in S

Paired ==
  /\ TypesWith(todo) /\ TypesWith(specs)
  /\ Early => mismatch = {} /\ todo = {} /\ specs = {}
  /\ MismatchFailsItsParent

\* A step that leaves the work of the model and adds no mismatch outside it
\* under a key of its own.
LEMMA SamePairs ==
  ASSUME TypeOK, Kept, Unanswered, Paired, [Next]_vars,
         UNCHANGED selected, TypesWith(todo)', TypesWith(specs)',
         ~ Early', specs \subseteq specs',
         \A t \in mismatch' : OwnKey(t) => t \in mismatch \cup specs'
  PROVE  Paired'
<1>1. \A s : OwnKey(s)' <=> OwnKey(s)
  BY KeysStay
<1> SUFFICES ASSUME NEW s \in mismatch' \ specs', Parent[s] \in selected,
                    OwnKey(s), OwnKey(Parent[s])
             PROVE  result'[Parent[s]] = "failed"
  BY <1>1 DEF Paired, MismatchFailsItsParent
<1>2. s \in mismatch \ specs
  OBVIOUS
<1>3. result[Parent[s]] = "failed" /\ Parent[s] \in Specs
  BY <1>2 DEF Paired, MismatchFailsItsParent, TypeOK
<1> QED BY <1>3, AnswersStay

\* What an evaluation leaves of the mismatches.
LEMMA FewerMismatches ==
  ASSUME NEW S, NEW r, Record(S, r) PROVE mismatch' \subseteq mismatch
BY DEF Record, Reasons

\* The type lines of the next model are all in it.
LEMMA NextModelIsWhole ==
  ASSUME TypeOK, Paired, todo # {}
  PROVE  /\ TypesWith(NextModel) /\ TypesWith(todo \ NextModel)
         /\ TypesWith(WithoutFilter)
<1>1. TypesWith(NextModel)
  BY DEF Paired, TypesWith, NextModel
<1>2. TypesWith(todo \ NextModel)
  BY DEF Paired, TypesWith, NextModel
<1>3. TypesWith(WithoutFilter)
  BY <1>1 DEF TypesWith, WithoutFilter, ReadingRows, ReadsData
<1> QED BY <1>1, <1>2, <1>3

\* One step of Paired, by the step taken (ibis_check_execute.py:218-396).
LEMMA PairedStep ==
  ASSUME TypeOK, Kept, Unanswered, Paired, [Next]_vars
  PROVE  Paired'
<1> USE DEF checks, work, outcome, Raise, RaisedResults
<1>1. CASE Early /\ ~ Plan
  <2>1. CASE Resolve \/ Prepare \/ PlanFails
    BY <1>1, <2>1 DEF Resolve, Prepare, PlanFails, Paired, TypesWith, Early, MismatchFailsItsParent
  <2>2. CASE UNCHANGED vars
    BY <2>2, KeysStay DEF vars, Paired, TypesWith, Early, MismatchFailsItsParent
  <2>3. CASE /\ ~ (Resolve \/ Prepare \/ PlanFails) /\ ~ UNCHANGED vars
    BY <1>1, <2>3
    DEF Next, Early, ReportDryRun, CheckFiles, ReportUnsupported, Connect, CannotConnect, ConnectFails,
        BeginModel, TableUnreadable, FilterUnusable, IntrospectionFails, EvaluateCheck, BatchCheck,
        Aggregate, AggregationFails, EndModel, Disconnect, Finish, SkipPublish, Publish
  <2> QED BY <2>1, <2>2, <2>3
<1>2. CASE Plan
  <2>1. PICK sel \in SUBSET Specs :
          /\ selected' = sel
          /\ todo' = sel \ (IF opt.metadataOnly THEN {s \in sel : ReadsData(s)} ELSE {})
    BY <1>2 DEF Plan
  <2>2. TypesWith(todo)'
    BY <2>1 DEF TypesWith, ReadsData
  <2>3. mismatch' = {} /\ specs' = {} /\ ~ Early'
    BY <1>2 DEF Plan, AfterPlan, Paired, Early
  <2> QED BY <2>2, <2>3 DEF Paired, TypesWith, MismatchFailsItsParent
<1>3. CASE /\ ~ Early /\ ~ Early'
           /\ UNCHANGED <<selected, mismatch, todo, specs>>
  <2>1. TypesWith(todo)' /\ TypesWith(specs)'
    BY <1>3 DEF Paired, TypesWith
  <2> QED BY <1>3, <2>1, SamePairs
<1>4. CASE ReportUnsupported
  <2>1. /\ todo' = todo \ {s \in todo : Kind[s] = "unsupported"}
        /\ UNCHANGED <<selected, mismatch, specs>> /\ ~ Early'
    BY <1>4 DEF ReportUnsupported, Early
  <2>2. TypesWith(todo)'
    BY <2>1 DEF Paired, TypesWith
  <2>3. TypesWith(specs)'
    BY <2>1 DEF Paired, TypesWith
  <2> QED BY <2>1, <2>2, <2>3, SamePairs
<1>5. CASE BeginModel
  <2>1. /\ specs' = NextModel /\ todo' = todo \ NextModel /\ todo # {}
        /\ UNCHANGED <<selected, mismatch>> /\ ~ Early' /\ specs = {}
    BY <1>5 DEF BeginModel, Early, TypeOK
  <2>2. TypesWith(todo)' /\ TypesWith(specs)'
    BY <2>1, NextModelIsWhole DEF TypesWith
  <2> QED BY <2>1, <2>2, SamePairs
<1>6. CASE TableUnreadable
  <2>1. /\ todo' = todo \ NextModel /\ todo # {} /\ UNCHANGED <<selected, specs>> /\ ~ Early'
    BY <1>6 DEF TableUnreadable, Early
  <2>2. mismatch' \subseteq mismatch
    BY <1>6, FewerMismatches DEF TableUnreadable, RecordAll
  <2>3. TypesWith(todo)' /\ TypesWith(specs)'
    BY <2>1, NextModelIsWhole DEF TypesWith, Paired
  <2> QED BY <2>1, <2>2, <2>3, SamePairs
<1>7. CASE FilterUnusable
  <2>1. /\ specs' = WithoutFilter /\ todo' = todo \ NextModel /\ todo # {}
        /\ selected' = selected /\ ~ Early' /\ specs = {}
    BY <1>7 DEF FilterUnusable, Early, TypeOK
  <2>2. mismatch' \subseteq mismatch
    BY <1>7, FewerMismatches DEF FilterUnusable, RecordAll
  <2>3. TypesWith(todo)' /\ TypesWith(specs)'
    BY <2>1, NextModelIsWhole DEF TypesWith
  <2> QED BY <2>1, <2>2, <2>3, SamePairs
<1>8. CASE EvaluateCheck
  <2>1. Min(pending) \in pending
    <3>1. pending \in SUBSET Nat /\ pending # {}
      BY <1>8, SpecsAreNumbers DEF EvaluateCheck, TypeOK
    <3> QED BY <3>1, MinOfNat
  <2> DEFINE s == Min(pending)
  <2> HIDE DEF s
  <2>2. s \in specs /\ s \in selected
    BY <2>1 DEF s, TypeOK
  <2>3. UNCHANGED <<selected, todo, specs>> /\ ~ Early'
    BY <1>8 DEF EvaluateCheck, Early
  <2>4. {s} \in SUBSET selected /\ Under({s}) \subseteq Specs
    BY <2>2 DEF Under
  <2>5. \A t \in mismatch' : OwnKey(t) => t \in mismatch \cup {s}
    <3>1. CASE \E r \in Outcomes(s) : RecordAll({s}, r)
      BY <3>1, FewerMismatches DEF RecordAll
    <3>2. CASE mismatch' = mismatch \cup Under({s})
      BY <2>4, <3>2, OwnEntry
    <3> QED BY <1>8, <3>1, <3>2 DEF EvaluateCheck, s
  <2>6. TypesWith(todo)' /\ TypesWith(specs)'
    BY <2>3 DEF Paired, TypesWith
  <2> QED BY <2>2, <2>3, <2>5, <2>6, SamePairs
<1>9. CASE Aggregate \/ AggregationFails
  <2>1. UNCHANGED <<selected, todo, specs>> /\ ~ Early'
    BY <1>9 DEF Aggregate, AggregationFails, Early
  <2>2. mismatch' \subseteq mismatch
    BY <1>9, FewerMismatches DEF Aggregate, AggregationFails, RecordAll
  <2>3. TypesWith(todo)' /\ TypesWith(specs)'
    BY <2>1 DEF Paired, TypesWith
  <2> QED BY <2>1, <2>2, <2>3, SamePairs
<1>10. CASE EndModel
  <2>1. /\ UNCHANGED <<selected, todo>> /\ specs' = {} /\ mismatch' \subseteq mismatch /\ ~ Early'
        /\ \A t \in Specs : result'[t] = IF t \in MismatchedParents THEN "failed" ELSE result[t]
    BY <1>10 DEF EndModel, Early
  <2>2. ASSUME NEW s \in mismatch, Parent[s] \in selected, OwnKey(s), OwnKey(Parent[s])
        PROVE  result'[Parent[s]] = "failed"
    <3>1. s \in Specs /\ Parent[s] \in Specs
      BY <2>2 DEF TypeOK
    <3>2. CASE s \notin specs
      <4>1. result[Parent[s]] = "failed"
        BY <2>2, <3>2 DEF Paired, MismatchFailsItsParent
      <4> QED BY <2>1, <3>1, <4>1
    <3>3. CASE s \in specs
      <4>1. Parent[s] # 0
        BY <3>1 DEF Specs
      <4>2. Kind[Parent[s]] = "type" /\ Model[Parent[s]] = Model[s]
        BY <3>1, <4>1, TestRunAssumption
      <4>3. Parent[s] \in specs
        BY <2>2, <3>3, <4>2 DEF Paired, TypesWith
      <4>4. {s} \in SUBSET selected
        BY <3>3 DEF TypeOK
      <4>5. First(selected, s) = s
        BY <2>2, <3>1, <4>4, OwnEntry
      <4>6. Under({s}) \subseteq mismatch
        BY <2>2, <4>5 DEF Under
      <4>7. First(selected, Parent[s]) = Parent[s]
        <5>1. {Parent[s]} \in SUBSET selected
          BY <2>2
        <5> QED BY <2>2, <3>1, <5>1, OwnEntry
      <4>8. Parent[s] \in MismatchedParents
        BY <3>1, <3>3, <4>3, <4>6, <4>7 DEF MismatchedParents, Under
      <4> QED BY <2>1, <3>1, <4>8
    <3> QED BY <3>2, <3>3
  <2>3. \A s : OwnKey(s)' <=> OwnKey(s)
    BY <2>1, KeysStay
  <2> QED BY <2>1, <2>2, <2>3 DEF Paired, TypesWith, MismatchFailsItsParent
<1>11. CASE ReportDryRun \/ CheckFiles \/ Connect \/ CannotConnect \/ ConnectFails
            \/ IntrospectionFails \/ BatchCheck \/ Disconnect \/ Finish \/ SkipPublish \/ Publish
  BY <1>3, <1>11
  DEF ReportDryRun, CheckFiles, Connect, CannotConnect, ConnectFails, IntrospectionFails, BatchCheck,
      Disconnect, Finish, SkipPublish, Publish, Early
<1>12. CASE ~ Early /\ UNCHANGED vars
  BY <1>3, <1>12 DEF vars, Early
<1> QED
  BY <1>1, <1>2, <1>4, <1>5, <1>6, <1>7, <1>8, <1>9, <1>10, <1>11, <1>12
  DEF Next, Early, Resolve, Prepare, PlanFails

\* Whatever warned that its parent cannot hold a structure leaves the parent's
\* type line failed once its model was run, if both have keys of their own, for
\* every contract (ibis_check_execute.py:386-396).
THEOREM ParentsOfMismatchesFail == Spec => []MismatchFailsItsParent
<1> DEFINE Whole == Unanswered /\ Paired
<1>1. Init => Whole
  BY DEF Init, Unanswered, Undone, Paired, TypesWith, MismatchFailsItsParent
<1>2. TypeOK /\ TypeOK' /\ Kept /\ Whole /\ [Next]_vars => Whole'
  BY UnansweredStep, PairedStep
<1>3. Whole => MismatchFailsItsParent
  BY DEF Paired
<1> HIDE DEF Whole
<1> QED BY <1>1, <1>2, <1>3, KeptInit, KeptStep, TypeCorrect, PTL DEF Spec

-----------------------------------------------------------------------------
(* A run comes to its end.                                                 *)

\* How far a run is. The models are run one after the other, in one stage.
Stage ==
  [resolve |-> 0, prepare |-> 1, plan |-> 2, dry |-> 3, files |-> 3, presets |-> 4, connect |-> 5,
   model |-> 6, check |-> 6, finish |-> 7, publish |-> 8, done |-> 9, raised |-> 9]

Fewer(S, T) == S \subseteq T /\ S # T

\* What a step uses up, the first of them counting most: a stage; a check that
\* is not worked on again; a model; a check to look at; the batch.
Nearer ==
  \/ Stage[pc'] > Stage[pc]
  \/ Stage[pc'] = Stage[pc] /\ Fewer(todo', todo)
  \/ todo' = todo /\ pc = "check" /\ pc' = "model"
  \/ UNCHANGED <<pc, todo>> /\ Fewer(pending', pending)
  \/ UNCHANGED <<pc, todo, pending>> /\ Fewer(batch', batch)

\* The model begun next has a check.
LEMMA NextModelHasCheck ==
  ASSUME TypeOK, todo # {}
  PROVE  NextModel # {} /\ NextModel \subseteq todo
<1>1. todo \in SUBSET Nat
  BY SpecsAreNumbers DEF TypeOK
<1>2. Min(todo) \in todo
  BY <1>1, MinOfNat
<1> QED BY <1>2 DEF NextModel

\* One step, by the stage it is taken in (data_contract.py:264-311,
\* data_contract_test.py:149-233, ibis_check_execute.py:105-396).
LEMMA NearerStep ==
  ASSUME TypeOK, Next
  PROVE  Nearer
<1> USE DEF Nearer, Stage, Fewer, checks, work, outcome, Raise
<1>1. CASE Resolve \/ Prepare \/ Plan \/ PlanFails
  BY <1>1 DEF Resolve, Prepare, Plan, AfterPlan, PlanFails
<1>2. CASE ReportDryRun \/ CheckFiles \/ ReportUnsupported
  BY <1>2 DEF ReportDryRun, CheckFiles, ReportUnsupported
<1>3. CASE Connect \/ CannotConnect \/ ConnectFails \/ IntrospectionFails \/ Disconnect
  BY <1>3 DEF Connect, CannotConnect, ConnectFails, IntrospectionFails, Disconnect
<1>4. CASE BeginModel \/ TableUnreadable \/ FilterUnusable
  <2>1. todo # {} /\ todo' = todo \ NextModel /\ pc = "model" /\ pc' \in {"model", "check"}
    BY <1>4 DEF BeginModel, TableUnreadable, FilterUnusable
  <2>2. Fewer(todo', todo)
    BY <2>1, NextModelHasCheck
  <2> QED BY <2>1, <2>2
<1>5. CASE EvaluateCheck \/ BatchCheck
  <2>1. pending # {} /\ pending' = pending \ {Min(pending)} /\ UNCHANGED <<pc, todo>>
    BY <1>5 DEF EvaluateCheck, BatchCheck
  <2>2. Min(pending) \in pending
    <3>1. pending \in SUBSET Nat
      BY SpecsAreNumbers DEF TypeOK
    <3> QED BY <2>1, <3>1, MinOfNat
  <2> QED BY <2>1, <2>2
<1>6. CASE Aggregate \/ AggregationFails
  BY <1>6 DEF Aggregate, AggregationFails
<1>7. CASE EndModel
  BY <1>7 DEF EndModel
<1>8. CASE Finish \/ SkipPublish \/ Publish
  BY <1>8 DEF Finish, SkipPublish, Publish
<1> QED BY <1>1, <1>2, <1>3, <1>4, <1>5, <1>6, <1>7, <1>8 DEF Next

\* No step leads back: every step of a run, of any contract and however it goes,
\* takes it to a later stage or uses up some of a finite amount of work
\* (data_contract.py:264-311, ibis_check_execute.py:218-396).
THEOREM RunGetsNearer == Spec => [][Nearer]_vars
<1>1. TypeOK /\ [Next]_vars => [Nearer]_vars
  BY NearerStep
<1> QED BY <1>1, TypeCorrect, PTL DEF Spec

-----------------------------------------------------------------------------
(* A run keeps the promise of RunPromise.                                  *)

\* A step between two places where the run is under way and leaves verdict and
\* publication alone is a stutter.
LEMMA UnderWay ==
  ASSUME pc \notin {"publish", "done", "raised"}, pc' \notin {"publish", "done", "raised"},
         UNCHANGED <<verdict, published>>
  PROVE  UNCHANGED Promise!vars
BY DEF Promise!vars, Phase

\* Every step of a run is a step of the promise or a stutter: the verdict once,
\* by the only step that sets it, then at most one publication of a run that
\* executed something (data_contract.py:264-311).
LEMMA PromiseStep == TypeOK /\ [Next]_vars => [Promise!Next]_(Promise!vars)
<1> SUFFICES ASSUME TypeOK, [Next]_vars PROVE [Promise!Next]_(Promise!vars)
  OBVIOUS
<1> USE DEF checks, work, outcome, Raise
<1>1. CASE Resolve
  <2>1. CASE pc' = "raised"
    <3>1. Phase = "running" /\ Phase' = "raised"
      BY <1>1, <2>1 DEF Resolve, Phase
    <3> QED BY <1>1, <3>1 DEF Resolve, Promise!Next, Promise!Raise
  <2>2. CASE pc' # "raised"
    BY <1>1, <2>2, UnderWay DEF Resolve
  <2> QED BY <2>1, <2>2
<1>2. CASE Prepare \/ Plan \/ PlanFails \/ ReportDryRun \/ CheckFiles \/ ReportUnsupported
  BY <1>2, UnderWay
  DEF Prepare, Plan, AfterPlan, PlanFails, ReportDryRun, CheckFiles, ReportUnsupported
<1>3. CASE Connect \/ CannotConnect \/ ConnectFails \/ BeginModel \/ TableUnreadable \/ FilterUnusable
  BY <1>3, UnderWay
  DEF Connect, CannotConnect, ConnectFails, BeginModel, TableUnreadable, FilterUnusable
<1>4. CASE IntrospectionFails \/ EvaluateCheck \/ BatchCheck \/ Aggregate \/ AggregationFails
  BY <1>4, UnderWay
  DEF IntrospectionFails, EvaluateCheck, BatchCheck, Aggregate, AggregationFails
<1>5. CASE EndModel \/ Disconnect
  BY <1>5, UnderWay DEF EndModel, Disconnect
<1>6. CASE Finish
  <2>1. Phase = "running" /\ Phase' = "concluded"
    BY <1>6 DEF Finish, Phase
  <2> QED BY <1>6, <2>1, VerdictType DEF Finish, Promise!Next, Promise!Conclude
<1>7. CASE SkipPublish
  <2>1. Phase = "concluded" /\ Phase' = "returned"
    BY <1>7 DEF SkipPublish, Phase
  <2> QED BY <1>7, <2>1 DEF SkipPublish, Promise!Next, Promise!Return
<1>8. CASE Publish
  <2>1. Phase = "concluded" /\ Phase' = "returned"
    BY <1>8 DEF Publish, Phase
  <2>2. verdict \notin {"skipped", "unknown"} /\ verdict' = verdict
    BY <1>8 DEF Publish, Publishable
  <2>3. published' \in {"succeeded", "failed"}
    BY <1>8 DEF Publish
  <2> QED BY <2>1, <2>2, <2>3 DEF Promise!Next, Promise!Publish, Promise!Unexecuted
<1>9. CASE UNCHANGED vars
  BY <1>9 DEF vars, Promise!vars, Phase
<1> QED BY <1>1, <1>2, <1>3, <1>4, <1>5, <1>6, <1>7, <1>8, <1>9 DEF Next

\* For every contract, a run implements RunPromise: one verdict, given once and
\* final, and publishing only after it (data_contract.py:264-311).
THEOREM RunKeepsPromise == Spec => KeepsPromise
<1>1. Init => Promise!Init
  BY DEF Init, Promise!Init, Phase
<1> QED BY <1>1, PromiseStep, TypeCorrect, PTL DEF Spec, KeepsPromise, Promise!Spec
=============================================================================
