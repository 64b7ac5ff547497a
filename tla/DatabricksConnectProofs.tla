----------------------- MODULE DatabricksConnectProofs -----------------------
(***************************************************************************)
(* Type correctness of DatabricksConnect and what holds for any number of  *)
(* threads, schemas and calls while no two calls overlap and no two runs   *)
(* use the session at once.                                                *)
(***************************************************************************)
EXTENDS DatabricksConnect, TLAPS

\* Every step keeps the types of the variables; saved is bound wherever the
\* finally block may read it (connect.py:304-310).
THEOREM TypeCorrect == Spec => []TypeOK
<1>1. Init => TypeOK
  <2>1. MaxConnects \in 0 .. MaxConnects
    BY ConnectAssumption
  <2>2. [t \in Threads |-> MaxConnects] \in [Threads -> 0 .. MaxConnects]
    BY <2>1
  <2> QED
    BY <2>2 DEF Init, TypeOK, Functions, Inside
<1>2. TypeOK /\ [Next]_vars => TypeOK'
  <2> SUFFICES ASSUME TypeOK, [Next]_vars PROVE TypeOK'
    OBVIOUS
  <2> USE DEF TypeOK, Functions, Inside, InSession, Goto, class, spark
  <2>1. ASSUME NEW t \in Threads, Save(t) PROVE TypeOK'
    BY <2>1, ConnectAssumption DEF Save
  <2>2. ASSUME NEW t \in Threads, Patch(t) PROVE TypeOK'
    BY <2>2 DEF Patch
  <2>3. ASSUME NEW t \in Threads, Open(t) PROVE TypeOK'
    BY <2>3 DEF Open
  <2>4. ASSUME NEW t \in Threads, OpenFails(t) PROVE TypeOK'
    BY <2>4 DEF OpenFails
  <2>5. ASSUME NEW t \in Threads, PostConnect(t) PROVE TypeOK'
    BY <2>5 DEF PostConnect
  <2>6. ASSUME NEW t \in Threads, Restore(t) PROVE TypeOK'
    BY <2>6 DEF Restore
  <2>7. ASSUME NEW t \in Threads, NEW s \in Schemas \cup {Unnamed}, Use(t, s) PROVE TypeOK'
    BY <2>7, ConnectAssumption DEF Use
  <2>8. ASSUME NEW t \in Threads, UseFails(t) PROVE TypeOK'
    BY <2>8, ConnectAssumption DEF UseFails
  <2>9. ASSUME NEW t \in Threads, ReadTable(t) PROVE TypeOK'
    BY <2>9 DEF ReadTable
  <2>10. ASSUME NEW t \in Threads, LeaveSession(t) PROVE TypeOK'
    BY <2>10 DEF LeaveSession
  <2>11. CASE UNCHANGED vars
    BY <2>11 DEF vars
  <2> QED
    BY <2>1, <2>2, <2>3, <2>4, <2>5, <2>6, <2>7, <2>8, <2>9, <2>10, <2>11 DEF Next
<1> QED
  BY <1>1, <1>2, PTL DEF Spec

\* One step of Alone, by the step taken.
LEMMA AloneStep == TypeOK /\ Alone /\ [Next]_vars => Alone'
<1> SUFFICES ASSUME TypeOK, Alone, [Next]_vars, ~ overlapped' PROVE Alone'
  BY DEF Alone
<1>1. ~ overlapped
  BY DEF Next, Save, Patch, Open, OpenFails, PostConnect, Restore, Use, UseFails, ReadTable,
         LeaveSession, vars, class, TypeOK
<1> USE DEF TypeOK, Alone, Inside, InSession, Goto, class
<1>2. ASSUME NEW t \in Threads, Save(t) PROVE Alone'
  <2>1. \A u \in Threads : ~ Inside(u)
    BY <1>2 DEF Save
  <2>2. \A u \in Threads : Inside(u)' => u = t /\ pc'[u] = "patch"
    BY <1>2, <2>1 DEF Save
  <2>3. saved'[t] = "original" /\ postConnect' = "original"
    BY <1>1, <1>2, <2>1 DEF Save
  <2> QED
    BY <1>1, <1>2, <2>2, <2>3 DEF Save
<1>3. ASSUME NEW t \in Threads, Patch(t) PROVE Alone'
  BY <1>1, <1>3 DEF Patch
<1>4. ASSUME NEW t \in Threads, Open(t) PROVE Alone'
  BY <1>1, <1>4 DEF Open
<1>5. ASSUME NEW t \in Threads, OpenFails(t) PROVE Alone'
  BY <1>1, <1>5 DEF OpenFails
<1>6. ASSUME NEW t \in Threads, PostConnect(t) PROVE Alone'
  BY <1>1, <1>6 DEF PostConnect
<1>7. ASSUME NEW t \in Threads, Restore(t) PROVE Alone'
  BY <1>1, <1>7 DEF Restore
<1>8. ASSUME NEW t \in Threads, NEW s \in Schemas \cup {Unnamed}, Use(t, s) PROVE Alone'
  BY <1>1, <1>8 DEF Use
<1>9. ASSUME NEW t \in Threads, UseFails(t) PROVE Alone'
  BY <1>1, <1>9 DEF UseFails
<1>10. ASSUME NEW t \in Threads, ReadTable(t) PROVE Alone'
  BY <1>1, <1>10 DEF ReadTable
<1>11. ASSUME NEW t \in Threads, LeaveSession(t) PROVE Alone'
  BY <1>1, <1>11 DEF LeaveSession
<1>12. CASE UNCHANGED vars
  BY <1>12 DEF vars
<1> QED
  BY <1>2, <1>3, <1>4, <1>5, <1>6, <1>7, <1>8, <1>9, <1>10, <1>11, <1>12 DEF Next

\* While no two calls overlap, the thread that is inside knows the original and
\* has replaced it from the patch to the restore (connect.py:305-310).
THEOREM AloneIsInductive == Spec => []Alone
<1>1. Init => Alone
  BY DEF Init, Alone, Inside
<1> QED
  BY <1>1, AloneStep, TypeCorrect, PTL DEF Spec

\* While no two calls overlap, no staging volume is ever set up
\* (connect.py:304-310).
THEOREM StagesNothingAlone == Spec => []AloneStagesNothing
<1>1. Alone => AloneStagesNothing
  BY DEF Alone, AloneStagesNothing
<1> QED
  BY <1>1, AloneIsInductive, PTL

\* While no two calls overlap, the class is ibis's own again whenever no
\* thread is connecting (connect.py:307-310).
THEOREM RestoresTheClassAlone == Spec => []AloneRestoresTheClass
<1>1. Alone => AloneRestoresTheClass
  BY DEF Alone, AloneRestoresTheClass
<1> QED
  BY <1>1, AloneIsInductive, PTL

-----------------------------------------------------------------------------
\* One step of SessionIsOwn, by the step taken; connects over the SQL connector
\* do not touch the session.
LEMMA SessionStep == TypeOK /\ SessionIsOwn /\ [Next]_vars => SessionIsOwn'
<1> SUFFICES ASSUME TypeOK, SessionIsOwn, [Next]_vars, ~ shared' PROVE SessionIsOwn'
  BY DEF SessionIsOwn
<1> USE DEF TypeOK, SessionIsOwn, InSession, Goto, spark
<1>1. ~ shared
  BY DEF Next, Save, Patch, Open, OpenFails, PostConnect, Restore, Use, UseFails, ReadTable,
         LeaveSession, vars
<1>2. ASSUME NEW t \in Threads,
             Save(t) \/ Patch(t) \/ Open(t) \/ OpenFails(t) \/ PostConnect(t) \/ Restore(t)
      PROVE  SessionIsOwn'
  BY <1>1, <1>2 DEF Save, Patch, Open, OpenFails, PostConnect, Restore
<1>3. ASSUME NEW t \in Threads, NEW s \in Schemas \cup {Unnamed}, Use(t, s)
      PROVE  SessionIsOwn'
  <2>1. \A u \in Threads : ~ InSession(u)
    BY <1>3 DEF Use
  <2>2. \A u \in Threads : InSession(u)' => u = t
    BY <1>3, <2>1 DEF Use
  <2>3. wants'[t] \in {Unnamed, schema'}
    BY <1>3 DEF Use
  <2> QED
    BY <1>1, <1>3, <2>2, <2>3 DEF Use
<1>4. ASSUME NEW t \in Threads, UseFails(t) PROVE SessionIsOwn'
  BY <1>1, <1>4 DEF UseFails
<1>5. ASSUME NEW t \in Threads, ReadTable(t) PROVE SessionIsOwn'
  BY <1>1, <1>5 DEF ReadTable
<1>6. ASSUME NEW t \in Threads, LeaveSession(t) PROVE SessionIsOwn'
  BY <1>1, <1>6 DEF LeaveSession
<1>7. CASE UNCHANGED vars
  BY <1>7 DEF vars
<1> QED
  BY <1>2, <1>3, <1>4, <1>5, <1>6, <1>7 DEF Next

\* While no two runs use the Spark session at once, every run reads its tables
\* in the schema its server names (connect.py:111-117).
THEOREM RunAloneReadsItsOwn == Spec => []AloneReadsItsOwn
<1>1. Init => SessionIsOwn
  BY DEF Init, SessionIsOwn, InSession
<1>2. SessionIsOwn => AloneReadsItsOwn
  BY DEF SessionIsOwn, AloneReadsItsOwn
<1> QED
  BY <1>1, <1>2, SessionStep, TypeCorrect, PTL DEF Spec
=============================================================================
