------------------------ MODULE EditorSessionProofs ------------------------
(***************************************************************************)
(* Proofs about an editing session, for any number of edits, requests,     *)
(* test runs and rounds: the type invariant, the two invariants of the     *)
(* contract on the page and in the file, those of the test runs, and the   *)
(* action properties that follow from them.                                *)
(*                                                                         *)
(* The steps of a session are first sorted by what they do to the store,   *)
(* to the test runs, and to the server together with the store; each       *)
(* invariant is then carried through the steps of its own sort.            *)
(***************************************************************************)
EXTENDS EditorSession, NatSetLemmas, TLAPS

USE EditsAssumption, ServerAssumption, RunsAssumption, SessionAssumption

-----------------------------------------------------------------------------
\* What a step does to the store.
StoreSteps ==
  \/ UNCHANGED store
  \/ \E e \in Edits : (error => asking) /\ setValue(e) /\ UNCHANGED proposal
  \/ \E text \in Text : setYaml(text) /\ UNCHANGED proposal
  \/ \E text \in Text : loadYaml(text) /\ UNCHANGED proposal
  \/ saveToFile /\ UNCHANGED proposal
  \/ proposal' \in Text /\ UNCHANGED contract
  \/ setYaml(proposal) /\ proposal' = NoProposal

\* What a step does to the test runs.
TestSteps ==
  \/ UNCHANGED test
  \/ RunTest
  \/ CancelTest
  \/ clearTestResults
  \/ \E i \in Runs : TimeOut(i) \/ Answered(i) \/ TimedOut(i) \/ Cancelled(i)

\* What a step does to the server.
ServerSteps ==
  \/ UNCHANGED server
  \/ Send("put", yaml)
  \/ Send("get", Empty)
  \/ \E i \in Requests : Serve(i)
  \/ \E i \in Requests : Close(i) /\ quiet' \in BOOLEAN /\ UNCHANGED alone
  \/ \E e \in Edits, ok \in BOOLEAN : ForeignWrite(e, ok)

-----------------------------------------------------------------------------
\* The saves that have not reached the file, the one being written included.
Unserved == {i \in Requests : OnItsWay(i)}

\* The store knows what it would take to be clean.
CleanIsBaseline == ~ dirty => yaml = baseline

\* The file is written for a save that waits for it, and - while all is
\* quiet - only after the saves before it.
WritesInTurn ==
  writing # 0 =>
    /\ writing \in Unserved
    /\ quiet => \A j \in Unserved : writing <= j

\* While all is quiet the baseline is where the file is heading: the text of
\* the last save on its way, or the file if none is.
BaselineIsAhead ==
  quiet =>
    /\ Unserved = {} => file = baseline
    /\ \A i \in Unserved : (\A j \in Unserved : j <= i) => request[i].text = baseline

\* A request nothing has crossed is the last one, the only one under way, and
\* if it has read the file, it has read what is still there.
AloneIsAlone ==
  \A i \in alone :
    /\ i = sent
    /\ \A j \in Requests : Pending(j) => j = i
    /\ Under(i, "get") /\ request[i].at = "served" => request[i].text = file

\* While all is quiet nothing has crossed a reload.
QuietReloadsAlone == quiet => \A i \in Requests : Under(i, "get") => i \in alone

Synced ==
  /\ CleanIsBaseline
  /\ WritesInTurn
  /\ BaselineIsAhead
  /\ AloneIsAlone
  /\ QuietReloadsAlone

\* A run that may show its outcome was started after the one whose outcome is
\* shown, and it would restore nothing else.
ResultsInOrder ==
  /\ results <= started /\ current <= started
  /\ current # 0 => /\ results \in {0, run[current].before}
                    /\ run[current].before < current

-----------------------------------------------------------------------------
LEMMA NewEditIsEdit == ASSUME TypeOK, made < MaxEdits PROVE NewEdit \in Edits
  BY DEF TypeOK, NewEdit, Edits

LEMMA TextTypes ==
  /\ Empty \in Text /\ Opened \in Text /\ NoProposal \in Text
  /\ \A text \in Text, e \in Edits, ok \in BOOLEAN : With(text, e, ok) \in Text
  /\ \A edits \in SUBSET Edits : Serialize(edits) \in Text
  /\ \A text \in Text : Parse(text) \in SUBSET Edits
<1>1. 0 \in Edits
  BY DEF Edits
<1>2. Empty \in Text /\ Opened \in Text /\ NoProposal \in Text
  BY <1>1 DEF Empty, Opened, NoProposal, Text
<1>3. ASSUME NEW text \in Text, NEW e \in Edits, NEW ok \in BOOLEAN
      PROVE  With(text, e, ok) \in Text
  BY DEF Text, With
<1>4. ASSUME NEW edits \in SUBSET Edits PROVE Serialize(edits) \in Text
  BY DEF Text, Serialize
<1>5. ASSUME NEW text \in Text PROVE Parse(text) \in SUBSET Edits
  BY DEF Text, Parse
<1> QED
  BY <1>2, <1>3, <1>4, <1>5, Zenon

\* What each step does to the store.
LEMMA SortStore == ASSUME TypeOK, [Next]_vars PROVE StoreSteps
<1>1. CASE EditForm
  <2>1. ~ error /\ setValue(NewEdit) /\ UNCHANGED proposal /\ made < MaxEdits
    BY <1>1, Zenon DEF EditForm, MakeEdit
  <2> QED BY <2>1, NewEditIsEdit, Zenon DEF StoreSteps
<1>2. ASSUME NEW ok \in BOOLEAN, EditText(ok) PROVE StoreSteps
  <2>1. setYaml(With(yaml, NewEdit, ok)) /\ UNCHANGED proposal /\ made < MaxEdits
    BY <1>2, Zenon DEF EditText, MakeEdit
  <2>2. With(yaml, NewEdit, ok) \in Text
    BY <2>1, NewEditIsEdit, TextTypes, Zenon DEF TypeOK, StoreTypeOK
  <2> QED BY <2>1, <2>2, Zenon DEF StoreSteps
<1>3. CASE Save
  BY <1>3, Zenon DEF Save, StoreSteps
<1>4. ASSUME NEW i \in Requests, Load(i) PROVE StoreSteps
  <2>1. loadYaml(request[i].text) /\ UNCHANGED proposal
    BY <1>4, Zenon DEF Load
  <2>2. request[i].text \in Text
    BY DEF TypeOK, ServerTypeOK, RequestType
  <2> QED BY <2>1, <2>2, Zenon DEF StoreSteps
<1>5. CASE SuggestionLands
  <2>1. asking /\ setValue(NewEdit) /\ UNCHANGED proposal /\ made < MaxEdits
    BY <1>5, Zenon DEF SuggestionLands, MakeEdit
  <2> QED BY <2>1, NewEditIsEdit, Zenon DEF StoreSteps
<1>6. CASE Propose
  BY <1>6 DEF Propose, StoreSteps, TypeOK, ChatType
<1>7. CASE Apply
  BY <1>7, Zenon DEF Apply, StoreSteps
<1>8. CASE Dismiss
  BY <1>8, TextTypes, Zenon DEF Dismiss, StoreSteps
<1>9. CASE UNCHANGED store
  BY <1>9, Zenon DEF StoreSteps
<1>10. Reload \/ AskSuggestion \/ TestButton \/ SendMessage \/ Stop \/ SuggestionFails
         \/ Answers \/ CallsReader \/ (\E ok \in BOOLEAN : CallsUpdate(ok)) \/ CallsTest
         \/ Read \/ Tested \/ Elsewhere \/ (\E i \in Requests : ServerStep(i) \/ Notify(i))
         \/ (\E i \in Runs : TestAnswered(i) \/ TestGivesUp(i)) \/ UNCHANGED vars
       => UNCHANGED store
  BY DEF Reload, AskSuggestion, TestButton, SendMessage, Stop, SuggestionFails, Answers,
         CallsReader, CallsUpdate, CallsTest, Read, Tested, Elsewhere, ServerStep, Notify,
         TestAnswered, TestGivesUp, vars
<1> QED
  BY <1>1, <1>2, <1>3, <1>4, <1>5, <1>6, <1>7, <1>8, <1>9, <1>10, Zenon
     DEF Next, User, Assistant, PageStep

\* What each step does to the test runs.
LEMMA SortTest == ASSUME [Next]_vars PROVE TestSteps
<1>1. CASE TestButton
  BY <1>1, Zenon DEF TestButton, TestSteps
<1>2. CASE CallsTest
  BY <1>2, Zenon DEF CallsTest, TestSteps
<1>3. ASSUME NEW i \in Runs, TestAnswered(i) \/ TestGivesUp(i) PROVE TestSteps
  BY <1>3, Zenon DEF TestAnswered, TestGivesUp, TestSteps
<1>4. CASE UNCHANGED test
  BY <1>4, Zenon DEF TestSteps
<1>5. EditForm \/ (\E ok \in BOOLEAN : EditText(ok)) \/ Save \/ Reload \/ AskSuggestion
        \/ SendMessage \/ Stop \/ Apply \/ Dismiss \/ SuggestionLands \/ SuggestionFails
        \/ Answers \/ CallsReader \/ (\E ok \in BOOLEAN : CallsUpdate(ok)) \/ Read
        \/ Propose \/ Tested \/ Elsewhere
        \/ (\E i \in Requests : ServerStep(i) \/ Notify(i) \/ Load(i)) \/ UNCHANGED vars
      => UNCHANGED test
  BY DEF EditForm, EditText, Save, Reload, AskSuggestion, SendMessage, Stop, Apply, Dismiss,
         SuggestionLands, SuggestionFails, Answers, CallsReader, CallsUpdate, Read, Propose,
         Tested, Elsewhere, ServerStep, Notify, Load, vars
<1> QED
  BY <1>1, <1>2, <1>3, <1>4, <1>5, Zenon DEF Next, User, Assistant, PageStep

\* What each step does to the server.
LEMMA SortServer == ASSUME TypeOK, [Next]_vars PROVE ServerSteps
<1>1. CASE Save
  BY <1>1, Zenon DEF Save, ServerSteps
<1>2. CASE Reload
  BY <1>2, Zenon DEF Reload, ServerSteps
<1>3. ASSUME NEW i \in Requests, ServerStep(i) PROVE ServerSteps
  BY <1>3, Zenon DEF ServerStep, ServerSteps
<1>4. ASSUME NEW i \in Requests, PageStep(i) PROVE ServerSteps
  <2>1. Close(i) /\ UNCHANGED alone
    BY <1>4, Zenon DEF PageStep, Notify, Load
  <2>2. quiet' \in BOOLEAN
    BY <1>4 DEF PageStep, Notify, Load, TypeOK, ServerTypeOK
  <2> QED BY <2>1, <2>2, Zenon DEF ServerSteps
<1>5. CASE Elsewhere
  BY <1>5, NewEditIsEdit, Zenon DEF Elsewhere, MakeEdit, ServerSteps
<1>6. CASE UNCHANGED server
  BY <1>6, Zenon DEF ServerSteps
<1>7. EditForm \/ (\E ok \in BOOLEAN : EditText(ok)) \/ AskSuggestion \/ TestButton
        \/ SendMessage \/ Stop \/ Apply \/ Dismiss \/ SuggestionLands \/ SuggestionFails
        \/ Assistant \/ (\E i \in Runs : TestAnswered(i) \/ TestGivesUp(i)) \/ UNCHANGED vars
      => UNCHANGED server
  BY DEF EditForm, EditText, AskSuggestion, TestButton, SendMessage, Stop, Apply, Dismiss,
         SuggestionLands, SuggestionFails, Assistant, Answers, CallsReader, CallsUpdate,
         CallsTest, Read, Propose, Tested, TestAnswered, TestGivesUp, vars
<1> QED
  BY <1>1, <1>2, <1>3, <1>4, <1>5, <1>6, <1>7, Zenon DEF Next, User

-----------------------------------------------------------------------------
(* Types.                                                                  *)

LEMMA InitTypes == Init => TypeOK
<1> SUFFICES ASSUME Init PROVE TypeOK
  OBVIOUS
<1>1. ServerTypeOK
  BY TextTypes DEF Init, ServerInit, ServerTypeOK, RequestType, None
<1>2. StoreTypeOK
  BY TextTypes DEF Init, ServerInit, StoreInit, StoreTypeOK
<1>3. TestTypeOK
  <2>1. Unstarted \in RunType
    BY DEF Unstarted, RunType
  <2>2. 0 \in 0 .. MaxRuns
    OBVIOUS
  <2>3. run \in [Runs -> RunType]
    BY <2>1 DEF Init, TestInit
  <2> QED BY <2>2, <2>3, Zenon DEF Init, TestInit, TestTypeOK
<1>4. made \in 0 .. MaxEdits /\ asking \in BOOLEAN
  <2>1. 0 \in 0 .. MaxEdits
    OBVIOUS
  <2> QED BY <2>1, Zenon DEF Init
<1>5. chat = Idle
  BY DEF Init
<1>6. chat \in ChatType
  BY <1>5, TextTypes DEF Idle, ChatType
<1> QED
  BY <1>1, <1>2, <1>3, <1>4, <1>6, Zenon DEF TypeOK

LEMMA StoreTypes == ASSUME StoreTypeOK, StoreSteps PROVE StoreTypeOK'
<1> USE DEF StoreTypeOK
<1>1. CASE UNCHANGED store
  BY <1>1 DEF store
<1>2. ASSUME NEW e \in Edits, setValue(e), UNCHANGED proposal PROVE StoreTypeOK'
  BY <1>2, TextTypes DEF setValue
<1>3. ASSUME NEW text \in Text, setYaml(text), proposal' \in Text PROVE StoreTypeOK'
  BY <1>3, TextTypes DEF setYaml
<1>4. ASSUME NEW text \in Text, loadYaml(text), UNCHANGED proposal PROVE StoreTypeOK'
  BY <1>4, TextTypes DEF loadYaml
<1>5. CASE saveToFile /\ UNCHANGED proposal
  BY <1>5 DEF saveToFile
<1>6. CASE proposal' \in Text /\ UNCHANGED contract
  BY <1>6 DEF contract
<1> QED
  BY <1>1, <1>2, <1>3, <1>4, <1>5, <1>6, TextTypes DEF StoreSteps

LEMMA TestTypes == ASSUME TestTypeOK, TestSteps PROVE TestTypeOK'
<1>1. ASSUME NEW i \in 0 .. MaxRuns, NEW why \in {"cancelled", "timedOut"}
      PROVE  Aborted(run, i, why) \in [Runs -> RunType]
  <2>1. run \in [Runs -> RunType]
    BY Zenon DEF TestTypeOK
  <2>2. ASSUME NEW j \in Runs PROVE [run[j] EXCEPT !.at = why] \in RunType
    BY <2>1 DEF RunType
  <2> QED BY <2>1, <2>2, Zenon DEF Aborted
<1>2. CASE UNCHANGED test
  BY <1>2 DEF test, TestTypeOK
<1>3. CASE RunTest
  <2>1. started + 1 \in Runs /\ started + 1 \in 0 .. MaxRuns
    BY <1>3 DEF RunTest, TestTypeOK, Runs
  <2>2. [at |-> "waiting", before |-> results] \in RunType
    BY DEF TestTypeOK, RunType
  <2>3. Aborted(run, current, "cancelled") \in [Runs -> RunType]
    BY <1>1 DEF TestTypeOK
  <2>4. run' \in [Runs -> RunType]
    BY <1>3, <2>1, <2>2, <2>3 DEF RunTest
  <2> QED BY <1>3, <2>1, <2>4, Zenon DEF RunTest, TestTypeOK
<1>4. CASE CancelTest
  <2>1. run' \in [Runs -> RunType]
    BY <1>4, <1>1 DEF CancelTest, TestTypeOK
  <2>2. running' \in BOOLEAN
    BY <1>4, Zenon DEF CancelTest
  <2> QED BY <1>4, <2>1, <2>2, Zenon DEF CancelTest, TestTypeOK
<1>5. CASE clearTestResults
  <2>1. results' \in 0 .. MaxRuns
    BY <1>5 DEF clearTestResults
  <2> QED BY <1>5, <2>1, Zenon DEF clearTestResults, TestTypeOK
<1>6. ASSUME NEW i \in Runs, TimeOut(i) PROVE TestTypeOK'
  <2>1. i \in 0 .. MaxRuns
    BY DEF Runs
  <2> QED BY <1>6, <1>1, <2>1, Zenon DEF TimeOut, TestTypeOK
<1>7. ASSUME NEW i \in Runs, NEW shown \in 0 .. MaxRuns, Conclude(i, shown) PROVE TestTypeOK'
  <2>1. Unstarted \in RunType /\ 0 \in 0 .. MaxRuns
    BY DEF Unstarted, RunType
  <2>2. run' \in [Runs -> RunType]
    BY <1>7, <2>1 DEF Conclude, TestTypeOK
  <2>3. running' \in BOOLEAN
    BY <1>7, Zenon DEF Conclude, TestTypeOK
  <2>4. results' \in 0 .. MaxRuns /\ current' \in 0 .. MaxRuns /\ started' \in 0 .. MaxRuns
    BY <1>7, <2>1, Zenon DEF Conclude, TestTypeOK
  <2> QED BY <2>2, <2>3, <2>4, Zenon DEF TestTypeOK
<1>8. ASSUME NEW i \in Runs PROVE i \in 0 .. MaxRuns /\ run[i].before \in 0 .. MaxRuns
  BY DEF Runs, TestTypeOK, RunType
<1> QED
  BY <1>2, <1>3, <1>4, <1>5, <1>6, <1>7, <1>8, Zenon DEF TestSteps, Answered, TimedOut, Cancelled

LEMMA ServerTypes == ASSUME ServerTypeOK, StoreTypeOK, ServerSteps PROVE ServerTypeOK'
<1> USE DEF ServerTypeOK
<1>1. CASE UNCHANGED server
  BY <1>1 DEF server
<1>2. ASSUME NEW kind \in {"put", "get"}, NEW text \in Text, Send(kind, text) PROVE ServerTypeOK'
  BY <1>2 DEF Send, RequestType, Requests
<1>3. ASSUME NEW i \in Requests, Serve(i) PROVE ServerTypeOK'
  <2>1. ASSUME NEW stage \in {"served", "failed"}, At(i, stage)
        PROVE  request' \in [Requests -> RequestType]
    BY <2>1 DEF At, RequestType
  <2>2. i \in 0 .. MaxRequests /\ request[i].text \in Text
    BY DEF Requests, RequestType
  <2>3. CASE BeginWrite(i)
    BY <2>3, <2>2, TextTypes DEF BeginWrite
  <2>4. CASE EndWrite(i)
    BY <2>4, <2>1, <2>2 DEF EndWrite
  <2>5. CASE WriteBreaks(i)
    <3>1. writing' \in 0 .. MaxRequests
      BY <2>5 DEF WriteBreaks
    <3>2. request' \in [Requests -> RequestType]
      BY <2>5, <2>1, Zenon DEF WriteBreaks
    <3> QED BY <2>5, <3>1, <3>2, Zenon DEF WriteBreaks
  <2>6. CASE ReadFile(i)
    BY <2>6 DEF ReadFile, RequestType
  <2>7. CASE Refuse(i)
    BY <2>7, <2>1 DEF Refuse
  <2>8. CASE LoseAnswer(i)
    BY <2>8, <2>1 DEF LoseAnswer
  <2> QED
    BY <1>3, <2>3, <2>4, <2>5, <2>6, <2>7, <2>8, Zenon DEF Serve
<1>4. ASSUME NEW i \in Requests, Close(i), quiet' \in BOOLEAN, UNCHANGED alone PROVE ServerTypeOK'
  BY <1>4, TextTypes DEF Close, None, RequestType
<1>5. ASSUME NEW e \in Edits, NEW ok \in BOOLEAN, ForeignWrite(e, ok) PROVE ServerTypeOK'
  <2>1. With(file, e, ok) \in Text
    BY TextTypes
  <2>2. foreign' \in 0 .. MaxForeign /\ file' \in Text /\ alone' \in SUBSET Requests
    BY <1>5, <2>1 DEF ForeignWrite
  <2> QED BY <1>5, <2>2, Zenon DEF ForeignWrite
<1> QED
  BY <1>1, <1>2, <1>3, <1>4, <1>5, TextTypes DEF ServerSteps, StoreTypeOK

LEMMA NextRoundTypes == ASSUME chat \in ChatType PROVE NextRound \in ChatType
<1>1. Idle \in ChatType
  BY TextTypes DEF Idle, ChatType
<1>2. ASSUME chat.round # MaxToolRounds
      PROVE  [chat EXCEPT !.at = "thinking", !.round = chat.round + 1, !.run = 0] \in ChatType
  <2>1. chat.round + 1 \in 0 .. MaxToolRounds /\ 0 \in 0 .. MaxRuns
    BY <1>2 DEF ChatType
  <2> QED BY <2>1 DEF ChatType
<1> QED
  BY <1>1, <1>2, Zenon DEF NextRound

LEMMA SessionTypes ==
  ASSUME TypeOK, [Next]_vars
  PROVE  made' \in 0 .. MaxEdits /\ asking' \in BOOLEAN /\ chat' \in ChatType
<1> USE DEF TypeOK
<1>1. ASSUME MakeEdit PROVE made' \in 0 .. MaxEdits
  BY <1>1 DEF MakeEdit, NewEdit
<1>2. CASE EditForm \/ (\E ok \in BOOLEAN : EditText(ok)) \/ Elsewhere
  BY <1>1, <1>2, Zenon DEF EditForm, EditText, Elsewhere
<1>3. CASE SuggestionLands
  BY <1>1, <1>3, Zenon DEF SuggestionLands
<1>4. CASE AskSuggestion \/ SuggestionFails
  BY <1>4, Zenon DEF AskSuggestion, SuggestionFails
<1>5. CASE SendMessage
  <2>1. [Idle EXCEPT !.at = "thinking", !.round = 1, !.text = yaml] \in ChatType
    <3>1. 1 \in 0 .. MaxToolRounds /\ 0 \in 0 .. MaxRuns /\ yaml \in Text
      BY DEF StoreTypeOK
    <3> QED BY <3>1 DEF ChatType, Idle
  <2> QED BY <1>5, <2>1, Zenon DEF SendMessage, session
<1>6. CASE Stop
  <2>1. Idle \in ChatType
    BY TextTypes DEF ChatType, Idle
  <2>2. [chat EXCEPT !.stopped = TRUE] \in ChatType
    BY DEF ChatType
  <2> QED BY <1>6, <2>1, <2>2, Zenon DEF Stop, session
<1>7. CASE Answers
  <2>1. Idle \in ChatType
    BY TextTypes DEF ChatType, Idle
  <2> QED BY <1>7, <2>1, Zenon DEF Answers, session
<1>8. CASE CallsReader
  <2>1. [chat EXCEPT !.at = "reading"] \in ChatType
    BY DEF ChatType
  <2> QED BY <1>8, <2>1, Zenon DEF CallsReader, session
<1>9. ASSUME NEW ok \in BOOLEAN, CallsUpdate(ok)
      PROVE  made' \in 0 .. MaxEdits /\ asking' \in BOOLEAN /\ chat' \in ChatType
  <2>1. made < MaxEdits
    BY <1>9 DEF CallsUpdate, MakeEdit
  <2>2. With(chat.text, NewEdit, ok) \in Text
    BY <2>1, NewEditIsEdit, TextTypes DEF ChatType
  <2>3. [chat EXCEPT !.at = "updating", !.text = With(chat.text, NewEdit, ok)] \in ChatType
    BY <2>2 DEF ChatType
  <2> QED BY <1>9, <1>1, <2>3, Zenon DEF CallsUpdate
<1>10. CASE CallsTest
  <2>1. started + 1 \in 0 .. MaxRuns
    BY <1>10 DEF CallsTest, RunTest, TestTypeOK
  <2>2. [chat EXCEPT !.at = "testing", !.run = started + 1] \in ChatType
    BY <2>1 DEF ChatType
  <2> QED BY <1>10, <2>2, Zenon DEF CallsTest, session
<1>11. CASE Read \/ Propose \/ Tested
  BY <1>11, NextRoundTypes, Zenon DEF Read, Propose, Tested, session
<1>12. Save \/ Reload \/ TestButton \/ Apply \/ Dismiss
         \/ (\E i \in Requests : ServerStep(i) \/ Notify(i) \/ Load(i))
         \/ (\E i \in Runs : TestAnswered(i) \/ TestGivesUp(i)) \/ UNCHANGED vars
       => UNCHANGED <<made, asking, chat>>
  BY DEF Save, Reload, TestButton, Apply, Dismiss, ServerStep, Notify, Load, TestAnswered,
         TestGivesUp, session, vars
<1>13. CASE UNCHANGED <<made, asking, chat>>
  BY <1>13, Zenon
<1> QED
  BY <1>2, <1>3, <1>4, <1>5, <1>6, <1>7, <1>8, <1>9, <1>10, <1>11, <1>12, <1>13, Zenon
     DEF Next, User, Assistant, PageStep

\* Every variable has its type in every state of a session.
THEOREM TypeCorrect == Spec => []TypeOK
<1>1. Init => TypeOK
  BY InitTypes
<1>2. TypeOK /\ [Next]_vars => TypeOK'
  <2> SUFFICES ASSUME TypeOK, [Next]_vars PROVE TypeOK'
    OBVIOUS
  <2>1. ServerTypeOK'
    BY SortServer, ServerTypes, Zenon DEF TypeOK
  <2>2. StoreTypeOK'
    BY SortStore, StoreTypes, Zenon DEF TypeOK
  <2>3. TestTypeOK'
    BY SortTest, TestTypes, Zenon DEF TypeOK
  <2> QED
    BY <2>1, <2>2, <2>3, SessionTypes, Zenon DEF TypeOK
<1> QED
  BY <1>1, <1>2, PTL DEF Spec

-----------------------------------------------------------------------------
(* The contract on the page.                                               *)

LEMMA ViewsStaySynced ==
  ASSUME TypeOK, SyncedViews, [Next]_vars
  PROVE  SyncedViews'
<1> USE DEF SyncedViews
<1>1. CASE UNCHANGED contract
  BY <1>1 DEF contract
<1>2. ASSUME NEW e \in Edits, setValue(e) PROVE SyncedViews'
  BY <1>2 DEF setValue, Serialize, Parse
<1>3. ASSUME NEW text \in Text, setYaml(text) PROVE SyncedViews'
  BY <1>3, Zenon DEF setYaml
<1>4. ASSUME NEW text \in Text, loadYaml(text) PROVE SyncedViews'
  BY <1>4, Zenon DEF loadYaml
<1>5. CASE saveToFile
  BY <1>5, Zenon DEF saveToFile
<1>6. UNCHANGED store => UNCHANGED contract
  BY DEF store, contract
<1>7. proposal \in Text
  BY Zenon DEF TypeOK, StoreTypeOK
<1> QED
  BY SortStore, <1>1, <1>2, <1>3, <1>4, <1>5, <1>6, <1>7, Zenon DEF StoreSteps

\* Whatever reaches the contract on the page - an edit of the form or of the
\* text, a reload, a suggestion, a proposal - its form and its text stay one
\* contract, or the page says that the text does not parse.
THEOREM ViewsAreSynced == Spec => []SyncedViews
<1>1. Init => SyncedViews
  BY DEF Init, ServerInit, StoreInit, SyncedViews, Opened, Parse
<1>2. TypeOK /\ SyncedViews /\ [Next]_vars => SyncedViews'
  BY ViewsStaySynced
<1> QED
  BY <1>1, <1>2, TypeCorrect, PTL DEF Spec

\* An edit leaves the text only by a reload of the user's, by a proposal the
\* user applies, or when a suggestion lands in a text that does not parse.
THEOREM NothingIsLost == Spec => NothingTypedIsLost
<1> DEFINE Kept == yaml.edits \subseteq yaml'.edits
           Reloaded == \E i \in Requests : Under(i, "get") /\ ~ Pending(i)' /\ yaml' = request[i].text
           Applied == Covered /\ ~ Covered' /\ yaml' = proposal
           Overwritten == error /\ asking /\ ~ asking'
           Harmless == Kept \/ Reloaded \/ Applied \/ Overwritten
<1>1. TypeOK /\ SyncedViews /\ [Next]_vars => [Harmless]_vars
  <2> SUFFICES ASSUME TypeOK, SyncedViews, [Next]_vars PROVE Harmless
    BY Zenon
  <2>1. CASE UNCHANGED yaml
    BY <2>1
  <2>2. CASE EditForm
    BY <2>2 DEF EditForm, setValue, SyncedViews, Serialize, Parse
  <2>3. ASSUME NEW ok \in BOOLEAN, EditText(ok) PROVE Harmless
    BY <2>3 DEF EditText, setYaml, With, TypeOK, StoreTypeOK, Text
  <2>4. ASSUME NEW i \in Requests, Load(i) PROVE Harmless
    <3>1. request'[i] = None
      BY <2>4 DEF Load, Close, TypeOK, ServerTypeOK
    <3>2. ~ Pending(i)'
      BY <3>1 DEF Pending, None
    <3> QED BY <2>4, <3>2, Zenon DEF Load, loadYaml
  <2>5. CASE SuggestionLands
    BY <2>5 DEF SuggestionLands, setValue, SyncedViews, Serialize, Parse
  <2>6. CASE Apply
    BY <2>6, Zenon DEF Apply, setYaml, Covered
  <2>7. Save \/ Dismiss \/ Propose => UNCHANGED yaml
    BY Zenon DEF Save, saveToFile, Dismiss, Propose, contract
  <2>8. Reload \/ AskSuggestion \/ TestButton \/ SendMessage \/ Stop \/ SuggestionFails
         \/ Answers \/ CallsReader \/ (\E ok \in BOOLEAN : CallsUpdate(ok)) \/ CallsTest
         \/ Read \/ Tested \/ Elsewhere \/ (\E i \in Requests : ServerStep(i) \/ Notify(i))
         \/ (\E i \in Runs : TestAnswered(i) \/ TestGivesUp(i)) \/ UNCHANGED vars
       => UNCHANGED yaml
    BY DEF Reload, AskSuggestion, TestButton, SendMessage, Stop, SuggestionFails, Answers,
           CallsReader, CallsUpdate, CallsTest, Read, Tested, Elsewhere, ServerStep, Notify,
           TestAnswered, TestGivesUp, vars, store
  <2> HIDE DEF Harmless
  <2> QED
    BY <2>1, <2>2, <2>3, <2>4, <2>5, <2>6, <2>7, <2>8, Zenon DEF Next, User, Assistant, PageStep
<1> QED
  BY <1>1, TypeCorrect, ViewsAreSynced, PTL DEF Spec, NothingTypedIsLost

-----------------------------------------------------------------------------
(* The contract in the file.                                               *)

LEMMA InitSynced == Init => Synced
<1> SUFFICES ASSUME Init PROVE Synced
  OBVIOUS
<1>1. \A i \in Requests : ~ Pending(i)
  BY DEF Init, ServerInit, Pending, Requests
<1>2. Unserved = {}
  BY <1>1 DEF Unserved, OnItsWay, Under
<1>3. file = baseline /\ yaml = baseline /\ writing = 0 /\ alone = {}
  BY DEF Init, ServerInit, StoreInit
<1> QED
  BY <1>1, <1>2, <1>3 DEF Synced, CleanIsBaseline, WritesInTurn, BaselineIsAhead,
     AloneIsAlone, QuietReloadsAlone, Under

\* Nothing but a save or a reload touches the baseline.
BaselineKept == UNCHANGED baseline /\ (dirty' \/ UNCHANGED <<yaml, dirty>>)

\* The server sees only these steps of the page.
LinkSteps ==
  \/ UNCHANGED server /\ BaselineKept
  \/ Save
  \/ Reload
  \/ \E i \in Requests : ServerStep(i)
  \/ \E i \in Requests : Notify(i)
  \/ \E i \in Requests : Load(i)
  \/ \E e \in Edits, ok \in BOOLEAN : ForeignWrite(e, ok) /\ BaselineKept

LEMMA SortLinks == ASSUME TypeOK, [Next]_vars PROVE LinkSteps
<1>1. CASE EditForm \/ SuggestionLands
  BY <1>1, Zenon DEF EditForm, SuggestionLands, setValue, LinkSteps, BaselineKept
<1>2. CASE (\E ok \in BOOLEAN : EditText(ok)) \/ Apply
  BY <1>2, Zenon DEF EditText, Apply, setYaml, LinkSteps, BaselineKept
<1>3. CASE Elsewhere
  <2>1. BaselineKept
    BY <1>3 DEF Elsewhere, BaselineKept, store
  <2> QED BY <1>3, <2>1, NewEditIsEdit, Zenon DEF Elsewhere, MakeEdit, LinkSteps
<1>4. CASE UNCHANGED server /\ UNCHANGED contract
  <2>1. BaselineKept
    BY <1>4 DEF contract, BaselineKept
  <2> QED BY <1>4, <2>1, Zenon DEF LinkSteps
<1>5. AskSuggestion \/ TestButton \/ SendMessage \/ Stop \/ SuggestionFails \/ Answers
        \/ CallsReader \/ (\E ok \in BOOLEAN : CallsUpdate(ok)) \/ CallsTest \/ Read \/ Tested
        \/ (\E i \in Runs : TestAnswered(i) \/ TestGivesUp(i)) \/ UNCHANGED vars
      => UNCHANGED server /\ UNCHANGED contract
  BY DEF AskSuggestion, TestButton, SendMessage, Stop, SuggestionFails, Answers, CallsReader,
         CallsUpdate, CallsTest, Read, Tested, TestAnswered, TestGivesUp, vars, store, contract
<1>6. Dismiss \/ Propose => UNCHANGED server /\ UNCHANGED contract
  BY Zenon DEF Dismiss, Propose
<1> QED
  BY <1>1, <1>2, <1>3, <1>4, <1>5, <1>6, Zenon
     DEF Next, User, Assistant, PageStep, LinkSteps

\* How the saves on their way change when request i moves on.
LEMMA OthersStay ==
  ASSUME TypeOK, NEW i \in Requests, NEW r \in RequestType,
         request' = [request EXCEPT ![i] = r], UNCHANGED sent
  PROVE  /\ \A j \in Requests \ {i} : request'[j] = request[j] /\ Pending(j)' = Pending(j)
         /\ request'[i] = r
         /\ Unserved' \ {i} = Unserved \ {i}
         /\ i \in Unserved' <=> i <= sent /\ r.kind = "put" /\ r.at = "sent"
<1>1. \A j \in Requests \ {i} : request'[j] = request[j]
  BY DEF TypeOK, ServerTypeOK
<1>2. request'[i] = r
  BY DEF TypeOK, ServerTypeOK
<1>3. \A j \in Requests \ {i} : Pending(j)' = Pending(j)
  BY <1>1 DEF Pending
<1>4. Unserved' \ {i} = Unserved \ {i}
  BY <1>1 DEF Unserved, OnItsWay, Under, Pending
<1>5. i \in Unserved' <=> i <= sent /\ r.kind = "put" /\ r.at = "sent"
  BY <1>2 DEF Unserved, OnItsWay, Under, Pending
<1> QED
  BY <1>1, <1>2, <1>3, <1>4, <1>5, Zenon

\* A step that only the page sees.
LEMMA PageKeepsSynced == ASSUME Synced, UNCHANGED server, BaselineKept PROVE Synced'
<1> USE DEF Synced
<1>1. Unserved' = Unserved
  BY DEF server, Unserved, OnItsWay, Under, Pending
<1>2. CleanIsBaseline'
  BY DEF CleanIsBaseline, BaselineKept
<1>3. WritesInTurn'
  BY <1>1 DEF server, WritesInTurn
<1>4. BaselineIsAhead'
  BY <1>1 DEF server, BaselineIsAhead, BaselineKept
<1>5. AloneIsAlone'
  BY DEF server, AloneIsAlone, Under, Pending
<1>6. QuietReloadsAlone'
  BY DEF server, QuietReloadsAlone, Under, Pending
<1> QED
  BY <1>2, <1>3, <1>4, <1>5, <1>6, Zenon

\* What a new request leaves as it was.
LEMMA AfterSend ==
  ASSUME TypeOK, NEW kind \in {"put", "get"}, NEW text \in Text, Send(kind, text)
  PROVE  /\ sent + 1 \in Requests /\ sent' = sent + 1
         /\ request'[sent + 1] = [kind |-> kind, text |-> text, at |-> "sent"]
         /\ \A j \in Requests : j <= sent => request'[j] = request[j]
         /\ \A j \in Requests : Pending(j)' <=> Pending(j) \/ j = sent + 1
         /\ \A j \in Requests : Pending(j) => j <= sent
         /\ Unserved' = Unserved \cup (IF kind = "put" THEN {sent + 1} ELSE {})
         /\ alone' \subseteq {sent + 1}
         /\ alone' # {} => \A j \in Requests : ~ Pending(j)
         /\ quiet' => quiet
<1> USE DEF TypeOK, ServerTypeOK
<1>1. sent + 1 \in Requests /\ sent' = sent + 1
  BY DEF Send, Requests
<1>2. request'[sent + 1] = [kind |-> kind, text |-> text, at |-> "sent"]
  BY <1>1 DEF Send
<1>3. \A j \in Requests : j <= sent => request'[j] = request[j]
  BY <1>1 DEF Send, Requests
<1>4. \A j \in Requests : Pending(j) => j <= sent
  BY DEF Pending
<1>5. \A j \in Requests : Pending(j)' <=> Pending(j) \/ j = sent + 1
  BY <1>1, <1>2, <1>3 DEF Pending, Requests
<1>6. Unserved' = Unserved \cup (IF kind = "put" THEN {sent + 1} ELSE {})
  <2>1. \A j \in Requests : j <= sent => (j \in Unserved' <=> j \in Unserved)
    BY <1>3, <1>5, <1>1 DEF Unserved, OnItsWay, Under, Requests
  <2>2. \A j \in Requests : ~ j <= sent => j \notin Unserved
    BY <1>4 DEF Unserved, OnItsWay, Under
  <2>3. sent + 1 \in Unserved' <=> kind = "put"
    BY <1>1, <1>2, <1>5 DEF Unserved, OnItsWay, Under
  <2>4. \A j \in Requests : j \in Unserved' => j <= sent \/ j = sent + 1
    BY <1>4, <1>5 DEF Unserved, OnItsWay, Under
  <2>5. Unserved \subseteq Requests /\ Unserved' \subseteq Requests
    BY DEF Unserved, OnItsWay
  <2>6. ~ sent + 1 <= sent
    OBVIOUS
  <2> QED BY <1>1, <2>1, <2>2, <2>3, <2>4, <2>5, <2>6
<1>7. alone' \subseteq {sent + 1} /\ (alone' # {} => \A j \in Requests : ~ Pending(j))
  BY Zenon DEF Send, Settled
<1>8. quiet' => quiet
  BY Zenon DEF Send
<1> QED
  BY <1>1, <1>2, <1>3, <1>4, <1>5, <1>6, <1>7, <1>8, Zenon

LEMMA SaveKeepsSynced == ASSUME TypeOK, Synced, Save PROVE Synced'
<1> USE DEF Synced
<1>1. Send("put", yaml) /\ yaml \in Text
  BY Zenon DEF Save, TypeOK, StoreTypeOK
<1>0. /\ sent + 1 \in Requests /\ sent' = sent + 1 /\ sent \in Nat
      /\ request'[sent + 1] = [kind |-> "put", text |-> yaml, at |-> "sent"]
      /\ \A j \in Requests : j <= sent => request'[j] = request[j]
      /\ \A j \in Requests : Pending(j)' <=> Pending(j) \/ j = sent + 1
      /\ \A j \in Requests : Pending(j) => j <= sent
      /\ alone' \subseteq {sent + 1}
      /\ alone' # {} => \A j \in Requests : ~ Pending(j)
  BY <1>1, AfterSend DEF TypeOK, ServerTypeOK
<1>2. baseline' = yaml /\ yaml' = yaml
  BY Zenon DEF Save, saveToFile
<1>3. sent + 1 \in Unserved' /\ \A j \in Unserved' : j <= sent + 1
  BY <1>0 DEF Unserved, OnItsWay, Under, Requests
<1>4. \A j \in Unserved : j <= sent /\ j \in Requests
  BY <1>1, AfterSend DEF Unserved, OnItsWay, Under
<1>5. sent \in Nat /\ writing' = writing
  BY <1>1 DEF TypeOK, ServerTypeOK, Send
<1>6. Unserved' = Unserved \cup {sent + 1}
  BY <1>1, AfterSend
<1>7. CleanIsBaseline'
  BY <1>2, Zenon DEF CleanIsBaseline
<1>8. WritesInTurn'
  <2>1. CASE writing = 0
    BY <2>1, <1>5 DEF WritesInTurn
  <2>2. CASE writing # 0
    <3>1. writing \in Unserved /\ writing <= sent /\ writing \in Nat
      BY <2>2, <1>4 DEF WritesInTurn, Requests
    <3>2. quiet' => quiet
      BY <1>1, AfterSend, Zenon
    <3> QED BY <3>1, <3>2, <1>5, <1>6 DEF WritesInTurn
  <2> QED BY <2>1, <2>2
<1>9. BaselineIsAhead'
  <2>1. ASSUME NEW i \in Unserved', \A j \in Unserved' : j <= i PROVE request'[i].text = baseline'
    <3>1. i = sent + 1
      BY <2>1, <1>3, <1>5, <1>6, <1>4 DEF Requests
    <3> QED BY <3>1, <1>0, <1>2
  <2> QED BY <2>1, <1>3, Zenon DEF BaselineIsAhead
<1>10. AloneIsAlone'
  <2>1. ASSUME NEW i \in alone' PROVE i = sent' /\ \A j \in Requests : Pending(j)' => j = i
    BY <2>1, <1>0
  <2>2. ASSUME NEW i \in alone' PROVE request'[i].kind # "get"
    BY <2>2, <1>0
  <2> QED BY <2>1, <2>2, Zenon DEF AloneIsAlone, Under
<1>11. QuietReloadsAlone'
  <2>1. ASSUME quiet', NEW i \in Requests, Under(i, "get")' PROVE FALSE
    <3>1. i # sent + 1
      BY <2>1, <1>0 DEF Under
    <3>2. Pending(i) /\ request'[i] = request[i]
      BY <2>1, <3>1, <1>1, AfterSend DEF Under
    <3>3. request[i].kind = "put"
      BY <2>1, <3>2, <1>1, Zenon DEF Send
    <3> QED BY <3>2, <3>3, <2>1 DEF Under
  <2> QED BY <2>1, Zenon DEF QuietReloadsAlone
<1> QED
  BY <1>7, <1>8, <1>9, <1>10, <1>11, Zenon

LEMMA ReloadKeepsSynced == ASSUME TypeOK, Synced, Reload PROVE Synced'
<1> USE DEF Synced
<1>1. Send("get", Empty) /\ Empty \in Text
  BY TextTypes, Zenon DEF Reload
<1>0. /\ sent + 1 \in Requests /\ sent' = sent + 1
      /\ request'[sent + 1] = [kind |-> "get", text |-> Empty, at |-> "sent"]
      /\ \A j \in Requests : Pending(j)' <=> Pending(j) \/ j = sent + 1
      /\ alone' \subseteq {sent + 1}
      /\ alone' # {} => \A j \in Requests : ~ Pending(j)
  BY <1>1, AfterSend
<1>2. UNCHANGED <<yaml, baseline, dirty>>
  BY DEF Reload, store
<1>3. UNCHANGED <<file, writing>> /\ Unserved' = Unserved /\ (quiet' => quiet)
  <2>1. UNCHANGED <<file, writing>>
    BY <1>1, Zenon DEF Send
  <2>2. Unserved' = Unserved \cup {}
    BY <1>1, AfterSend
  <2> QED BY <1>1, <2>1, <2>2, AfterSend
<1>4. CleanIsBaseline'
  BY <1>2 DEF CleanIsBaseline
<1>5. WritesInTurn'
  BY <1>3 DEF WritesInTurn
<1>6. BaselineIsAhead'
  <2>1. \A i \in Unserved : request'[i] = request[i]
    BY <1>1, AfterSend DEF Unserved, OnItsWay, Under
  <2> QED BY <1>2, <1>3, <2>1 DEF BaselineIsAhead
<1>7. AloneIsAlone'
  <2>1. ASSUME NEW i \in alone' PROVE i = sent' /\ \A j \in Requests : Pending(j)' => j = i
    BY <2>1, <1>0
  <2>2. request'[sent + 1].at # "served"
    BY <1>0
  <2> QED BY <2>1, <2>2, <1>0, Zenon DEF AloneIsAlone
<1>8. QuietReloadsAlone'
  <2>1. ASSUME quiet', NEW i \in Requests, Under(i, "get")' PROVE i \in alone'
    <3>1. \A j \in Requests : ~ Pending(j)
      <4>1. ASSUME NEW j \in Requests, Pending(j) PROVE FALSE
        BY <2>1, <4>1, <1>1 DEF Send
      <4> QED BY <4>1
    <3>2. i = sent + 1
      BY <2>1, <3>1, <1>1, AfterSend DEF Under
    <3>3. alone' = {sent + 1}
      BY <1>1, <3>1, Zenon DEF Send, Settled
    <3> QED BY <3>2, <3>3
  <2> QED BY <2>1, Zenon DEF QuietReloadsAlone
<1> QED
  BY <1>4, <1>5, <1>6, <1>7, <1>8, Zenon

\* What the answer to a request leaves as it was.
LEMMA ServeKeepsSynced ==
  ASSUME TypeOK, Synced, NEW i \in Requests, ServerStep(i)
  PROVE  Synced'
<1> USE DEF Synced
<1>1. Serve(i) /\ UNCHANGED <<yaml, baseline, dirty>>
  BY DEF ServerStep, store
<1>2. CleanIsBaseline'
  BY <1>1 DEF CleanIsBaseline
<1>3. request[i] \in RequestType /\ i \in Nat /\ sent \in Nat /\ i # 0
  BY DEF TypeOK, ServerTypeOK, Requests
<1>4. CASE BeginWrite(i)
  <2>1. /\ writing = 0 /\ writing' = i /\ i \in Unserved
        /\ UNCHANGED <<sent, request, alone>>
        /\ quiet' = (quiet /\ \A j \in 1 .. i - 1 : request[j].at # "sent")
    BY <1>4, Zenon DEF BeginWrite, Unserved, OnItsWay
  <2>2. Unserved' = Unserved
    BY <2>1 DEF Unserved, OnItsWay, Under, Pending
  <2>3. WritesInTurn'
    <3>1. ASSUME quiet', NEW j \in Unserved, ~ i <= j PROVE FALSE
      <4>1. j \in 1 .. i - 1 /\ request[j].at = "sent"
        BY <3>1, <1>3 DEF Unserved, OnItsWay, Requests
      <4> QED BY <4>1, <3>1, <2>1
    <3> QED BY <2>1, <2>2, <3>1, Zenon DEF WritesInTurn
  <2>4. BaselineIsAhead'
    BY <2>1, <2>2, <1>1 DEF BaselineIsAhead
  <2>5. AloneIsAlone'
    <3>1. ASSUME NEW j \in alone, Under(j, "get") PROVE FALSE
      BY <3>1, <2>1 DEF AloneIsAlone, Unserved, OnItsWay, Under
    <3>2. \A j \in alone : ~ Under(j, "get")'
      BY <3>1, <2>1 DEF Under, Pending
    <3>3. \A j \in alone : j = sent /\ \A k \in Requests : Pending(k)' => k = j
      BY <2>1 DEF AloneIsAlone, Pending
    <3> QED BY <3>2, <3>3, <2>1 DEF AloneIsAlone
  <2>6. QuietReloadsAlone'
    BY <2>1 DEF QuietReloadsAlone, Under, Pending
  <2> QED BY <1>2, <2>3, <2>4, <2>5, <2>6, Zenon
<1>5. ASSUME NEW r \in RequestType, Pending(i),
             request' = [request EXCEPT ![i] = r], r.kind = request[i].kind, r.at # "sent",
             UNCHANGED <<sent, alone>>, quiet' => quiet
      PROVE  /\ Unserved' = Unserved \ {i}
             /\ \A j \in Requests : Pending(j)' => Pending(j)
             /\ \A j \in Requests \ {i} : request'[j] = request[j]
             /\ request'[i] = r
             /\ QuietReloadsAlone'
             /\ (r.kind = "get" /\ r.at = "served" => r.text = file') => AloneIsAlone'
  <2>1. /\ \A j \in Requests \ {i} : request'[j] = request[j] /\ Pending(j)' = Pending(j)
        /\ request'[i] = r
        /\ Unserved' \ {i} = Unserved \ {i}
        /\ i \in Unserved' <=> i <= sent /\ r.kind = "put" /\ r.at = "sent"
    BY <1>5, OthersStay
  <2>2. Unserved' = Unserved \ {i}
    BY <2>1, <1>5
  <2>3. \A j \in Requests : Pending(j)' => Pending(j)
    BY <2>1, <1>5, Zenon
  <2>4. \A j \in Requests, kind \in {"put", "get"} : Under(j, kind)' => Under(j, kind)
    BY <2>1, <2>3, <1>5 DEF Under
  <2>5. QuietReloadsAlone'
    BY <2>4, <1>5 DEF QuietReloadsAlone
  <2>6. ASSUME r.kind = "get" /\ r.at = "served" => r.text = file'
        PROVE  AloneIsAlone'
    <3>1. \A j \in alone' : j = sent' /\ \A k \in Requests : Pending(k)' => k = j
      BY <2>3, <1>5 DEF AloneIsAlone
    <3>2. ASSUME NEW j \in alone', Under(j, "get")', request'[j].at = "served"
          PROVE  request'[j].text = file'
      <4>1. Pending(j) /\ j \in Requests /\ j = i
        BY <3>1, <3>2, <2>3, <1>5 DEF AloneIsAlone, Under, TypeOK, ServerTypeOK
      <4> QED BY <4>1, <3>2, <2>1, <2>6 DEF Under
    <3> QED BY <3>1, <3>2, Zenon DEF AloneIsAlone
  <2> QED BY <2>1, <2>2, <2>3, <2>5, <2>6, Zenon
<1>6. ASSUME NEW stage \in {"served", "failed"}, Pending(i), At(i, stage),
             UNCHANGED <<sent, alone>>, quiet' => quiet,
             request[i].kind = "get" /\ stage = "served" => request[i].text = file'
      PROVE  /\ Unserved' = Unserved \ {i}
             /\ \A j \in Requests \ {i} : request'[j] = request[j]
             /\ QuietReloadsAlone' /\ AloneIsAlone'
  <2> DEFINE r == [request[i] EXCEPT !.at = stage]
  <2>1. r \in RequestType /\ r.kind = request[i].kind /\ r.text = request[i].text /\ r.at = stage
    BY <1>3 DEF RequestType
  <2>2. request' = [request EXCEPT ![i] = r]
    BY <1>6 DEF At
  <2> HIDE DEF r
  <2> QED BY <1>5, <1>6, <2>1, <2>2
<1>7. CASE EndWrite(i)
  <2>1. /\ writing = i /\ writing' = 0 /\ file' = request[i].text /\ At(i, "served")
        /\ UNCHANGED <<sent, quiet, alone>>
    BY <1>7, Zenon DEF EndWrite
  <2>2. i \in Unserved /\ Pending(i) /\ request[i].kind = "put"
    BY <2>1, <1>3 DEF WritesInTurn, Unserved, OnItsWay, Under
  <2>3. /\ Unserved' = Unserved \ {i}
        /\ \A j \in Requests \ {i} : request'[j] = request[j]
        /\ QuietReloadsAlone' /\ AloneIsAlone'
    BY <1>6, <2>1, <2>2
  <2>4. WritesInTurn'
    BY <2>1 DEF WritesInTurn
  <2>5. ASSUME quiet PROVE \A j \in Unserved : i <= j
    BY <2>5, <2>1, <1>3 DEF WritesInTurn
  <2>6. ASSUME quiet, Unserved' = {} PROVE file' = baseline
    <3>1. \A j \in Unserved : j <= i
      BY <2>6, <2>3, <1>3
    <3> QED BY <3>1, <2>6, <2>1, <2>2, Zenon DEF BaselineIsAhead
  <2>7. ASSUME quiet, NEW k \in Unserved', \A j \in Unserved' : j <= k
        PROVE  request'[k].text = baseline
    <3>1. k \in Unserved /\ k \in Requests \ {i}
      BY <2>3, <2>7 DEF Unserved, OnItsWay
    <3>2. \A j \in Unserved : j <= k
      BY <2>3, <2>5, <2>7, <3>1
    <3> QED BY <3>1, <3>2, <2>3, <2>7 DEF BaselineIsAhead
  <2>8. BaselineIsAhead'
    BY <2>1, <2>6, <2>7, <1>1 DEF BaselineIsAhead
  <2> QED BY <1>2, <2>3, <2>4, <2>8, Zenon
<1>8. CASE WriteBreaks(i)
  <2>1. /\ writing = i /\ writing' = 0 /\ At(i, "failed") /\ quiet' = FALSE
        /\ UNCHANGED <<file, sent, alone>>
    BY <1>8, Zenon DEF WriteBreaks
  <2>2. Pending(i)
    BY <2>1, <1>3 DEF WritesInTurn, Unserved, OnItsWay, Under
  <2>3. QuietReloadsAlone' /\ AloneIsAlone'
    BY <1>6, <2>1, <2>2
  <2>4. WritesInTurn' /\ BaselineIsAhead'
    BY <2>1 DEF WritesInTurn, BaselineIsAhead
  <2> QED BY <1>2, <2>3, <2>4, Zenon
<1>9. ASSUME Unserved' = Unserved \ {i}, \A j \in Requests \ {i} : request'[j] = request[j],
             UNCHANGED <<file, writing>>, quiet' => quiet /\ i \notin Unserved, writing # i
      PROVE  WritesInTurn' /\ BaselineIsAhead'
  <2>1. WritesInTurn'
    BY <1>9 DEF WritesInTurn
  <2>2. ASSUME quiet' PROVE Unserved' = Unserved /\ \A j \in Unserved : request'[j] = request[j]
    BY <1>9, <2>2 DEF Unserved, OnItsWay
  <2>3. BaselineIsAhead'
    BY <1>9, <1>1, <2>2 DEF BaselineIsAhead
  <2> QED BY <2>1, <2>3
<1>10. CASE ReadFile(i)
  <2> DEFINE r == [request[i] EXCEPT !.text = file, !.at = "served"]
  <2>1. /\ Pending(i) /\ request[i].kind = "get" /\ request[i].at = "sent"
        /\ request' = [request EXCEPT ![i].text = file, ![i].at = "served"]
        /\ UNCHANGED <<file, writing, sent, quiet, alone>>
    BY <1>10, Zenon DEF ReadFile, Under
  <2>2. request' = [request EXCEPT ![i] = r]
    BY <2>1 DEF TypeOK, ServerTypeOK
  <2>3. r \in RequestType /\ r.kind = "get" /\ r.text = file /\ r.at = "served"
    BY <1>3, <2>1 DEF RequestType, TypeOK, ServerTypeOK
  <2> HIDE DEF r
  <2>4. /\ Unserved' = Unserved \ {i}
        /\ \A j \in Requests \ {i} : request'[j] = request[j]
        /\ QuietReloadsAlone' /\ AloneIsAlone'
    BY <1>5, <2>1, <2>2, <2>3
  <2>5. i \notin Unserved /\ writing # i
    BY <2>1, <1>3 DEF Unserved, OnItsWay, Under, WritesInTurn
  <2> QED BY <1>2, <1>9, <2>1, <2>4, <2>5, Zenon
<1>11. CASE Refuse(i)
  <2>1. /\ Pending(i) /\ request[i].at = "sent" /\ writing # i /\ At(i, "failed")
        /\ quiet' = (quiet /\ request[i].kind = "get")
        /\ UNCHANGED <<file, writing, sent, alone>>
    BY <1>11, Zenon DEF Refuse
  <2>2. /\ Unserved' = Unserved \ {i}
        /\ \A j \in Requests \ {i} : request'[j] = request[j]
        /\ QuietReloadsAlone' /\ AloneIsAlone'
    BY <1>6, <2>1
  <2>3. quiet' => quiet /\ i \notin Unserved
    BY <2>1 DEF Unserved, OnItsWay, Under
  <2> QED BY <1>2, <1>9, <2>1, <2>2, <2>3, Zenon
<1>12. CASE LoseAnswer(i)
  <2>1. /\ Pending(i) /\ request[i].at = "served" /\ At(i, "failed")
        /\ UNCHANGED <<file, writing, sent, quiet, alone>>
    BY <1>12, Zenon DEF LoseAnswer
  <2>2. /\ Unserved' = Unserved \ {i}
        /\ \A j \in Requests \ {i} : request'[j] = request[j]
        /\ QuietReloadsAlone' /\ AloneIsAlone'
    BY <1>6, <2>1
  <2>3. i \notin Unserved /\ writing # i
    BY <2>1, <1>3 DEF Unserved, OnItsWay, WritesInTurn
  <2> QED BY <1>2, <1>9, <2>1, <2>2, <2>3, Zenon
<1> QED
  BY <1>1, <1>4, <1>7, <1>8, <1>10, <1>11, <1>12, Zenon DEF Serve

\* The page is done with an answer.
LEMMA AfterClose ==
  ASSUME TypeOK, Synced, NEW i \in Requests, Pending(i), Close(i),
         request[i].at # "sent", UNCHANGED alone
  PROVE  /\ Unserved' = Unserved
         /\ \A j \in Unserved : request'[j] = request[j]
         /\ \A j \in Requests : Pending(j)' <=> Pending(j) /\ j # i
         /\ \A j \in Requests, kind \in {"put", "get"} : Under(j, kind)' => Under(j, kind)
         /\ AloneIsAlone'
         /\ UNCHANGED <<file, writing, sent>>
<1>1. None \in RequestType /\ None.at = "done" /\ None.kind = "none"
  BY TextTypes DEF None, RequestType
<1>2. request' = [request EXCEPT ![i] = None] /\ UNCHANGED <<file, writing, sent>>
  BY Zenon DEF Close
<1>3. /\ \A j \in Requests \ {i} : request'[j] = request[j] /\ Pending(j)' = Pending(j)
      /\ request'[i] = None
      /\ Unserved' \ {i} = Unserved \ {i}
      /\ i \notin Unserved'
  BY <1>1, <1>2, OthersStay
<1>4. Unserved' = Unserved
  BY <1>3 DEF Unserved, OnItsWay
<1>5. ~ Pending(i)'
  BY <1>3, <1>1 DEF Pending
<1>6. \A j \in Requests : Pending(j)' <=> Pending(j) /\ j # i
  BY <1>3, <1>5
<1>7. \A j \in Requests, kind \in {"put", "get"} : Under(j, kind)' => Under(j, kind)
  BY <1>3, <1>6 DEF Under
<1>8. \A j \in Unserved : request'[j] = request[j]
  BY <1>3 DEF Unserved, OnItsWay
<1>9. AloneIsAlone'
  <2>1. \A j \in alone' : j = sent' /\ \A k \in Requests : Pending(k)' => k = j
    BY <1>2, <1>6 DEF Synced, AloneIsAlone
  <2>2. ASSUME NEW j \in alone', Under(j, "get")', request'[j].at = "served"
        PROVE  request'[j].text = file'
    <3>1. j \in Requests /\ Pending(j)'
      BY <2>2 DEF TypeOK, ServerTypeOK, Under
    <3>2. j # i /\ request'[j] = request[j] /\ Under(j, "get")
      BY <3>1, <2>2, <1>6, <1>3, <1>7
    <3> QED BY <3>2, <2>2, <1>2 DEF Synced, AloneIsAlone
  <2> QED BY <2>1, <2>2, Zenon DEF AloneIsAlone
<1> QED
  BY <1>2, <1>4, <1>6, <1>7, <1>8, <1>9, Zenon

LEMMA NotifyKeepsSynced ==
  ASSUME TypeOK, Synced, NEW i \in Requests, Notify(i)
  PROVE  Synced'
<1>1. Pending(i) /\ Close(i) /\ request[i].at # "sent" /\ UNCHANGED <<quiet, alone>>
  BY DEF Notify
<1>2. UNCHANGED <<yaml, baseline, dirty>>
  BY DEF Notify, store
<1>3. /\ Unserved' = Unserved
      /\ \A j \in Unserved : request'[j] = request[j]
      /\ \A j \in Requests, kind \in {"put", "get"} : Under(j, kind)' => Under(j, kind)
      /\ AloneIsAlone'
      /\ UNCHANGED <<file, writing, sent>>
  BY <1>1, AfterClose
<1> USE DEF Synced
<1>4. CleanIsBaseline'
  BY <1>2 DEF CleanIsBaseline
<1>5. WritesInTurn'
  BY <1>1, <1>3 DEF WritesInTurn
<1>6. BaselineIsAhead'
  BY <1>1, <1>2, <1>3 DEF BaselineIsAhead
<1>7. QuietReloadsAlone'
  BY <1>1, <1>3 DEF QuietReloadsAlone
<1> QED
  BY <1>3, <1>4, <1>5, <1>6, <1>7, Zenon

LEMMA LoadKeepsSynced ==
  ASSUME TypeOK, Synced, NEW i \in Requests, Load(i)
  PROVE  Synced'
<1>1. /\ Under(i, "get") /\ request[i].at = "served" /\ Pending(i) /\ Close(i)
      /\ UNCHANGED alone /\ quiet' = (quiet \/ i \in alone)
  BY Zenon DEF Load, Under
<1>2. yaml' = request[i].text /\ baseline' = request[i].text
  BY Zenon DEF Load, loadYaml
<1>3. /\ Unserved' = Unserved
      /\ \A j \in Requests : Pending(j)' <=> Pending(j) /\ j # i
      /\ AloneIsAlone'
      /\ UNCHANGED <<file, writing, sent>>
  BY <1>1, AfterClose
<1> USE DEF Synced
<1>4. quiet' => i \in alone
  BY <1>1 DEF QuietReloadsAlone
<1>5. quiet' => request[i].text = file /\ \A j \in Requests : ~ Pending(j)'
  BY <1>1, <1>3, <1>4 DEF AloneIsAlone
<1>6. quiet' => Unserved = {}
  BY <1>3, <1>5 DEF Unserved, OnItsWay, Under
<1>7. CleanIsBaseline'
  BY <1>2 DEF CleanIsBaseline
<1>8. WritesInTurn'
  BY <1>3, <1>6 DEF WritesInTurn
<1>9. BaselineIsAhead'
  BY <1>2, <1>3, <1>5, <1>6 DEF BaselineIsAhead
<1>10. QuietReloadsAlone'
  BY <1>5 DEF QuietReloadsAlone, Under
<1> QED
  BY <1>3, <1>7, <1>8, <1>9, <1>10, Zenon

LEMMA ForeignKeepsSynced ==
  ASSUME Synced, NEW e \in Edits, NEW ok \in BOOLEAN, ForeignWrite(e, ok), BaselineKept
  PROVE  Synced'
<1> USE DEF Synced
<1>1. writing = 0 /\ quiet' = FALSE /\ alone' = {} /\ UNCHANGED writing
  BY Zenon DEF ForeignWrite
<1>2. CleanIsBaseline'
  BY DEF CleanIsBaseline, BaselineKept
<1> QED
  BY <1>1, <1>2 DEF WritesInTurn, BaselineIsAhead, AloneIsAlone, QuietReloadsAlone

LEMMA SyncedIsKept == ASSUME TypeOK, Synced, [Next]_vars PROVE Synced'
  BY SortLinks, PageKeepsSynced, SaveKeepsSynced, ReloadKeepsSynced, ServeKeepsSynced,
     NotifyKeepsSynced, LoadKeepsSynced, ForeignKeepsSynced, Zenon DEF LinkSteps

\* A page without unsaved changes shows what the file holds, or what the last save
\* on its way will leave in it, unless somebody else wrote the file, a save failed
\* or requests passed each other.
THEOREM CleanPageIsSaved == Spec => []CleanIsSaved
<1>1. Init => Synced
  BY InitSynced
<1>2. TypeOK /\ Synced /\ [Next]_vars => Synced'
  BY SyncedIsKept
<1>3. Synced => CleanIsSaved
  <2> SUFFICES ASSUME Synced, quiet, ~ dirty
               PROVE  \/ file = yaml /\ \A i \in Requests : ~ OnItsWay(i)
                      \/ \E i \in Requests : /\ OnItsWay(i) /\ request[i].text = yaml
                                            /\ \A j \in Requests : OnItsWay(j) => j <= i
    BY Zenon DEF CleanIsSaved
  <2>1. CASE Unserved = {}
    BY <2>1 DEF Unserved, OnItsWay, Synced, BaselineIsAhead, CleanIsBaseline
  <2>2. CASE Unserved # {}
    <3>1. MaxRequests \in Nat /\ Unserved \in SUBSET (0 .. MaxRequests)
      BY ServerAssumption DEF Unserved, OnItsWay, Requests
    <3>2. PICK i \in Unserved : \A j \in Unserved : j <= i
      BY <2>2, <3>1, MaxOfInterval
    <3>3. request[i].text = yaml
      BY <3>2 DEF Synced, BaselineIsAhead, CleanIsBaseline
    <3> QED BY <3>2, <3>3 DEF Unserved, OnItsWay
  <2> QED BY <2>1, <2>2
<1> QED
  BY <1>1, <1>2, <1>3, TypeCorrect, PTL DEF Spec

-----------------------------------------------------------------------------
(* The test runs.                                                          *)

LEMMA AbortIsLocal ==
  ASSUME TestTypeOK, NEW i \in 0 .. MaxRuns, NEW why \in {"cancelled", "timedOut"}
  PROVE  \A j \in Runs :
           /\ Aborted(run, i, why)[j].before = run[j].before
           /\ Aborted(run, i, why)[j].at = "settled" <=> run[j].at = "settled"
           /\ Aborted(run, i, why)[j].at = "waiting" => run[j].at = "waiting" /\ j # i
  BY DEF TestTypeOK, RunType, Aborted

LEMMA OneRunIsKept == ASSUME TestTypeOK, OneRunAtATime, TestSteps PROVE OneRunAtATime'
<1>1. CASE UNCHANGED test
  BY <1>1 DEF test, OneRunAtATime
<1>2. CASE RunTest
  <2>1. started + 1 \in Runs
    BY <1>2 DEF RunTest, TestTypeOK, Runs
  <2>2. /\ current' = started + 1 /\ running' = TRUE
        /\ run' = [Aborted(run, current, "cancelled") EXCEPT
                     ![started + 1] = [at |-> "waiting", before |-> results]]
    BY <1>2, Zenon DEF RunTest
  <2>3. \A j \in Runs \ {started + 1} : run'[j] = Aborted(run, current, "cancelled")[j]
    BY <2>2 DEF Aborted
  <2>4. run'[started + 1].at = "waiting"
    BY <2>1, <2>2 DEF Aborted
  <2>5. \A j \in Runs \ {started + 1} : run'[j].at # "waiting"
    BY <2>3, AbortIsLocal DEF TestTypeOK, OneRunAtATime
  <2> QED BY <2>1, <2>2, <2>4, <2>5 DEF OneRunAtATime, Runs
<1>3. CASE CancelTest
  <2>1. \A j \in Runs : /\ run'[j].at = "settled" <=> run[j].at = "settled"
                        /\ run'[j].at = "waiting" => run[j].at = "waiting"
    BY <1>3, AbortIsLocal DEF CancelTest, TestTypeOK
  <2>2. current = 0 \/ current \in Runs
    BY DEF TestTypeOK, Runs
  <2>3. running' <=> current' # 0
    BY <1>3, Zenon DEF CancelTest
  <2>0. current' = current
    BY <1>3, Zenon DEF CancelTest
  <2>4. (\A i \in Runs : run[i].at = "waiting" => i = current)
        /\ (current # 0 => run[current].at # "settled")
    BY Zenon DEF OneRunAtATime
  <2>5. \A i \in Runs : run'[i].at = "waiting" => i = current'
    BY <2>0, <2>1, <2>4
  <2>6. current' # 0 => run'[current'].at # "settled"
    BY <2>0, <2>1, <2>2, <2>4
  <2> QED BY <2>3, <2>5, <2>6, Zenon DEF OneRunAtATime
<1>4. CASE clearTestResults
  BY <1>4 DEF clearTestResults, OneRunAtATime
<1>5. ASSUME NEW i \in Runs, TimeOut(i) PROVE OneRunAtATime'
  BY <1>5, AbortIsLocal DEF TimeOut, TestTypeOK, OneRunAtATime, Runs
<1>6. ASSUME NEW i \in Runs, NEW shown \in 0 .. MaxRuns, Conclude(i, shown) PROVE OneRunAtATime'
  BY <1>6 DEF Conclude, Unstarted, TestTypeOK, OneRunAtATime, Runs
<1>7. ASSUME NEW i \in Runs PROVE i \in 0 .. MaxRuns /\ run[i].before \in 0 .. MaxRuns
  BY DEF Runs, TestTypeOK, RunType
<1> QED
  BY <1>1, <1>2, <1>3, <1>4, <1>5, <1>6, <1>7, Zenon DEF TestSteps, Answered, TimedOut, Cancelled

\* The run that may show its outcome is the only one that waits for the
\* server, and the page says so exactly while there is one.
THEOREM OneTestAtATime == Spec => []OneRunAtATime
<1>1. Init => OneRunAtATime
  BY DEF Init, TestInit, OneRunAtATime, Unstarted
<1>2. TypeOK /\ OneRunAtATime /\ [Next]_vars => OneRunAtATime'
  BY SortTest, OneRunIsKept, Zenon DEF TypeOK
<1> QED
  BY <1>1, <1>2, TypeCorrect, PTL DEF Spec

LEMMA OrderIsKept ==
  ASSUME TestTypeOK, ResultsInOrder, TestSteps
  PROVE  ResultsInOrder' /\ (results # 0 /\ results' # 0 => results <= results')
<1> DEFINE Ordered == ResultsInOrder' /\ (results # 0 /\ results' # 0 => results <= results')
<1> USE DEF TestTypeOK, ResultsInOrder, Runs
<1>1. CASE UNCHANGED test
  BY <1>1 DEF test
<1>2. CASE RunTest
  <2>1. started + 1 \in Runs /\ started' = started + 1 /\ current' = started + 1 /\ results' = results
    BY <1>2 DEF RunTest
  <2>2. run'[started + 1].before = results
    BY <1>2, <2>1 DEF RunTest, Aborted
  <2> QED BY <2>1, <2>2
<1>3. CASE CancelTest
  BY <1>3, AbortIsLocal DEF CancelTest
<1>4. CASE clearTestResults
  BY <1>4 DEF clearTestResults
<1>5. ASSUME NEW i \in Runs, TimeOut(i) PROVE Ordered
  BY <1>5, AbortIsLocal DEF TimeOut
<1>6. ASSUME NEW i \in Runs, NEW shown \in 0 .. MaxRuns, Conclude(i, shown), i = current => results <= shown /\ shown <= started
      PROVE Ordered
  BY <1>6 DEF Conclude, Unstarted
<1>7. ASSUME NEW i \in Runs
      PROVE  /\ i \in 0 .. MaxRuns /\ run[i].before \in 0 .. MaxRuns
             /\ i = current => results <= i /\ i <= started
                             /\ results <= run[i].before /\ run[i].before <= started
  BY DEF RunType
<1>8. ASSUME NEW i \in Runs, TimedOut(i) \/ Answered(i) PROVE Ordered
  BY <1>6, <1>7, <1>8, Zenon DEF TimedOut, Answered
<1>9. ASSUME NEW i \in Runs, Cancelled(i) PROVE Ordered
  BY <1>6, <1>7, <1>9, Zenon DEF Cancelled
<1> QED
  BY <1>1, <1>2, <1>3, <1>4, <1>5, <1>8, <1>9, Zenon DEF TestSteps

\* The outcome of a run never replaces that of a later one.
THEOREM ResultsAdvance == Spec => ResultsNeverGoBack
<1>1. Init => ResultsInOrder
  BY DEF Init, TestInit, ResultsInOrder
<1>2. /\ TypeOK /\ ResultsInOrder /\ [Next]_vars => ResultsInOrder'
      /\ TypeOK /\ ResultsInOrder /\ [Next]_vars
           => [results # 0 /\ results' # 0 => results <= results']_vars
  BY SortTest, OrderIsKept, Zenon DEF TypeOK
<1> QED
  BY <1>1, <1>2, TypeCorrect, PTL DEF Spec, ResultsNeverGoBack

-----------------------------------------------------------------------------
(* What is under way goes on.                                              *)

\* How far a request is.
Way(i) ==
  CASE request[i].at = "sent" -> IF writing = i THEN 1 ELSE 0
    [] request[i].at = "served" -> 2
    [] request[i].at = "failed" -> 3
    [] request[i].at = "done" -> 4

\* How far a test run is.
Ending(i) ==
  CASE run[i].at = "waiting" -> 0
    [] run[i].at \in {"cancelled", "timedOut"} -> 1
    [] run[i].at = "settled" -> 2

RequestsGoOn ==
  \A i \in Requests :
    /\ i <= sent => Way(i) <= Way(i)'
    /\ ServerStep(i) \/ PageStep(i) => Way(i) < Way(i)'

RunsGoOn ==
  \A i \in Runs :
    /\ i <= started => Ending(i) <= Ending(i)'
    /\ TestAnswered(i) \/ TestGivesUp(i) => Ending(i) < Ending(i)'

ChatGoesOn ==
  /\ chat.at # "idle" /\ chat'.at # "idle" =>
       \/ chat.round < chat'.round
       \/ chat.round = chat'.round /\ chat.at \in {"thinking", chat'.at}
  /\ Assistant =>
       \/ chat'.at = "idle"
       \/ chat.round < chat'.round
       \/ chat.round = chat'.round /\ chat.at = "thinking" /\ chat'.at # "thinking"

\* A request that is neither answered nor written for is as far as its record
\* says.
LEMMA WayIsKept ==
  ASSUME TypeOK, NEW j \in Requests, request'[j] = request[j],
         writing' = j <=> writing = j
  PROVE  Way(j)' = Way(j)
<1>1. writing' = j <=> writing = j
  OBVIOUS
<1> QED BY <1>1 DEF Way

LEMMA ServeGoesOn ==
  ASSUME TypeOK, WritesInTurn, NEW i \in Requests, Serve(i)
  PROVE  Way(i) < Way(i)' /\ \A j \in Requests : Way(j) <= Way(j)'
<1>1. /\ request \in [Requests -> RequestType] /\ Requests \subseteq Nat \ {0}
      /\ \A j \in Requests : request[j].at \in {"sent", "served", "failed", "done"}
  BY DEF TypeOK, ServerTypeOK, RequestType, Requests
<1>2. writing = i => request[i].at = "sent"
  BY <1>1 DEF WritesInTurn, Unserved, OnItsWay
<1>3. \A j \in Requests \ {i} :
        request'[j] = request[j] /\ (writing' = j <=> writing = j)
  BY <1>1 DEF Serve, BeginWrite, EndWrite, WriteBreaks, ReadFile, Refuse, LoseAnswer, At
<1>4. Way(i) < Way(i)'
  <2>1. CASE BeginWrite(i)
    BY <1>1, <2>1 DEF BeginWrite, Way
  <2>2. CASE EndWrite(i) \/ WriteBreaks(i)
    <3>1. writing = i /\ request[i].at = "sent" /\ request'[i].at \in {"served", "failed"}
      BY <1>1, <1>2, <2>2 DEF EndWrite, WriteBreaks, At, RequestType
    <3> QED BY <3>1 DEF Way
  <2>3. CASE ReadFile(i)
    BY <1>1, <2>3 DEF ReadFile, Way
  <2>4. CASE Refuse(i)
    BY <1>1, <2>4 DEF Refuse, At, Way
  <2>5. CASE LoseAnswer(i)
    BY <1>1, <2>5 DEF LoseAnswer, At, Way
  <2> QED BY <2>1, <2>2, <2>3, <2>4, <2>5 DEF Serve
<1>5. \A j \in Requests : Way(j) \in 0 .. 4 /\ Way(i)' \in 0 .. 4
  <2>1. request'[i].at \in {"sent", "served", "failed", "done"}
    <3>1. CASE BeginWrite(i)
      BY <1>1, <3>1 DEF BeginWrite
    <3>2. CASE \E stage \in {"served", "failed"} : At(i, stage)
      BY <1>1, <3>2 DEF At, RequestType
    <3>3. CASE ReadFile(i)
      BY <1>1, <3>3 DEF ReadFile, RequestType
    <3> QED BY <3>1, <3>2, <3>3 DEF Serve, EndWrite, WriteBreaks, Refuse, LoseAnswer
  <2> QED BY <1>1, <2>1 DEF Way
<1>6. \A j \in Requests \ {i} : Way(j)' = Way(j)
  BY <1>3, WayIsKept
<1> QED BY <1>4, <1>5, <1>6

LEMMA CloseGoesOn ==
  ASSUME TypeOK, NEW i \in Requests, Close(i)
  PROVE  /\ Pending(i) => Way(i) < Way(i)'
         /\ \A j \in Requests : Way(j) <= Way(j)'
<1>1. /\ request \in [Requests -> RequestType]
      /\ \A j \in Requests : request[j].at \in {"sent", "served", "failed", "done"}
  BY DEF TypeOK, ServerTypeOK, RequestType
<1>2. \A j \in Requests \ {i} : request'[j] = request[j]
  BY <1>1 DEF Close
<1>3. writing' = writing /\ request'[i].at = "done"
  BY <1>1 DEF Close, None
<1>4. Way(i)' = 4
  BY <1>3 DEF Way
<1>5. \A j \in Requests : Way(j) \in 0 .. 4
  BY <1>1 DEF Way
<1>6. Pending(i) => Way(i) # 4
  BY <1>1 DEF Pending, Way
<1>7. \A j \in Requests \ {i} : Way(j)' = Way(j)
  BY <1>2, <1>3, WayIsKept
<1> QED BY <1>4, <1>5, <1>6, <1>7

LEMMA RequestsGoOnStep == ASSUME TypeOK, Synced, [Next]_vars PROVE RequestsGoOn
<1>1. ASSUME NEW i \in Requests PROVE Way(i) \in 0 .. 4
  <2>1. request[i].at \in {"sent", "served", "failed", "done"}
    BY DEF TypeOK, ServerTypeOK, RequestType
  <2> QED BY <2>1 DEF Way
<1>2. ASSUME NEW i \in Requests, ServerStep(i) PROVE Way(i) < Way(i)'
  BY <1>2, ServeGoesOn DEF ServerStep, Synced
<1>3. ASSUME NEW i \in Requests, PageStep(i) PROVE Way(i) < Way(i)'
  <2>1. Pending(i) /\ Close(i)
    BY <1>3, Zenon DEF PageStep, Notify, Load, Under
  <2> QED BY <2>1, CloseGoesOn
<1>4. ASSUME NEW i \in Requests, i <= sent PROVE Way(i) <= Way(i)'
  <2>1. CASE \E j \in Requests : Serve(j)
    BY <2>1, ServeGoesOn DEF Synced
  <2>2. CASE \E j \in Requests : Close(j)
    BY <2>2, CloseGoesOn
  <2>3. CASE request'[i] = request[i] /\ writing' = writing
    BY <1>1, <2>3, WayIsKept
  <2>4. \A kind, text : Send(kind, text) => request'[i] = request[i] /\ writing' = writing
    BY <1>4 DEF Send, TypeOK, ServerTypeOK, Requests
  <2>5. \A e, ok : ForeignWrite(e, ok) => request'[i] = request[i] /\ writing' = writing
    BY DEF ForeignWrite
  <2>6. UNCHANGED server => request'[i] = request[i] /\ writing' = writing
    BY DEF server
  <2> QED BY <2>1, <2>2, <2>3, <2>4, <2>5, <2>6, SortServer, Zenon DEF ServerSteps
<1> QED BY <1>2, <1>3, <1>4, Zenon DEF RequestsGoOn

LEMMA AbortGoesOn ==
  ASSUME TestTypeOK, NEW i \in 0 .. MaxRuns, NEW why \in {"cancelled", "timedOut"},
         NEW j \in Runs, run'[j] = Aborted(run, i, why)[j]
  PROVE  Ending(j) <= Ending(j)' /\ (j = i /\ run[j].at = "waiting" => Ending(j) < Ending(j)')
<1>1. run[j] \in RunType /\ run[j].at \in {"waiting", "cancelled", "timedOut", "settled"}
  BY DEF TestTypeOK, RunType
<1>2. run'[j] = IF j = i /\ run[j].at = "waiting" THEN [run[j] EXCEPT !.at = why] ELSE run[j]
  BY DEF Aborted
<1>3. CASE j = i /\ run[j].at = "waiting"
  BY <1>1, <1>2, <1>3 DEF Ending, RunType
<1>4. CASE ~ (j = i /\ run[j].at = "waiting")
  BY <1>1, <1>2, <1>4 DEF Ending
<1> QED BY <1>3, <1>4

LEMMA ConcludeGoesOn ==
  ASSUME TestTypeOK, NEW i \in Runs, NEW shown, Conclude(i, shown)
  PROVE  /\ run[i].at # "settled" => Ending(i) < Ending(i)'
         /\ \A j \in Runs : Ending(j) <= Ending(j)'
<1>1. \A j \in Runs : run[j].at \in {"waiting", "cancelled", "timedOut", "settled"}
  BY DEF TestTypeOK, RunType
<1>2. run'[i].at = "settled" /\ \A j \in Runs \ {i} : run'[j] = run[j]
  BY DEF Conclude, TestTypeOK, Unstarted
<1> QED BY <1>1, <1>2 DEF Ending

LEMMA RunsGoOnStep == ASSUME TestTypeOK, [Next]_vars PROVE RunsGoOn
<1>1. /\ current \in 0 .. MaxRuns
      /\ \A i \in Runs : /\ i \in 0 .. MaxRuns
                         /\ run[i].at \in {"waiting", "cancelled", "timedOut", "settled"}
  BY DEF TestTypeOK, RunType, Runs
<1>2. ASSUME NEW i \in Runs, TimeOut(i)
      PROVE  Ending(i) < Ending(i)' /\ \A j \in Runs : Ending(j) <= Ending(j)'
  BY <1>1, <1>2, AbortGoesOn DEF TimeOut
<1>3. ASSUME NEW i \in Runs, Answered(i) \/ TimedOut(i) \/ Cancelled(i)
      PROVE  Ending(i) < Ending(i)' /\ \A j \in Runs : Ending(j) <= Ending(j)'
  <2>1. run[i].at # "settled" /\ \E shown : Conclude(i, shown)
    BY <1>3 DEF Answered, TimedOut, Cancelled
  <2> QED BY <2>1, ConcludeGoesOn
<1>4. ASSUME NEW i \in Runs, i <= started PROVE Ending(i) <= Ending(i)'
  <2>1. CASE RunTest
    <3>1. run'[i] = Aborted(run, current, "cancelled")[i]
      <4>1. i # started + 1
        BY <1>4 DEF TestTypeOK, Runs
      <4>2. run' = [Aborted(run, current, "cancelled") EXCEPT
                      ![started + 1] = [at |-> "waiting", before |-> results]]
        BY <2>1, Zenon DEF RunTest
      <4> QED BY <4>1, <4>2 DEF Aborted
    <3> QED BY <1>1, <3>1, AbortGoesOn
  <2>2. CASE CancelTest
    BY <1>1, <2>2, AbortGoesOn DEF CancelTest
  <2>3. CASE run' = run
    BY <1>1, <2>3 DEF Ending
  <2> QED
    BY <1>2, <1>3, <2>1, <2>2, <2>3, SortTest, Zenon DEF TestSteps, clearTestResults, test
<1> QED
  BY <1>2, <1>3, <1>4, Zenon DEF RunsGoOn, TestAnswered, TestGivesUp

LEMMA NextRoundGoesOn ==
  ASSUME TypeOK, chat.at # "idle", chat' = NextRound
  PROVE  chat'.at = "idle" \/ chat.round < chat'.round
<1>1. chat \in ChatType
  BY DEF TypeOK
<1> QED BY <1>1 DEF NextRound, Idle, ChatType

LEMMA ChatGoesOnStep == ASSUME TypeOK, [Next]_vars PROVE ChatGoesOn
<1>0. chat \in ChatType
  BY DEF TypeOK
<1>1. CASE Answers
  BY <1>1 DEF Answers, Idle, ChatGoesOn
<1>2. CASE CallsReader \/ CallsTest \/ \E ok \in BOOLEAN : CallsUpdate(ok)
  BY <1>0, <1>2 DEF CallsReader, CallsTest, CallsUpdate, ChatType, ChatGoesOn
<1>3. CASE Read \/ Propose \/ Tested
  <2>1. chat.at # "idle" /\ chat' = NextRound
    BY <1>3 DEF Read, Propose, Tested
  <2> QED BY <2>1, NextRoundGoesOn DEF ChatGoesOn
<1>4. CASE ~ Assistant
  <2>1. CASE UNCHANGED chat
    BY <1>4, <2>1 DEF ChatGoesOn
  <2>2. CASE SendMessage
    BY <1>4, <2>2 DEF SendMessage, ChatGoesOn
  <2>3. CASE Stop
    BY <1>0, <1>4, <2>3 DEF Stop, Idle, ChatType, ChatGoesOn
  <2>4. EditForm \/ (\E ok \in BOOLEAN : EditText(ok)) \/ Save \/ Reload \/ AskSuggestion
          \/ TestButton \/ Apply \/ Dismiss \/ SuggestionLands \/ SuggestionFails \/ Elsewhere
          \/ (\E i \in Requests : ServerStep(i) \/ Notify(i) \/ Load(i))
          \/ (\E i \in Runs : TestAnswered(i) \/ TestGivesUp(i)) \/ UNCHANGED vars
        => UNCHANGED chat
    BY DEF EditForm, EditText, Save, Reload, AskSuggestion, TestButton, Apply, Dismiss,
           SuggestionLands, SuggestionFails, Elsewhere, ServerStep, Notify, Load,
           TestAnswered, TestGivesUp, session, vars
  <2> QED
    BY <1>4, <2>1, <2>2, <2>3, <2>4, Zenon DEF Next, User, PageStep
<1> QED
  BY <1>1, <1>2, <1>3, <1>4, Zenon DEF Assistant

\* Nothing that is under way turns back: no step undoes what the server, the page
\* or the timer of a test did, each of their own steps takes a request or a run
\* further, and each step of the assistant ends the message, begins a later round
\* or goes from the answer to its tool (command_edit.py, create_app;
\* datacontract-editor.es.js, runTest and the chat loop).  With the bounds that
\* TypeOK puts on rounds and stages nothing can go on for ever.
THEOREM SessionGoesOn == Spec => [][RequestsGoOn /\ RunsGoOn /\ ChatGoesOn]_vars
<1>1. Init => Synced
  BY InitSynced
<1>2. TypeOK /\ Synced /\ [Next]_vars => Synced'
  BY SyncedIsKept
<1>3. TypeOK /\ Synced /\ [Next]_vars => [RequestsGoOn /\ RunsGoOn /\ ChatGoesOn]_vars
  BY RequestsGoOnStep, RunsGoOnStep, ChatGoesOnStep, Zenon DEF TypeOK
<1> QED
  BY <1>1, <1>2, <1>3, TypeCorrect, PTL DEF Spec
=============================================================================
