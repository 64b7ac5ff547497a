--------------------------- MODULE EditorSession ---------------------------
(***************************************************************************)
(* A session of `datacontract edit`: the user, the page with its store,    *)
(* its test runs and its assistant, the local server with the file, and    *)
(* whatever else writes that file.  The page is one thread: every handler  *)
(* is a step, and whatever it awaits may come back after any other step.   *)
(* The dialog of a proposal covers the page, so while it is open the user  *)
(* can only answer it; what is under way goes on behind it.                *)
(*                                                                         *)
(* An answer of the assistant calls one tool or none, and a proposal adds  *)
(* one edit to the contract the assistant was given.                       *)
(***************************************************************************)
EXTENDS EditServer, EditorStore, EditorTest

CONSTANTS
  MaxToolRounds,   \* maxToolRounds (5): answers to one message
  MaxCalls         \* bound: requests and test runs together

ASSUME SessionAssumption == MaxToolRounds \in Nat \ {0} /\ MaxCalls \in Nat

VARIABLES
  made,     \* edits 1 .. made were made, in this order
  asking,   \* a field waits for the suggestion it asked the assistant for
  chat      \* the message the assistant is working on

session == <<made, asking>>
vars == <<server, store, test, session, chat>>

\* The chat at rest: no text was given to the assistant, no test runs for it.
Idle == [at |-> "idle", round |-> 0, text |-> NoProposal, run |-> 0, stopped |-> FALSE]

Init ==
  /\ ServerInit
  /\ StoreInit(file)
  /\ TestInit
  /\ made = 0
  /\ asking = FALSE
  /\ chat = Idle

Covered == proposal # NoProposal

NewEdit == made + 1

MakeEdit == made < MaxEdits /\ made' = NewEdit

MayCall == sent + started < MaxCalls

-----------------------------------------------------------------------------
(* The user edits the contract.                                            *)

BrokenEditForm ==
  /\ ~ Covered
  /\ MakeEdit
  /\ setValue(NewEdit)
  /\ UNCHANGED <<server, proposal, test, asking, chat>>

\* The form, the diagram and the guided dialogs are hidden while the text
\* does not parse.
EditForm ==
  /\ ~ Covered /\ ~ error
  /\ MakeEdit
  /\ setValue(NewEdit)
  /\ UNCHANGED <<server, proposal, test, asking, chat>>

EditText(ok) ==
  /\ ~ Covered
  /\ MakeEdit
  /\ setYaml(With(yaml, NewEdit, ok))
  /\ UNCHANGED <<server, proposal, test, asking, chat>>

-----------------------------------------------------------------------------
(* Saving and reloading.                                                   *)

\* The text is saved only if it parses; the store takes it for saved before
\* the request has left.
Save ==
  /\ ~ Covered /\ ~ error /\ yaml.ok
  /\ MayCall
  /\ Send("put", yaml)
  /\ saveToFile
  /\ UNCHANGED <<proposal, test, session, chat>>

\* onCancel reads the file again.
Reload ==
  /\ ~ Covered
  /\ MayCall
  /\ Send("get", Empty)
  /\ UNCHANGED <<store, test, session, chat>>

BrokenNotify(i) ==
  /\ Pending(i)
  /\ request[i].at = "failed" \/ (request[i].at = "served" /\ request[i].kind = "put")
  /\ Close(i)
  /\ dirty' = (dirty /\ request[i].at = "failed")
  /\ UNCHANGED <<quiet, alone, yaml, parts, error, baseline, proposal, test, session, chat>>

\* The page is told that the save went well, or that a request failed: it
\* shows a notification and leaves the store alone.
Notify(i) ==
  /\ Pending(i)
  /\ request[i].at = "failed" \/ (request[i].at = "served" /\ request[i].kind = "put")
  /\ Close(i)
  /\ UNCHANGED <<quiet, alone, store, test, session, chat>>

\* The file comes back and replaces the contract.
Load(i) ==
  /\ Under(i, "get") /\ request[i].at = "served"
  /\ Close(i)
  /\ loadYaml(request[i].text)
  /\ quiet' = (quiet \/ i \in alone)
  /\ UNCHANGED <<alone, proposal, test, session, chat>>

-----------------------------------------------------------------------------
(* A suggestion for a field of the form.                                   *)

AskSuggestion ==
  /\ ~ Covered /\ ~ error /\ ~ asking
  /\ asking' = TRUE
  /\ UNCHANGED <<server, store, test, made, chat>>

\* It is put into the field without a look at what has happened to the text.
SuggestionLands ==
  /\ asking /\ asking' = FALSE
  /\ MakeEdit
  /\ setValue(NewEdit)
  /\ UNCHANGED <<server, proposal, test, chat>>

SuggestionFails ==
  /\ asking /\ asking' = FALSE
  /\ UNCHANGED <<server, store, test, made, chat>>

-----------------------------------------------------------------------------
(* A test of the contract.                                                 *)

\* The button reads Cancel while a test is running.
TestButton ==
  /\ ~ Covered
  /\ \/ ~ running /\ MayCall /\ RunTest
     \/ CancelTest
     \/ clearTestResults
  /\ UNCHANGED <<server, store, session, chat>>

TestAnswered(i) == Answered(i) /\ UNCHANGED <<server, store, session, chat>>

TestGivesUp(i) ==
  /\ TimeOut(i) \/ TimedOut(i) \/ Cancelled(i)
  /\ UNCHANGED <<server, store, session, chat>>

-----------------------------------------------------------------------------
(* The assistant.                                                          *)

\* The text of the moment is all the tools will know of.
SendMessage ==
  /\ ~ Covered /\ ~ error
  /\ chat.at = "idle"
  /\ chat' = [Idle EXCEPT !.at = "thinking", !.round = 1, !.text = yaml]
  /\ UNCHANGED <<server, store, test, session>>

BrokenNextRound ==
  IF chat.stopped THEN Idle ELSE [chat EXCEPT !.at = "thinking", !.run = 0]

UnboundedNextRound ==
  IF chat.stopped THEN Idle ELSE [chat EXCEPT !.at = "thinking", !.round = @ + 1, !.run = 0]

\* The last round of tool calls ends the exchange; so does a stop pressed
\* while a tool was at work, as soon as the next request is made.
NextRound ==
  IF chat.stopped \/ chat.round = MaxToolRounds
    THEN Idle
    ELSE [chat EXCEPT !.at = "thinking", !.round = @ + 1, !.run = 0]

\* The answer calls no tool, or the request fails.
Answers ==
  /\ chat.at = "thinking"
  /\ chat' = Idle
  /\ UNCHANGED <<server, store, test, session>>

\* readContract, validateContract and the like change nothing.
CallsReader ==
  /\ chat.at = "thinking"
  /\ chat' = [chat EXCEPT !.at = "reading"]
  /\ UNCHANGED <<server, store, test, session>>

\* updateContract validates the text it proposes, which takes a while.
CallsUpdate(ok) ==
  /\ chat.at = "thinking"
  /\ MakeEdit
  /\ chat' = [chat EXCEPT !.at = "updating", !.text = With(chat.text, NewEdit, ok)]
  /\ UNCHANGED <<server, store, test, asking>>

\* testContract tests the text of the store, also while another test runs.
CallsTest ==
  /\ chat.at = "thinking"
  /\ MayCall /\ RunTest
  /\ chat' = [chat EXCEPT !.at = "testing", !.run = started + 1]
  /\ UNCHANGED <<server, store, session>>

Read ==
  /\ chat.at = "reading"
  /\ chat' = NextRound
  /\ UNCHANGED <<server, store, test, session>>

\* The proposal replaces one that still waits.
Propose ==
  /\ chat.at = "updating"
  /\ proposal' = chat.text
  /\ chat' = NextRound
  /\ UNCHANGED <<server, contract, test, session>>

Tested ==
  /\ chat.at = "testing"
  /\ run[chat.run].at = "settled"
  /\ chat' = NextRound
  /\ UNCHANGED <<server, store, test, session>>

\* The stop button aborts a request to the assistant, but not a tool.
Stop ==
  /\ ~ Covered
  /\ chat.at # "idle"
  /\ chat' = IF chat.at = "thinking" THEN Idle ELSE [chat EXCEPT !.stopped = TRUE]
  /\ UNCHANGED <<server, store, test, session>>

Assistant ==
  \/ Answers
  \/ CallsReader
  \/ \E ok \in BOOLEAN : CallsUpdate(ok)
  \/ CallsTest
  \/ Read
  \/ Propose
  \/ Tested

Apply ==
  /\ Covered
  /\ setYaml(proposal)
  /\ proposal' = NoProposal
  /\ UNCHANGED <<server, test, session, chat>>

Dismiss ==
  /\ Covered
  /\ proposal' = NoProposal
  /\ UNCHANGED <<server, contract, test, session, chat>>

-----------------------------------------------------------------------------
Elsewhere ==
  /\ MakeEdit
  /\ \E ok \in BOOLEAN : ForeignWrite(NewEdit, ok)
  /\ UNCHANGED <<store, test, asking, chat>>

ServerStep(i) == Serve(i) /\ UNCHANGED <<store, test, session, chat>>

PageStep(i) == Notify(i) \/ Load(i)

User ==
  \/ EditForm
  \/ \E ok \in BOOLEAN : EditText(ok)
  \/ Save
  \/ Reload
  \/ AskSuggestion
  \/ TestButton
  \/ SendMessage
  \/ Stop
  \/ Apply
  \/ Dismiss

Next ==
  \/ User
  \/ SuggestionLands
  \/ SuggestionFails
  \/ Assistant
  \/ Elsewhere
  \/ \E i \in Requests : ServerStep(i) \/ PageStep(i)
  \/ \E i \in Runs : TestAnswered(i) \/ TestGivesUp(i)

\* The server goes on with a request, or its connection breaks; the page
\* handles what comes back; the timer of a test goes off; the assistant
\* answers or its connection breaks.  Nothing is asked of the user or of
\* whoever else writes the file, and not that the server answers a test.
Fairness ==
  /\ WF_vars(\E i \in Requests : ServerStep(i))
  /\ WF_vars(\E i \in Requests : PageStep(i))
  /\ WF_vars(\E i \in Runs : TestGivesUp(i))
  /\ WF_vars(Assistant)

Spec == Init /\ [][Next]_vars

FairSpec == Spec /\ Fairness

-----------------------------------------------------------------------------
ChatType ==
  [at : {"idle", "thinking", "reading", "updating", "testing"}, round : 0 .. MaxToolRounds,
   text : Text, run : 0 .. MaxRuns, stopped : BOOLEAN]

\* Every variable has its type.
TypeOK ==
  /\ ServerTypeOK
  /\ StoreTypeOK
  /\ TestTypeOK
  /\ made \in 0 .. MaxEdits
  /\ asking \in BOOLEAN
  /\ chat \in ChatType

\* Unless the page shows a parse error, the form, the diagram and the text
\* show one contract, and a text that does not parse is never shown without
\* the error: yamlParts is what yaml parses to, through every edit, reload,
\* suggestion and proposal.
SyncedViews ==
  /\ ~ error => parts = Parse(yaml)
  /\ ~ yaml.ok => error

\* A save whose text the file does not hold yet.
OnItsWay(i) == Under(i, "put") /\ request[i].at = "sent"

\* A page without unsaved changes shows what the file holds, or what the last
\* save on its way will leave in it - as long as nobody else wrote the file, no
\* save failed and no two requests passed each other since the page last read
\* it: an edit made while a save is under way is never taken for saved.
CleanIsSaved ==
  quiet /\ ~ dirty =>
    \/ file = yaml /\ \A i \in Requests : ~ OnItsWay(i)
    \/ \E i \in Requests : /\ OnItsWay(i) /\ request[i].text = yaml
                          /\ \A j \in Requests : OnItsWay(j) => j <= i

\* What the diff view tells the user of a page without changes: it matches
\* the last saved version.
NoChangesMeansSaved == foreign = 0 /\ Settled /\ yaml = baseline => file = yaml

\* An edit leaves the text only when the user reloads the file, when the user
\* applies a proposal of the assistant, or when a suggestion asked for before
\* lands in a text that does not parse.
NothingTypedIsLost ==
  [][ \/ yaml.edits \subseteq yaml'.edits
      \/ \E i \in Requests : Under(i, "get") /\ ~ Pending(i)' /\ yaml' = request[i].text
      \/ Covered /\ ~ Covered' /\ yaml' = proposal
      \/ error /\ asking /\ ~ asking' ]_vars

\* The run that may show its outcome is the only one that waits for the
\* server, and the page says a test is running exactly while there is one:
\* whoever starts a run, the user or the assistant, takes over from the other.
OneRunAtATime ==
  /\ \A i \in Runs : run[i].at = "waiting" => i = current
  /\ running <=> current # 0
  /\ current # 0 => run[current].at # "settled"

\* The outcome of a run never replaces that of a later one, however late the
\* earlier one is told to give up.
ResultsNeverGoBack == [][results # 0 /\ results' # 0 => results <= results']_vars

\* What was saved while all went well reaches the file, unless the user goes
\* on or something disturbs it.
SavesArrive == quiet /\ ~ dirty ~> file = yaml \/ dirty \/ ~ quiet

\* Every test run ends, whether the server answers or not: the page does not
\* say forever that a test is running.
TestsEnd == running ~> ~ running

\* The assistant comes to an end with every message, whatever tools it calls.
ChatEnds == chat.at # "idle" ~> chat.at = "idle"
=============================================================================
