----------------------------- MODULE EditServer -----------------------------
(***************************************************************************)
(* The local server of `datacontract edit` (command_edit.py, create_app)   *)
(* with the one file it serves, and the requests of the page that are      *)
(* under way.  A PUT is handled on the event loop: the body is awaited,    *)
(* then the file is truncated and written in place, one PUT at a time.  A  *)
(* GET is handled in a thread and may read the file at any moment, also    *)
(* between those two.  Nothing holds requests in the order in which they   *)
(* were sent, and the connection may break before the request arrives or   *)
(* before its answer does.  An agent or another program edits the file     *)
(* meanwhile.                                                              *)
(***************************************************************************)
EXTENDS EditorText

CONSTANTS
  MaxRequests,   \* bound: how often the page asks the server
  MaxForeign     \* bound: how often something else writes the file

ASSUME ServerAssumption == MaxRequests \in Nat /\ MaxForeign \in Nat

Requests == 1 .. MaxRequests

VARIABLES
  file,      \* the content of the file
  writing,   \* the PUT that has truncated the file and not written it, or 0
  sent,      \* requests 1 .. sent were sent, in this order
  request,   \* what each asks for, its text, and how far it is
  foreign,   \* how often something else has written the file
  quiet,     \* history: since the page last read the file undisturbed, nothing
             \* but its own saves wrote it, all of them and in order
  alone      \* history: the requests nothing has crossed since they were sent

disk == <<file, writing>>
server == <<file, writing, sent, request, foreign, quiet, alone>>

None == [kind |-> "none", text |-> Empty, at |-> "done"]

Pending(i) == i <= sent /\ request[i].at # "done"

Under(i, kind) == Pending(i) /\ request[i].kind = kind

Settled == \A i \in Requests : ~ Pending(i)

ServerInit ==
  /\ file = Opened
  /\ writing = 0
  /\ sent = 0
  /\ request = [i \in Requests |-> None]
  /\ foreign = 0
  /\ quiet = TRUE
  /\ alone = {}

-----------------------------------------------------------------------------
\* The page sends a request: fetch in onSave and onCancel.
Send(kind, text) ==
  /\ sent < MaxRequests
  /\ sent' = sent + 1
  /\ request' = [request EXCEPT ![sent + 1] = [kind |-> kind, text |-> text, at |-> "sent"]]
  /\ alone' = IF Settled THEN {sent + 1} ELSE {}
  /\ quiet' = (quiet /\ \A i \in Requests : Pending(i) => request[i].kind = "put" /\ kind = "put")
  /\ UNCHANGED <<file, writing, foreign>>

At(i, stage) == request' = [request EXCEPT ![i].at = stage]

\* write_text opens the file, which empties it ...
BeginWrite(i) ==
  /\ writing = 0
  /\ Under(i, "put") /\ request[i].at = "sent"
  /\ file' = Empty
  /\ writing' = i
  /\ quiet' = (quiet /\ \A j \in 1 .. i - 1 : request[j].at # "sent")
  /\ UNCHANGED <<sent, request, foreign, alone>>

BrokenEndWrite(i) ==
  /\ writing = i
  /\ UNCHANGED file
  /\ writing' = 0
  /\ At(i, "served")
  /\ UNCHANGED <<sent, foreign, quiet, alone>>

\* ... and writes the text.
EndWrite(i) ==
  /\ writing = i
  /\ file' = request[i].text
  /\ writing' = 0
  /\ At(i, "served")
  /\ UNCHANGED <<sent, foreign, quiet, alone>>

\* The disk is full: the file stays empty.
WriteBreaks(i) ==
  /\ writing = i
  /\ writing' = 0
  /\ At(i, "failed")
  /\ quiet' = FALSE
  /\ UNCHANGED <<file, sent, foreign, alone>>

\* read_text, in a thread of its own.
ReadFile(i) ==
  /\ Under(i, "get") /\ request[i].at = "sent"
  /\ request' = [request EXCEPT ![i].text = file, ![i].at = "served"]
  /\ UNCHANGED <<file, writing, sent, foreign, quiet, alone>>

\* The file cannot be opened or decoded, the server has stopped, or the
\* connection breaks on the way to it.
Refuse(i) ==
  /\ Pending(i) /\ request[i].at = "sent" /\ writing # i
  /\ At(i, "failed")
  /\ quiet' = (quiet /\ request[i].kind = "get")
  /\ UNCHANGED <<file, writing, sent, foreign, alone>>

\* The connection breaks on the way back: the file has been read or written,
\* the page takes it for an error.
LoseAnswer(i) ==
  /\ Pending(i) /\ request[i].at = "served"
  /\ At(i, "failed")
  /\ UNCHANGED <<file, writing, sent, foreign, quiet, alone>>

\* A coding agent, an editor of another kind or git writes the file.
ForeignWrite(e, ok) ==
  /\ writing = 0
  /\ foreign < MaxForeign
  /\ foreign' = foreign + 1
  /\ file' = With(file, e, ok)
  /\ quiet' = FALSE
  /\ alone' = {}
  /\ UNCHANGED <<writing, sent, request>>

\* The page is done with request i.
Close(i) ==
  /\ request' = [request EXCEPT ![i] = None]
  /\ UNCHANGED <<file, writing, sent, foreign>>

Serve(i) ==
  \/ BeginWrite(i)
  \/ EndWrite(i)
  \/ WriteBreaks(i)
  \/ ReadFile(i)
  \/ Refuse(i)
  \/ LoseAnswer(i)

-----------------------------------------------------------------------------
RequestType ==
  [kind : {"none", "put", "get"}, text : Text, at : {"sent", "served", "failed", "done"}]

ServerTypeOK ==
  /\ file \in Text
  /\ writing \in 0 .. MaxRequests
  /\ sent \in 0 .. MaxRequests
  /\ request \in [Requests -> RequestType]
  /\ foreign \in 0 .. MaxForeign
  /\ quiet \in BOOLEAN
  /\ alone \in SUBSET Requests
=============================================================================
