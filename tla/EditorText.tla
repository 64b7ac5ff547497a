----------------------------- MODULE EditorText -----------------------------
(***************************************************************************)
(* The texts the editor of `datacontract edit` handles, as far as its      *)
(* properties tell them apart: which edits of the contract a text holds,   *)
(* and whether it is YAML at all.  Edit 0 is the contract the file held    *)
(* when the editor was opened; comments and formatting, which a form edit  *)
(* drops, are left out.                                                    *)
(***************************************************************************)
EXTENDS Naturals

CONSTANT MaxEdits   \* bound: how often anyone edits the contract

ASSUME EditsAssumption == MaxEdits \in Nat

Edits == 0 .. MaxEdits

Text == [edits : SUBSET Edits, ok : BOOLEAN]

\* What a file holds between being opened for writing and being written: the
\* empty text, which parses to no contract.
Empty == [edits |-> {}, ok |-> TRUE]

Opened == [edits |-> {0}, ok |-> TRUE]

\* Parsing gives the contract of a text, if it has one; serializing a contract
\* gives a text that parses, whatever the text was that it came from.
Parse(text) == text.edits

Serialize(edits) == [edits |-> edits, ok |-> TRUE]

With(text, e, ok) == [text EXCEPT !.edits = @ \cup {e}, !.ok = ok]
=============================================================================
