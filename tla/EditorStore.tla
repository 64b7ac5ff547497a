---------------------------- MODULE EditorStore ----------------------------
(***************************************************************************)
(* The store of the editor page (editor_assets/datacontract-editor.es.js,  *)
(* the embedded store the command line's page creates) as far as it holds  *)
(* the contract: the text of the YAML view, the parsed contract the form   *)
(* and the diagram show, the text last loaded or saved, and what the       *)
(* assistant proposes.  Each operator is one function of the store; those  *)
(* that change the contract leave out `proposal`.                          *)
(***************************************************************************)
EXTENDS EditorText

VARIABLES
  yaml,      \* the text
  parts,     \* yamlParts: the contract parsed from it
  error,     \* yamlParseError is set
  baseline,  \* baselineYaml: what the diff view compares with
  dirty,     \* isDirty
  proposal   \* pendingAiChange: NoProposal, or the text proposed

contract == <<yaml, parts, error, baseline, dirty>>
store == <<yaml, parts, error, baseline, dirty, proposal>>

NoProposal == [edits |-> {}, ok |-> FALSE]

StoreInit(text) ==
  /\ yaml = text
  /\ parts = Parse(text)
  /\ error = FALSE
  /\ baseline = text
  /\ dirty = FALSE
  /\ proposal = NoProposal

-----------------------------------------------------------------------------
\* A text that does not parse leaves the contract of the text before.
setYaml(text) ==
  /\ yaml' = text
  /\ parts' = IF text.ok THEN Parse(text) ELSE parts
  /\ error' = ~ text.ok
  /\ dirty' = TRUE
  /\ UNCHANGED baseline

BrokenLoadYaml(text) ==
  /\ yaml' = text
  /\ error' = ~ text.ok
  /\ baseline' = text
  /\ dirty' = FALSE
  /\ UNCHANGED parts

loadYaml(text) ==
  /\ yaml' = text
  /\ parts' = IF text.ok THEN Parse(text) ELSE parts
  /\ error' = ~ text.ok
  /\ baseline' = text
  /\ dirty' = FALSE

\* The edit is made to the parsed contract, and the text is written anew.
setValue(e) ==
  /\ parts' = parts \cup {e}
  /\ yaml' = Serialize(parts \cup {e})
  /\ dirty' = TRUE
  /\ UNCHANGED <<error, baseline>>

\* saveToFile, once onSave was called: an asynchronous onSave has returned a
\* promise, which is not false, whatever will come of it.
saveToFile ==
  /\ baseline' = yaml
  /\ dirty' = FALSE
  /\ UNCHANGED <<yaml, parts, error>>

-----------------------------------------------------------------------------
StoreTypeOK ==
  /\ yaml \in Text
  /\ parts \in SUBSET Edits
  /\ error \in BOOLEAN
  /\ baseline \in Text
  /\ dirty \in BOOLEAN
  /\ proposal \in Text
=============================================================================
