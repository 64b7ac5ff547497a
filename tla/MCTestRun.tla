------------------------------ MODULE MCTestRun ------------------------------
(***************************************************************************)
(* Small contracts for TestRun.  The five checks of the first one are a    *)
(* type line, a count below it, a query and an unsupported rule of the     *)
(* model orders, and a count of the model customers.  In the second        *)
(* contract two counts of one field share a key, and so do two             *)
(* schema-level duplicateValues rules; the third is a type line with two   *)
(* counts below it that share a key.                                       *)
(***************************************************************************)
EXTENDS TestRun

OwnKeys == <<"type", "missing", "duplicates", "soda", "rows">>
OwnModels == <<"orders", "orders", "orders", "orders", "customers">>
OwnKinds == <<"type", "count", "query", "unsupported", "count">>
OwnParents == <<0, 1, 0, 0, 0>>
OwnPresets == [s \in 1 .. 5 |-> "warning"]

SameKeys == <<"invalid", "invalid", "duplicates", "duplicates">>
SameModels == <<"orders", "orders", "orders", "orders">>
SameKinds == <<"count", "count", "query", "query">>
SameParents == <<0, 0, 0, 0>>
SamePresets == [s \in 1 .. 4 |-> "warning"]

FieldKeys == <<"type", "invalid", "invalid">>
FieldModels == <<"orders", "orders", "orders">>
FieldKinds == <<"type", "count", "count">>
FieldParents == <<0, 1, 1>>
FieldPresets == [s \in 1 .. 3 |-> "warning"]
=============================================================================
