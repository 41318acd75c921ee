------------------------ MODULE MCCredentialRecords -------------------------
(***************************************************************************)
(* RecordQuery and CredentialRecordFilter for TLC.  A client either asks   *)
(* for one consistent record with one status and method after the other,   *)
(* or has filters flattened that contain one another.                      *)
(***************************************************************************)
EXTENDS RecordQuery, TLC

CONSTANT MaxFilters      \* bound on the filters that the one under way can contain

VARIABLE client          \* "asks" or "composes"

vars == <<client, question, call, returned>>

\* Fields, and values, are interchangeable.
Symmetry == Permutations(Fields) \cup Permutations(Values)

Init ==
  /\ InitQuery /\ InitFlatten
  /\ \/ client = "asks" /\ conjunctions = {<<>>}
     \/ client = "composes" /\ record = (CHOOSE r \in ConsistentRecords : TRUE)

Asks == client = "asks" /\ AskAny /\ UNCHANGED <<client, call, returned>>

Composes ==
  /\ client = "composes"
  /\ Flatten /\ Cardinality(returned') <= MaxFilters
  /\ UNCHANGED <<client, question>>

Next == Asks \/ Composes

Spec == Init /\ [][Next]_vars

\* "Filter by credential record status": every record that a filter returns has
\* the status asked for.
FilteredStatusIsReturned ==
  status # "any" =>
    \A b \in Listed(record, status, method) : Status(b, record) = status
=============================================================================
