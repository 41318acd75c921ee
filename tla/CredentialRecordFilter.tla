----------------------- MODULE CredentialRecordFilter -----------------------
(***************************************************************************)
(* The AND/OR filter of the credential record query: the limits on its     *)
(* size, and its flattening to a set of conjunctions, each of which is run *)
(* as a query of its own; the results are united.                          *)
(*                                                                         *)
(* flattenToConjunctions calls itself for the parts of a filter, merges    *)
(* what the calls for AND return in one loop and unites what those for OR  *)
(* return in a second.  A step here is a turn of one of the loops; what a  *)
(* call has returned is at hand for all that contain its filter.  Beside   *)
(* the conjunctions goes what the filter means: the rows that match it.    *)
(***************************************************************************)
EXTENDS Naturals, FiniteSets

CONSTANTS Fields,          \* names of fields
          Values,          \* what a field is compared with
          MaxDepth,        \* MAX_FILTER_DEPTH
          MaxConditions    \* MAX_CONDITION_COUNT

ASSUME LimitsAssumption == MaxDepth \in Nat \ {0} /\ MaxConditions \in Nat

VARIABLES
  loop,            \* which loop the call is in, "AND" or "OR"
  conjunctions,    \* the variables of the call
  orConjunctions,
  meant,           \* of its filter: the rows and fields of the parts that must all hold,
                   \* those of the alternatives; whether none of the fields can conflict
  size,            \* of its filter: [depth, conditions]
  returned         \* by the calls before

call == <<loop, conjunctions, orConjunctions, meant, size>>

-----------------------------------------------------------------------------
(* Conjunctions, partial functions from fields to values, and rows. *)

Conjunctions == UNION {[S -> Values] : S \in SUBSET Fields}
Rows == [Fields -> Values]

Satisfies(r, c) == \A k \in DOMAIN c : r[k] = c[k]

\* What the queries for the conjunctions of C return together.
Selected(C) == {r \in Rows : \E c \in C : Satisfies(r, c)}

\* A field set on both sides keeps the value of the left one.
mergeConjunctions(a, b) ==
  [k \in DOMAIN a \cup DOMAIN b |-> IF k \in DOMAIN a THEN a[k] ELSE b[k]]

MergeEach(as, bs) == {mergeConjunctions(a, b) : a \in as, b \in bs}

\* Variant: an alternative does not carry the conditions around it.
Uncarried(ors, cs, ds) == ors \cup ds

\* One more alternative, within the conditions cs around it.
Alternatives(ors, cs, ds) == ors \cup MergeEach(cs, ds)

-----------------------------------------------------------------------------
(* flattenToConjunctions. *)

Flattened == IF loop = "AND" THEN conjunctions ELSE orConjunctions

Matching == IF loop = "AND" THEN meant.all ELSE meant.all \cap meant.some

\* It refuses a filter if it refuses any part of it.
validateFilter(s) == s.depth <= MaxDepth /\ s.conditions <= MaxConditions

\* A filter that only sets the fields of c.
LeafMeans(c) ==
  [all |-> Selected({c}), some |-> {}, fields |-> DOMAIN c, orFields |-> {}, once |-> TRUE]
LeafSize(c) == [depth |-> 1, conditions |-> Cardinality(DOMAIN c)]
Leaves == {c \in Conjunctions : validateFilter(LeafSize(c))}

Contain(g) ==
  /\ size' = [depth |-> IF g.depth < size.depth THEN size.depth ELSE g.depth + 1,
              conditions |-> size.conditions + g.conditions]
  /\ validateFilter(size')

OnceMore(g) == meant.once /\ g.once /\ meant.fields \cap g.fields = {}

AndClause(g) ==
  /\ loop = "AND"
  /\ conjunctions' = MergeEach(conjunctions, g.conjunctions)
  /\ meant' = [meant EXCEPT !.all = @ \cap g.matching, !.fields = @ \cup g.fields,
                            !.once = OnceMore(g)]
  /\ Contain(g)
  /\ UNCHANGED <<loop, orConjunctions, returned>>

OrClause(g) ==
  /\ loop' = "OR"
  /\ orConjunctions' = Alternatives(orConjunctions, conjunctions, g.conjunctions)
  /\ meant' = [meant EXCEPT !.some = @ \cup g.matching, !.orFields = @ \cup g.fields,
                            !.once = OnceMore(g)]
  /\ Contain(g)
  /\ UNCHANGED <<conjunctions, returned>>

Return ==
  /\ returned' = returned \cup
       {[conjunctions |-> Flattened, matching |-> Matching, once |-> meant.once,
         fields |-> meant.fields \cup meant.orFields,
         depth |-> size.depth, conditions |-> size.conditions]}
  /\ \E c \in Leaves :
       /\ loop' = "AND" /\ conjunctions' = {c} /\ orConjunctions' = {}
       /\ meant' = LeafMeans(c) /\ size' = LeafSize(c)

-----------------------------------------------------------------------------
InitFlatten ==
  /\ returned = {}
  /\ \E c \in Leaves :
       /\ loop = "AND" /\ conjunctions = {c} /\ orConjunctions = {}
       /\ meant = LeafMeans(c) /\ size = LeafSize(c)

Flatten == Return \/ \E g \in returned : AndClause(g) \/ OrClause(g)

Flattening == InitFlatten /\ [][Flatten]_<<call, returned>>

-----------------------------------------------------------------------------
(* Properties. *)

\* However AND and OR are nested, flattening only widens a filter: no row that matches
\* is left out of the result; and where the parts that must hold together set different
\* fields, the query returns exactly the rows that match.
FlatteningIsSound ==
  /\ Matching \subseteq Selected(Flattened)
  /\ meant.once => Selected(Flattened) = Matching

\* "Logical AND - all conditions must match": what is returned matches the filter,
\* whichever fields its parts set.
AllConditionsMatch == Selected(Flattened) \subseteq Matching
=============================================================================
