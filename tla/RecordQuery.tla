----------------------------- MODULE RecordQuery -----------------------------
(***************************************************************************)
(* A client that asks findCredentialRecords for one credential record,     *)
(* with one status and issuance method after the other, what the answers   *)
(* have to agree on, and the proof that they do; and the proof that the    *)
(* flattening of a nested filter is sound.                                 *)
(***************************************************************************)
EXTENDS CredentialRecords, CredentialRecordFilter, TLAPS

VARIABLES
  record,         \* what the tables hold of the credential record
  status, method  \* the filter of the latest question

question == <<record, status, method>>

ConsistentRecords == {r \in Records : Consistent(r)}

\* The first question is for everything.
InitQuery ==
  /\ record \in ConsistentRecords
  /\ status = "any" /\ method = "any"

Ask(s, m) ==
  /\ status' = s /\ method' = m
  /\ UNCHANGED record

AskAny == \E s \in Statuses \cup {"any"}, m \in Methods \cup {"any"} : Ask(s, m)

Queries == InitQuery /\ [][AskAny]_question

\* A client that pages through all records sees each credential record once,
\* whatever its three tables say.
EachListedOnce == ListedByOneBranch(record)

\* Filtering in the query gives what filtering its result would give, for every
\* method and every status whose condition is not wider than its CASE.
FilterIsExact == status \notin LooseStatuses => FilterNarrows(record, status, method)

-----------------------------------------------------------------------------
(* Each branch on its own: what it filters by is what it computes. *)

LEMMA OneBranch ==
  ASSUME NEW r \in ConsistentRecords
  PROVE  \E b \in Branches : \A c \in Branches : HasRow(c, r) <=> c = b
<1>1. CASE r.issuance # "none"
  BY <1>1 DEF ConsistentRecords, Records, AsyncStates, Consistent, Branches, HasRow
<1>2. CASE r.issuance = "none" /\ r.async = "none"
  BY <1>2 DEF Branches, HasRow
<1>3. CASE r.issuance = "none" /\ r.async # "none"
  BY <1>3 DEF ConsistentRecords, Records, AsyncStates, Consistent, Branches, HasRow
<1> QED  BY <1>1, <1>2, <1>3

\* Without a filter nothing is left out.
LEMMA Unfiltered ==
  ASSUME NEW r
  PROVE  Listed(r, "any", "any") = {b \in Branches : HasRow(b, r)}
<1>1. ASSUME NEW b \in Branches
      PROVE  /\ shouldInclude(b, "any", "any") /\ Condition(b, r, "any")
             /\ MethodCondition(b, r, "any")
  BY DEF Branches, shouldInclude, Condition, IssuanceCondition, AsyncCondition,
     RecordCondition, MethodCondition
<1> QED  BY <1>1 DEF Listed

\* The conditions of a branch, the statuses it is run for, and its CASE expression.
Filtered(b, r, s) == (s = "any" \/ s \in Included[b]) /\ Condition(b, r, s)

LEMMA IssuanceFilter ==
  ASSUME NEW r \in Records, NEW s \in Statuses
  PROVE  Filtered("issuance", r, s) <=> s = Status("issuance", r)
<1>1. IssuanceStatus(r) \in Included["issuance"]
  BY DEF IssuanceStatus, Included
<1>2. ASSUME s \in Included["issuance"]
      PROVE  IssuanceCondition(r, s) <=> s = IssuanceStatus(r)
  BY <1>2 DEF IssuanceCondition, IssuanceStatus, Included
<1> QED  BY <1>1, <1>2 DEF Filtered, Condition, Status, Statuses, Included

LEMMA AsyncFilter ==
  ASSUME NEW r \in Records, NEW s \in Statuses \ LooseStatuses, r.async \notin {"none", "issued"}
  PROVE  Filtered("async", r, s) <=> s = Status("async", r)
<1>1. AsyncStatus(r) \in Included["async"]
  BY DEF AsyncStatus, Included, Records, AsyncStates
<1>2. ASSUME s \in Included["async"]
      PROVE  AsyncCondition(r, s) <=> s = AsyncStatus(r)
  BY <1>2 DEF AsyncCondition, AsyncStatus, Included, Records, AsyncStates, LooseStatuses
<1> QED  BY <1>1, <1>2 DEF Filtered, Condition, Status, Statuses, Included

LEMMA RecordFilter ==
  ASSUME NEW r \in Records, NEW s \in Statuses
  PROVE  Filtered("record", r, s) <=> s = Status("record", r)
<1>1. RecordStatus(r) \in Included["record"]
  BY DEF RecordStatus, Included
<1>2. ASSUME s \in Included["record"]
      PROVE  RecordCondition(r, s) <=> s = RecordStatus(r)
  BY <1>2 DEF RecordCondition, RecordStatus, Included
<1> QED  BY <1>1, <1>2 DEF Filtered, Condition, Status, Statuses, Included

\* The methods: the choice of the branches and the one condition together.
LEMMA MethodFilter ==
  ASSUME NEW b \in Branches, NEW r, NEW m \in Methods \cup {"any"}
  PROVE  m \in {"any", Method(b, r)} <=> /\ b = "async" => m # "inPerson"
                                         /\ b = "record" => m # "remote"
                                         /\ MethodCondition(b, r, m)
  BY DEF Branches, Methods, MethodCondition, Method

\* A filter, for the records of one branch.
LEMMA BranchNarrows ==
  ASSUME NEW r \in ConsistentRecords, NEW b \in Branches, HasRow(b, r),
         NEW s \in (Statuses \cup {"any"}) \ LooseStatuses, NEW m \in Methods \cup {"any"}
  PROVE  b \in Listed(r, s, m) <=> s \in {"any", Status(b, r)} /\ m \in {"any", Method(b, r)}
<1>1. Filtered(b, r, s) <=> s \in {"any", Status(b, r)}
  <2>1. CASE s = "any"
    BY <2>1 DEF Filtered, Condition, IssuanceCondition, AsyncCondition, RecordCondition, Branches
  <2>2. CASE s # "any"
    <3>1. s \in Statuses \ LooseStatuses /\ r \in Records
      BY <2>2 DEF ConsistentRecords
    <3>2. b = "async" => r.async \notin {"none", "issued"}
      BY DEF HasRow
    <3>3. Filtered(b, r, s) <=> s = Status(b, r)
      BY <3>1, <3>2, IssuanceFilter, AsyncFilter, RecordFilter DEF Branches
    <3> QED  BY <2>2, <3>3
  <2> QED  BY <2>1, <2>2
<1> QED  BY <1>1, MethodFilter DEF Listed, shouldInclude, Filtered

LEMMA TypeOfQuestion ==
  Queries => [](record \in ConsistentRecords /\ status \in Statuses \cup {"any"}
                /\ method \in Methods \cup {"any"})
<1> DEFINE Asked == /\ record \in ConsistentRecords /\ status \in Statuses \cup {"any"}
                    /\ method \in Methods \cup {"any"}
<1>1. InitQuery => Asked
  BY DEF InitQuery
<1>2. Asked /\ [AskAny]_question => Asked'
  BY DEF AskAny, Ask, question
<1> QED  BY <1>1, <1>2, PTL DEF Queries

\* For every record that the application can leave in its tables: one branch lists it.
THEOREM ListedOnce == Queries => []EachListedOnce
<1>1. record \in ConsistentRecords => EachListedOnce
  BY OneBranch, Unfiltered DEF EachListedOnce, ListedByOneBranch
<1> QED  BY <1>1, TypeOfQuestion, PTL

\* The three translations of the status, as CASE, as WHERE and as the choice of the
\* branches, agree on every record, status and method.
THEOREM FilterNarrowsResult == Queries => []FilterIsExact
<1> DEFINE Asked == /\ record \in ConsistentRecords /\ status \in Statuses \cup {"any"}
                    /\ method \in Methods \cup {"any"}
<1>1. Asked => FilterIsExact
  <2> SUFFICES ASSUME Asked, status \notin LooseStatuses
               PROVE  FilterNarrows(record, status, method)
    BY DEF FilterIsExact
  <2>1. \A b \in Branches : HasRow(b, record) =>
          (b \in Listed(record, status, method) <=>
             status \in {"any", Status(b, record)} /\ method \in {"any", Method(b, record)})
    BY BranchNarrows
  <2>2. \A b \in Listed(record, status, method) : b \in Branches /\ HasRow(b, record)
    BY DEF Listed
  <2> QED  BY <2>1, <2>2, Unfiltered DEF FilterNarrows
<1> QED  BY <1>1, TypeOfQuestion, PTL

-----------------------------------------------------------------------------
(* The flattening of a filter.  What a call returns, and both variables of *)
(* the call under way, select at least the rows meant, and set fields that *)
(* the filter sets; they select no other row where no field can conflict.  *)

Within(F) == {c \in Conjunctions : DOMAIN c \subseteq F}

\* The conjunctions of C stand for the rows R, exactly if exact holds.
StandFor(C, R, exact) ==
  /\ R \subseteq Selected(C)
  /\ exact => Selected(C) = R

Meanings == [all : SUBSET Rows, some : SUBSET Rows, fields : SUBSET Fields,
             orFields : SUBSET Fields, once : BOOLEAN]

Result(x) ==
  /\ x.fields \subseteq Fields /\ x.matching \subseteq Rows
  /\ x.conjunctions \subseteq Within(x.fields)
  /\ StandFor(x.conjunctions, x.matching, x.once)

FlatteningInv ==
  /\ \A x \in returned : Result(x)
  /\ loop \in {"AND", "OR"} /\ meant \in Meanings
  /\ conjunctions \subseteq Within(meant.fields)
  /\ StandFor(conjunctions, meant.all, meant.once)
  /\ orConjunctions \subseteq Within(meant.fields \cup meant.orFields)
  /\ StandFor(orConjunctions, meant.all \cap meant.some, meant.once)
  /\ loop = "AND" => orConjunctions = {} /\ meant.some = {} /\ meant.orFields = {}

LEMMA WithinMore ==
  ASSUME NEW F, NEW G, F \subseteq G
  PROVE  Within(F) \subseteq Within(G)
BY DEF Within

LEMMA ConjunctionShape ==
  ASSUME NEW c
  PROVE  c \in Conjunctions <=> DOMAIN c \subseteq Fields /\ c \in [DOMAIN c -> Values]
BY DEF Conjunctions

LEMMA MergedPairs ==
  ASSUME NEW cs, NEW ds, NEW m
  PROVE  m \in MergeEach(cs, ds) <=> \E a \in cs, b \in ds : m = mergeConjunctions(a, b)
BY DEF MergeEach

LEMMA MergeWithin ==
  ASSUME NEW F, NEW G, NEW cs \in SUBSET Within(F), NEW ds \in SUBSET Within(G)
  PROVE  MergeEach(cs, ds) \subseteq Within(F \cup G)
<1>1. ASSUME NEW a \in cs, NEW b \in ds
      PROVE  mergeConjunctions(a, b) \in Within(F \cup G)
  <2> DEFINE m == mergeConjunctions(a, b)
  <2>1. /\ DOMAIN a \subseteq F /\ DOMAIN a \subseteq Fields /\ a \in [DOMAIN a -> Values]
        /\ DOMAIN b \subseteq G /\ DOMAIN b \subseteq Fields /\ b \in [DOMAIN b -> Values]
    BY ConjunctionShape DEF Within
  <2>2. DOMAIN m = DOMAIN a \cup DOMAIN b /\ m \in [DOMAIN a \cup DOMAIN b -> Values]
    BY <2>1 DEF mergeConjunctions
  <2>3. m \in Conjunctions
    BY <2>1, <2>2, ConjunctionShape
  <2> QED  BY <2>1, <2>2, <2>3 DEF Within
<1>2. ASSUME NEW m \in MergeEach(cs, ds)
      PROVE  m \in Within(F \cup G)
  <2>1. PICK a \in cs, b \in ds : m = mergeConjunctions(a, b)
    BY MergedPairs
  <2> QED  BY <1>1, <2>1
<1> QED  BY <1>2

\* A row that satisfies two conjunctions satisfies the merged one; the converse needs
\* the fields to be different, cs the merged one keeps one value of each.
LEMMA MergeSatisfied ==
  ASSUME NEW a, NEW b, NEW r
  PROVE  /\ Satisfies(r, a) /\ Satisfies(r, b) => Satisfies(r, mergeConjunctions(a, b))
         /\ (DOMAIN a \cap DOMAIN b = {} /\ Satisfies(r, mergeConjunctions(a, b)))
              => Satisfies(r, a) /\ Satisfies(r, b)
<1>1. /\ DOMAIN mergeConjunctions(a, b) = DOMAIN a \cup DOMAIN b
      /\ \A k \in DOMAIN a : mergeConjunctions(a, b)[k] = a[k]
      /\ \A k \in DOMAIN b \ DOMAIN a : mergeConjunctions(a, b)[k] = b[k]
  BY DEF mergeConjunctions
<1>2. \A k \in DOMAIN a \cup DOMAIN b : k \notin DOMAIN a => k \in DOMAIN b \ DOMAIN a
  OBVIOUS
<1> QED  BY <1>1, <1>2 DEF Satisfies

LEMMA MergeStandsFor ==
  ASSUME NEW F, NEW G, NEW cs \in SUBSET Within(F), NEW ds \in SUBSET Within(G),
         NEW R, NEW Q, NEW p, NEW q,
         StandFor(cs, R, p), StandFor(ds, Q, q)
  PROVE  StandFor(MergeEach(cs, ds), R \cap Q, p /\ q /\ F \cap G = {})
<1>1. Selected(cs) \cap Selected(ds) \subseteq Selected(MergeEach(cs, ds))
  <2> SUFFICES ASSUME NEW r \in Selected(cs) \cap Selected(ds)
               PROVE  r \in Selected(MergeEach(cs, ds))
    OBVIOUS
  <2>1. PICK a \in cs : Satisfies(r, a)
    BY DEF Selected
  <2>2. PICK b \in ds : Satisfies(r, b)
    BY DEF Selected
  <2>3. mergeConjunctions(a, b) \in MergeEach(cs, ds)
    BY MergedPairs
  <2> QED  BY <2>1, <2>2, <2>3, MergeSatisfied DEF Selected
<1>2. ASSUME F \cap G = {}
      PROVE  Selected(MergeEach(cs, ds)) \subseteq Selected(cs) \cap Selected(ds)
  <2> SUFFICES ASSUME NEW r \in Selected(MergeEach(cs, ds))
               PROVE  r \in Selected(cs) \cap Selected(ds)
    OBVIOUS
  <2>1. PICK a \in cs, b \in ds : Satisfies(r, mergeConjunctions(a, b))
    BY MergedPairs DEF Selected
  <2>2. DOMAIN a \cap DOMAIN b = {}
    BY <1>2 DEF Within
  <2> QED  BY <2>1, <2>2, MergeSatisfied DEF Selected
<1> QED  BY <1>1, <1>2 DEF StandFor

LEMMA UnionStandsFor ==
  ASSUME NEW C, NEW D, NEW R, NEW Q, NEW p, NEW q, StandFor(C, R, p), StandFor(D, Q, q)
  PROVE  StandFor(C \cup D, R \cup Q, p /\ q)
<1>1. Selected(C \cup D) = Selected(C) \cup Selected(D)
  BY DEF Selected
<1> QED  BY <1>1 DEF StandFor

\* A filter with nothing but fields, with which every call starts.
LEMMA LeafStandsFor ==
  ASSUME NEW c \in Leaves
  PROVE  /\ LeafMeans(c) \in Meanings
         /\ {c} \subseteq Within(LeafMeans(c).fields)
         /\ StandFor({c}, LeafMeans(c).all, LeafMeans(c).once)
         /\ LeafMeans(c).some = {} /\ LeafMeans(c).orFields = {}
<1>1. c \in Conjunctions /\ DOMAIN c \subseteq Fields
  BY ConjunctionShape DEF Leaves
<1>2. Selected({c}) \subseteq Rows
  BY DEF Selected
<1> QED  BY <1>1, <1>2 DEF LeafMeans, Meanings, Within, StandFor

LEMMA NothingStandsFor ==
  ASSUME NEW p
  PROVE  StandFor({}, {}, p)
BY DEF StandFor, Selected

LEMMA AndClauseKeeps ==
  ASSUME FlatteningInv, NEW g \in returned, AndClause(g)
  PROVE  FlatteningInv'
<1>1. /\ Result(g) /\ meant \in Meanings /\ loop = "AND"
      /\ conjunctions \subseteq Within(meant.fields)
      /\ StandFor(conjunctions, meant.all, meant.once)
      /\ orConjunctions = {} /\ meant.some = {} /\ meant.orFields = {}
  BY DEF FlatteningInv, AndClause
<1>2. /\ conjunctions' = MergeEach(conjunctions, g.conjunctions)
      /\ loop' = "AND" /\ orConjunctions' = {} /\ returned' = returned
      /\ meant' = [meant EXCEPT !.all = @ \cap g.matching, !.fields = @ \cup g.fields,
                                !.once = OnceMore(g)]
  BY <1>1 DEF AndClause
<1>3. /\ meant'.all = meant.all \cap g.matching /\ meant'.fields = meant.fields \cup g.fields
      /\ meant'.some = {} /\ meant'.orFields = {}
      /\ meant'.once = OnceMore(g)
  BY <1>1, <1>2 DEF Meanings
<1>4. meant' \in Meanings
  <2>1. OnceMore(g) \in BOOLEAN
    BY DEF OnceMore
  <2> QED  BY <1>1, <1>2, <2>1 DEF Meanings, Result
<1>5. conjunctions' \subseteq Within(meant.fields \cup g.fields)
  BY <1>1, <1>2, MergeWithin DEF Result
<1>6. StandFor(conjunctions', meant.all \cap g.matching, OnceMore(g))
  BY <1>1, <1>2, MergeStandsFor DEF Result, OnceMore
<1>7. StandFor({}, {}, OnceMore(g))
  BY NothingStandsFor
<1>8. \A x \in returned : Result(x)
  BY DEF FlatteningInv
<1> QED  BY <1>2, <1>3, <1>4, <1>5, <1>6, <1>7, <1>8 DEF FlatteningInv

LEMMA OrClauseKeeps ==
  ASSUME FlatteningInv, NEW g \in returned, OrClause(g)
  PROVE  FlatteningInv'
<1>1. /\ Result(g) /\ meant \in Meanings
      /\ conjunctions \subseteq Within(meant.fields)
      /\ StandFor(conjunctions, meant.all, meant.once)
      /\ orConjunctions \subseteq Within(meant.fields \cup meant.orFields)
      /\ StandFor(orConjunctions, meant.all \cap meant.some, meant.once)
  BY DEF FlatteningInv
<1>2. /\ orConjunctions' = orConjunctions \cup MergeEach(conjunctions, g.conjunctions)
      /\ loop' = "OR" /\ conjunctions' = conjunctions /\ returned' = returned
      /\ meant' = [meant EXCEPT !.some = @ \cup g.matching, !.orFields = @ \cup g.fields,
                                !.once = OnceMore(g)]
  BY DEF OrClause, Alternatives
<1>3. /\ meant'.some = meant.some \cup g.matching
      /\ meant'.orFields = meant.orFields \cup g.fields
      /\ meant'.all = meant.all /\ meant'.fields = meant.fields
      /\ meant'.once = OnceMore(g)
  BY <1>1, <1>2 DEF Meanings
<1>4. meant' \in Meanings
  <2>1. OnceMore(g) \in BOOLEAN
    BY DEF OnceMore
  <2> QED  BY <1>1, <1>2, <2>1 DEF Meanings, Result
<1>5. StandFor(conjunctions, meant.all, OnceMore(g))
  BY <1>1 DEF StandFor, OnceMore
<1>6. orConjunctions' \subseteq Within(meant.fields \cup meant.orFields \cup g.fields)
  <2>1. MergeEach(conjunctions, g.conjunctions) \subseteq Within(meant.fields \cup g.fields)
    BY <1>1, MergeWithin DEF Result
  <2> QED  BY <1>1, <1>2, <2>1 DEF Within
<1>7. StandFor(orConjunctions', meant.all \cap (meant.some \cup g.matching), OnceMore(g))
  <2>1. StandFor(MergeEach(conjunctions, g.conjunctions), meant.all \cap g.matching, OnceMore(g))
    BY <1>1, MergeStandsFor DEF Result, OnceMore
  <2>2. StandFor(orConjunctions', (meant.all \cap meant.some) \cup (meant.all \cap g.matching),
                 meant.once /\ OnceMore(g))
    BY <1>1, <1>2, <2>1, UnionStandsFor
  <2>3. (meant.all \cap meant.some) \cup (meant.all \cap g.matching)
           = meant.all \cap (meant.some \cup g.matching)
    OBVIOUS
  <2> QED  BY <2>2, <2>3 DEF OnceMore, StandFor
<1>8. \A x \in returned : Result(x)
  BY DEF FlatteningInv
<1> QED  BY <1>1, <1>2, <1>3, <1>4, <1>5, <1>6, <1>7, <1>8 DEF FlatteningInv

LEMMA ReturnKeeps ==
  ASSUME FlatteningInv, Return
  PROVE  FlatteningInv'
<1> DEFINE new == [conjunctions |-> Flattened, matching |-> Matching, once |-> meant.once,
                   fields |-> meant.fields \cup meant.orFields,
                   depth |-> size.depth, conditions |-> size.conditions]
<1>1. /\ meant \in Meanings
      /\ conjunctions \subseteq Within(meant.fields)
      /\ StandFor(conjunctions, meant.all, meant.once)
      /\ orConjunctions \subseteq Within(meant.fields \cup meant.orFields)
      /\ StandFor(orConjunctions, meant.all \cap meant.some, meant.once)
      /\ \A x \in returned : Result(x)
  BY DEF FlatteningInv
<1>2. Within(meant.fields) \subseteq Within(meant.fields \cup meant.orFields)
  BY WithinMore
<1>3. Result(new)
  <2>1. meant.all \subseteq Rows /\ meant.fields \cup meant.orFields \subseteq Fields
    BY <1>1 DEF Meanings
  <2>2. Flattened \subseteq Within(meant.fields \cup meant.orFields) /\ Matching \subseteq Rows
    BY <1>1, <1>2, <2>1 DEF Flattened, Matching
  <2>3. StandFor(Flattened, Matching, meant.once)
    BY <1>1 DEF Flattened, Matching
  <2> QED  BY <2>1, <2>2, <2>3 DEF Result
<1>4. \A x \in returned' : Result(x)
  BY <1>1, <1>3 DEF Return
<1>5. PICK c \in Leaves : /\ loop' = "AND" /\ conjunctions' = {c} /\ orConjunctions' = {}
                          /\ meant' = LeafMeans(c)
  BY DEF Return
<1>6. StandFor({}, {}, meant'.once)
  BY NothingStandsFor
<1> QED  BY <1>4, <1>5, <1>6, LeafStandsFor DEF FlatteningInv

LEMMA FlatteningInvariant == Flattening => []FlatteningInv
<1>1. InitFlatten => FlatteningInv
  BY LeafStandsFor, NothingStandsFor DEF InitFlatten, FlatteningInv
<1>2. FlatteningInv /\ [Flatten]_<<call, returned>> => FlatteningInv'
  <2> SUFFICES ASSUME FlatteningInv, [Flatten]_<<call, returned>>
               PROVE  FlatteningInv'
    OBVIOUS
  <2>1. CASE Return
    BY <2>1, ReturnKeeps
  <2>2. ASSUME NEW g \in returned, AndClause(g)
        PROVE  FlatteningInv'
    BY <2>2, AndClauseKeeps
  <2>3. ASSUME NEW g \in returned, OrClause(g)
        PROVE  FlatteningInv'
    BY <2>3, OrClauseKeeps
  <2>4. CASE UNCHANGED <<call, returned>>
    BY <2>4 DEF FlatteningInv, call
  <2> QED  BY <2>1, <2>2, <2>3, <2>4 DEF Flatten
<1> QED  BY <1>1, <1>2, PTL DEF Flattening

\* For filters over any fields and values, of any depth and size that the limits allow:
\* flattenToConjunctions only widens a filter, and not even that where no field conflicts.
THEOREM FlatteningSound == Flattening => []FlatteningIsSound
<1>1. FlatteningInv => FlatteningIsSound
  BY DEF FlatteningInv, FlatteningIsSound, Flattened, Matching, StandFor
<1> QED  BY <1>1, FlatteningInvariant, PTL
=============================================================================
