------------------------ MODULE RecordMigration_proofs ------------------------
(***************************************************************************)
(* Proofs about RecordMigration, for tables of any size, any number of     *)
(* migrations up and down and any start: what the migration leaves, and    *)
(* what the application makes of it, has a record for each row and a row   *)
(* for each record.  An error takes back the database as it was at the     *)
(* beginning, so the invariant is stated of both.                          *)
(***************************************************************************)
EXTENDS RecordMigration, TLAPS

IssuanceTable == [Issuances -> [exists: BOOLEAN, record: Ids \cup {None}]]
AsyncTable == [Asyncs -> [exists: BOOLEAN, issuance: Issuances \cup {None},
                          record: Ids \cup {None}, flag: BOOLEAN]]

\* The tables, at any time: foreign keys, records that are not shared within a table,
\* and that a request which shares its record with an issuance names that issuance, as
\* does one whose credential was issued with the ids of its request details.
Sound(iss, asy, rec) ==
  /\ \A i \in Issuances : iss[i].record # None => rec[iss[i].record] # "none" /\ iss[i].exists
  /\ \A a \in Asyncs : asy[a].record # None => rec[asy[a].record] = "row" /\ asy[a].exists
  /\ \A i, j \in Issuances : iss[i].record # None /\ iss[i].record = iss[j].record => i = j
  /\ \A a, b \in Asyncs : asy[a].record # None /\ asy[a].record = asy[b].record => a = b
  /\ \A i \in Issuances, a \in Asyncs :
       iss[i].record # None /\ iss[i].record = asy[a].record => asy[a].issuance = i
  /\ \A d \in details : d.remote # None /\ iss[d.id].exists => asy[d.remote].issuance # None

\* A record made for a row is the record of one.
RecordsLinked(iss, asy, rec) ==
  \A r \in Ids : rec[r] = "row" =>
    \/ \E i \in Issuances : iss[i].exists /\ iss[i].record = r
    \/ \E a \in Asyncs : asy[a].exists /\ asy[a].record = r

\* The record in the details of a request in person is its own, that of a claim is the
\* claimed request's, unless a migration has dropped it.
Reserved(iss, asy, rec) ==
  /\ \A d \in details : d.remote = None =>
       /\ rec[d.record] \in {"none", "inPerson"}
       /\ \A i \in Issuances : iss[i].record = d.record => i = d.id
       /\ rec[d.record] = "inPerson" /\ iss[d.id].exists => iss[d.id].record = d.record
  /\ \A d \in details : d.remote # None /\ rec[d.record] # "none" =>
       asy[d.remote].record = d.record

IssuancesLinked(iss) == \A i \in Issuances : iss[i].exists => iss[i].record # None
AsyncsLinked(asy) == \A a \in Asyncs : asy[a].exists => asy[a].record # None

\* The state after any number of migrations, or none.
Settled(h, iss, asy, rec) ==
  /\ Sound(iss, asy, rec) /\ RecordsLinked(iss, asy, rec) /\ Reserved(iss, asy, rec)
  /\ h = Structures => IssuancesLinked(iss) /\ AsyncsLinked(asy)

TablesInv ==
  /\ Sound(issuance, async, record)
  /\ step # "dropTable" => RecordsLinked(issuance, async, record) /\ Reserved(issuance, async, record)
  /\ step = "dropTable" => /\ \A i \in Issuances : issuance[i].record = None
                           /\ \A a \in Asyncs : async[a].record = None

\* No two requests have the same id for their issuance, nor has another the record of
\* one in person.
DetailsInv ==
  \A d, e \in details : d.id = e.id \/ (d.remote = None /\ d.record = e.record) => d = e

StepInv ==
  /\ step \in {"dropLinks", "dropTable"} => "flag" \notin has
  /\ step \in {"asyncs", "notNull", "unique", "flag"} => IssuancesLinked(issuance)
  /\ step \in {"notNull", "unique", "flag"} => AsyncsLinked(async)
  /\ step \in {"none", "commit"} /\ has = Structures =>
       IssuancesLinked(issuance) /\ AsyncsLinked(async)

BeforeInv ==
  /\ before \in [has: SUBSET Structures, issuance: IssuanceTable, async: AsyncTable,
                 messages: [Asyncs -> SUBSET Messages], record: [Ids -> Records]]
  /\ step # "none" => Settled(before.has, before.issuance, before.async, before.record)

IInv == TypeOK /\ TablesInv /\ DetailsInv /\ StepInv /\ BeforeInv /\ LinksKept

-----------------------------------------------------------------------------
LEMMA Tables ==
  ASSUME TypeOK
  PROVE  /\ issuance \in IssuanceTable /\ async \in AsyncTable
         /\ Rows(issuance) = {i \in Issuances : issuance[i].exists}
         /\ Rows(async) = {a \in Asyncs : async[a].exists}
         /\ Unlinked(issuance) = {i \in Issuances : issuance[i].exists /\ issuance[i].record = None}
         /\ Unlinked(async) = {a \in Asyncs : async[a].exists /\ async[a].record = None}
  BY DEF TypeOK, IssuanceTable, AsyncTable, Rows, Unlinked

LEMMA InitRowsBlank ==
  ASSUME InitRows
  PROVE  /\ issuance \in IssuanceTable /\ async \in AsyncTable
         /\ messages \in [Asyncs -> SUBSET Messages]
         /\ \A i \in Issuances : issuance[i].record = None
         /\ \A a \in Asyncs : async[a].record = None
<1>1. /\ NoIssuance \in [exists: BOOLEAN, record: {None}]
      /\ [NoIssuance EXCEPT !.exists = TRUE] \in [exists: BOOLEAN, record: {None}]
  BY DEF NoIssuance
<1>2. issuance \in [Issuances -> [exists: BOOLEAN, record: {None}]]
  BY <1>1 DEF InitRows
<1>3. NoAsync \in [exists: BOOLEAN, issuance: Issuances \cup {None}, record: {None}, flag: BOOLEAN]
  BY DEF NoAsync
<1>4. \A i \in Issuances \cup {None} :
        [NoAsync EXCEPT !.exists = TRUE, !.issuance = i]
          \in [exists: BOOLEAN, issuance: Issuances \cup {None}, record: {None}, flag: BOOLEAN]
  BY DEF NoAsync
<1>5. Rows(issuance) \subseteq Issuances
  BY <1>2 DEF Rows
<1>6. async \in [Asyncs -> [exists: BOOLEAN, issuance: Issuances \cup {None}, record: {None},
                            flag: BOOLEAN]]
  <2> DEFINE S == [exists: BOOLEAN, issuance: Issuances \cup {None}, record: {None}, flag: BOOLEAN]
             T == {NoAsync} \cup {[NoAsync EXCEPT !.exists = TRUE, !.issuance = i] :
                                    i \in Rows(issuance) \cup {None}}
  <2>1. T \subseteq S
    BY <1>3, <1>4, <1>5
  <2>2. async \in [Asyncs -> T]
    BY DEF InitRows
  <2> HIDE DEF S, T
  <2>3. async \in [Asyncs -> S]
    BY <2>1, <2>2
  <2> QED  BY <2>3 DEF S
<1>7. issuance \in IssuanceTable /\ async \in AsyncTable
  BY <1>2, <1>6 DEF IssuanceTable, AsyncTable
<1> QED  BY <1>2, <1>6, <1>7 DEF InitRows

\* What holds of the tables at first.
Fresh ==
  /\ has \subseteq Structures
  /\ issuance \in IssuanceTable /\ async \in AsyncTable
  /\ messages \in [Asyncs -> SUBSET Messages] /\ record \in [Ids -> Records]
  /\ \A i \in Issuances : issuance[i].record # None =>
       record[issuance[i].record] # "none" /\ issuance[i].exists
  /\ \A a \in Asyncs : async[a].record = None
  /\ \A i, j \in Issuances : issuance[i].record # None /\ issuance[i].record = issuance[j].record => i = j
  /\ \A r \in Ids : record[r] # "row"
  /\ has = Structures =>
       (\A i \in Issuances : ~issuance[i].exists) /\ (\A a \in Asyncs : ~async[a].exists)

LEMMA InitFresh == Init => Fresh
<1> SUFFICES ASSUME Init PROVE Fresh
  OBVIOUS
<1>1. CASE has = {} /\ InitRows /\ record = [r \in Ids |-> "none"]
  <2>1. has # Structures
    BY <1>1 DEF Structures
  <2> QED  BY <1>1, <2>1, InitRowsBlank DEF Fresh, Records
<1>2. CASE has = Structures /\ InitEmpty /\ record = [r \in Ids |-> "none"]
  BY <1>2 DEF InitEmpty, IssuanceTable, AsyncTable, NoIssuance, NoAsync, Records, Fresh
<1>3. CASE /\ has = {"table", "links"} /\ async = [a \in Asyncs |-> NoAsync]
           /\ messages = [a \in Asyncs |-> {}]
           /\ \E r \in Ids :
                /\ record = [q \in Ids |-> IF q = r THEN "bare" ELSE "none"]
                /\ issuance \in [Issuances -> {NoIssuance, [exists |-> TRUE, record |-> r]}]
                /\ \E i \in Rows(issuance) : Rows(issuance) = {i}
  <2>1. PICK r \in Ids :
          /\ record = [q \in Ids |-> IF q = r THEN "bare" ELSE "none"]
          /\ issuance \in [Issuances -> {NoIssuance, [exists |-> TRUE, record |-> r]}]
          /\ \E i \in Rows(issuance) : Rows(issuance) = {i}
    BY <1>3
  <2>2. \A i \in Issuances : issuance[i] \in {NoIssuance, [exists |-> TRUE, record |-> r]}
    BY <2>1
  <2>3. issuance \in IssuanceTable
    <3>1. {NoIssuance, [exists |-> TRUE, record |-> r]} \subseteq [exists: BOOLEAN, record: Ids \cup {None}]
      BY DEF NoIssuance
    <3> QED  BY <2>1, <3>1 DEF IssuanceTable
  <2>4. record \in [Ids -> Records] /\ record[r] = "bare" /\ \A q \in Ids : record[q] # "row"
    BY <2>1 DEF Records
  <2>5. \A i \in Issuances : issuance[i].record # None =>
          issuance[i].record = r /\ issuance[i].exists
    BY <2>2 DEF NoIssuance
  <2>6. async \in AsyncTable /\ (\A a \in Asyncs : async[a].record = None)
        /\ messages \in [Asyncs -> SUBSET Messages] /\ (\A a \in Asyncs : messages[a] = {})
    BY <1>3 DEF AsyncTable, NoAsync
  <2>7. has \subseteq Structures /\ has # Structures
    BY <1>3 DEF Structures
  <2>8. \A i, j \in Issuances : issuance[i].record # None /\ issuance[i].record = issuance[j].record => i = j
    <3>1. \A i \in Issuances : issuance[i].record # None => i \in Rows(issuance)
      BY <2>1, <2>5 DEF Rows
    <3>2. \A i, j \in Rows(issuance) : i = j
      BY <2>1
    <3> QED  BY <3>1, <3>2
  <2> QED  BY <2>3, <2>4, <2>5, <2>6, <2>7, <2>8 DEF Fresh
<1> QED  BY <1>1, <1>2, <1>3 DEF Init

LEMMA InitIInv == Init => IInv
<1> SUFFICES ASSUME Init PROVE IInv
  OBVIOUS
<1> USE MigrationConstants
<1>1. Fresh
  BY InitFresh
<1>2. step = "none" /\ before = Database /\ migrations = 0 /\ details = {} /\ stale = {}
  BY DEF Init
<1>3. TypeOK
  BY <1>1, <1>2 DEF Fresh, TypeOK, IssuanceTable, AsyncTable
<1>4. TablesInv
  BY <1>1, <1>2 DEF Fresh, TablesInv, Sound, RecordsLinked, Reserved
<1>5. StepInv
  BY <1>1, <1>2 DEF Fresh, StepInv, IssuancesLinked, AsyncsLinked
<1>6. BeforeInv /\ LinksKept /\ DetailsInv
  BY <1>1, <1>2 DEF Fresh, BeforeInv, Database, LinksKept, DetailsInv
<1> QED  BY <1>3, <1>4, <1>5, <1>6 DEF IInv

-----------------------------------------------------------------------------
(* The migration. *)

LEMMA BeginKeeps ==
  ASSUME IInv, step = "none", NEW s \in {"table", "dropFlag"}, Begin(s)
  PROVE  IInv'
<1> USE DEF Begin, rows, held
<1>1. /\ UNCHANGED <<has, issuance, async, messages, record, details, stale>>
      /\ step' = s /\ before' = Database /\ migrations' = migrations + 1
      /\ migrations < MaxMigrations
  OBVIOUS
<1>2. TypeOK'
  BY <1>1, MigrationConstants DEF IInv, TypeOK
<1>3. TablesInv' /\ DetailsInv'
  BY <1>1 DEF IInv, TablesInv, DetailsInv, Sound, RecordsLinked, Reserved
<1>4. StepInv'
  BY <1>1 DEF StepInv
<1>5. BeforeInv'
  <2>1. Settled(has, issuance, async, record)
    BY DEF IInv, TablesInv, StepInv, Settled
  <2> QED  BY <1>1, <2>1 DEF IInv, TypeOK, BeforeInv, Database, IssuanceTable, AsyncTable,
            Settled, Sound, RecordsLinked, Reserved, IssuancesLinked, AsyncsLinked
<1>6. LinksKept'
  BY <1>1 DEF LinksKept, Database
<1> QED  BY <1>2, <1>3, <1>4, <1>5, <1>6 DEF IInv

\* The statements that change no row.
LEMMA StructureKeeps ==
  ASSUME IInv, CreateTable \/ EnforceNotNull \/ CreateUniqueIndexes \/ Commit
  PROVE  IInv'
<1> USE DEF rows, held, Goto, CreateTable, EnforceNotNull, CreateUniqueIndexes, Commit
<1>1. /\ UNCHANGED <<issuance, async, messages, record, before, migrations, details, stale>>
      /\ step \in {"table", "notNull", "unique", "commit"}
      /\ step' \in {"issuances", "unique", "flag", "none"}
  OBVIOUS
<1>2. TypeOK'
  BY <1>1 DEF IInv, TypeOK, Structures
<1>3. TablesInv' /\ DetailsInv'
  BY <1>1 DEF IInv, TablesInv, DetailsInv, Sound, RecordsLinked, Reserved
<1>4. StepInv'
  <2>1. CASE CreateTable
    BY <1>1, <2>1 DEF IInv, StepInv
  <2>2. CASE EnforceNotNull \/ CreateUniqueIndexes \/ Commit
    <3>1. /\ step' \in {"unique", "flag"} => step \in {"notNull", "unique"}
          /\ step' = "none" => step = "commit" /\ has' = has
          /\ step' # "issuances"
      BY <2>2
    <3> QED  BY <1>1, <3>1 DEF IInv, StepInv, IssuancesLinked, AsyncsLinked
  <2> QED  BY <2>1, <2>2
<1>5. BeforeInv'
  BY <1>1 DEF IInv, BeforeInv, Settled, Sound, RecordsLinked, Reserved, IssuancesLinked,
     AsyncsLinked
<1>6. LinksKept'
  BY <1>1 DEF IInv, LinksKept
<1> QED  BY <1>2, <1>3, <1>4, <1>5, <1>6 DEF IInv

\* What a statement that changes rows leaves alone.
LEMMA StatementKeeps ==
  ASSUME IInv, step # "none", UNCHANGED <<before, migrations, held>>
  PROVE  BeforeInv' /\ DetailsInv' /\ UNCHANGED <<details, stale>>
<1>1. UNCHANGED <<before, details, stale>>
  BY DEF held
<1>2. BeforeInv'
  BY <1>1 DEF IInv, BeforeInv, Settled, Sound, RecordsLinked, Reserved, IssuancesLinked,
     AsyncsLinked
<1>3. DetailsInv'
  BY <1>1 DEF IInv, DetailsInv
<1> QED  BY <1>1, <1>2, <1>3

LEMMA BackfillIssuancesKeeps == IInv /\ BackfillIssuances => IInv'
<1> SUFFICES ASSUME IInv, BackfillIssuances PROVE IInv'
  OBVIOUS
<1> USE MigrationConstants
<1>1. PICK f \in NewIds(ToBackfill(issuance)) :
        /\ InsertRecords(ToBackfill(issuance), f)
        /\ issuance' = Link(issuance, Unlinked(issuance), f)
  BY DEF BackfillIssuances
<1> DEFINE X == {i \in Issuances : issuance[i].exists /\ issuance[i].record = None}
<1>2. /\ issuance \in IssuanceTable /\ async \in AsyncTable /\ Unlinked(issuance) = X
      /\ record \in [Ids -> Records]
  BY Tables DEF IInv, TypeOK
<1>3. /\ step = "issuances" /\ step' = "asyncs"
      /\ UNCHANGED <<has, async, messages, before, migrations, held>>
      /\ UNCHANGED <<details, stale>>
  BY DEF BackfillIssuances, Goto, held
<1>4. f \in [X -> Unused] /\ \A x, y \in X : f[x] = f[y] => x = y
  BY <1>1, <1>2 DEF NewIds, ToBackfill
<1>5. \A x \in X : /\ f[x] \in Ids /\ record[f[x]] = "none"
                   /\ \A d \in details : d.record # f[x]
  BY <1>4 DEF Unused
<1>6. record' = [r \in Ids |-> IF \E x \in X : f[x] = r THEN "row" ELSE record[r]]
  BY <1>1, <1>2 DEF InsertRecords, ToBackfill
<1>7. /\ \A i \in X : issuance'[i].record = f[i] /\ issuance'[i].exists
      /\ \A i \in Issuances \ X : issuance'[i] = issuance[i]
      /\ issuance' \in IssuanceTable
  <2>1. issuance' = [i \in Issuances |-> IF i \in X THEN [issuance[i] EXCEPT !.record = f[i]]
                                         ELSE issuance[i]]
    BY <1>1, <1>2 DEF Link, IssuanceTable
  <2>2. \A i \in X : [issuance[i] EXCEPT !.record = f[i]] \in [exists: BOOLEAN, record: Ids \cup {None}]
    BY <1>2, <1>5 DEF IssuanceTable
  <2>3. issuance' \in IssuanceTable
    BY <1>2, <2>1, <2>2 DEF IssuanceTable
  <2>4. \A i \in X : issuance'[i].record = f[i] /\ issuance'[i].exists
    BY <1>2, <2>1 DEF IssuanceTable
  <2> QED  BY <2>1, <2>3, <2>4
<1>8. record' \in [Ids -> Records] /\ \A r \in Ids : record[r] # "none" => record'[r] # "none"
  BY <1>2, <1>6 DEF Records
<1>9. \A r \in Ids : record[r] = "row" => record'[r] = "row"
  BY <1>6
<1>10. /\ Sound(issuance, async, record) /\ RecordsLinked(issuance, async, record)
       /\ Reserved(issuance, async, record)
       /\ details \subseteq [id: Issuances, record: Ids, remote: Asyncs \cup {None}]
  BY <1>3 DEF IInv, TablesInv, TypeOK
<1> HIDE DEF X
<1>11. \A i \in Issuances : issuance'[i].record # None =>
         record'[issuance'[i].record] # "none" /\ issuance'[i].exists
  <2> SUFFICES ASSUME NEW i \in Issuances, issuance'[i].record # None
               PROVE  record'[issuance'[i].record] # "none" /\ issuance'[i].exists
    OBVIOUS
  <2>1. CASE i \in X
    BY <1>5, <1>6, <1>7, <2>1
  <2>2. CASE i \notin X
    BY <1>2, <1>7, <1>8, <1>10, <2>2 DEF Sound, IssuanceTable
  <2> QED  BY <2>1, <2>2
<1>12. \A a \in Asyncs : async[a].record # None => record'[async[a].record] = "row" /\ async[a].exists
  BY <1>2, <1>9, <1>10 DEF Sound, AsyncTable
<1>13. \A i \in Issuances, a \in Asyncs :
         issuance'[i].record # None /\ issuance'[i].record = async[a].record => async[a].issuance = i
  <2> SUFFICES ASSUME NEW i \in Issuances, NEW a \in Asyncs, issuance'[i].record # None,
                      issuance'[i].record = async[a].record
               PROVE  async[a].issuance = i
    OBVIOUS
  <2>1. CASE i \in X
    <3>1. record[async[a].record] = "none"
      BY <1>5, <1>7, <2>1
    <3> QED  BY <1>10, <3>1 DEF Sound
  <2>2. CASE i \notin X
    BY <1>7, <1>10, <2>2 DEF Sound
  <2> QED  BY <2>1, <2>2
<1>14. Sound(issuance, async, record)'
  <2>1. \A i, j \in Issuances : issuance'[i].record # None
          /\ issuance'[i].record = issuance'[j].record => i = j
    <3> SUFFICES ASSUME NEW i \in Issuances, NEW j \in Issuances, issuance'[i].record # None,
                        issuance'[i].record = issuance'[j].record
                 PROVE  i = j
      OBVIOUS
    <3>1. \A k \in Issuances : issuance[k].record # None => record[issuance[k].record] # "none"
      BY <1>10 DEF Sound
    <3>2. CASE i \in X /\ j \in X  BY <1>4, <1>7, <3>2
    <3>3. CASE i \notin X /\ j \notin X  BY <1>7, <1>10, <3>3 DEF Sound
    <3>4. CASE i \in X /\ j \notin X  BY <1>5, <1>7, <3>1, <3>4
    <3>5. CASE i \notin X /\ j \in X  BY <1>5, <1>7, <3>1, <3>5
    <3> QED  BY <3>2, <3>3, <3>4, <3>5
  <2>2. \A d \in details : d.remote # None /\ issuance'[d.id].exists =>
          async[d.remote].issuance # None
    <3>1. \A i \in Issuances : issuance'[i].exists => issuance[i].exists
      BY <1>7 DEF X
    <3> QED  BY <1>10, <3>1 DEF Sound
  <2>3. /\ \A a, b \in Asyncs : async[a].record # None /\ async[a].record = async[b].record => a = b
    BY <1>10 DEF Sound
  <2> QED  BY <1>3, <1>11, <1>12, <1>13, <2>1, <2>2, <2>3 DEF Sound
<1>15. RecordsLinked(issuance, async, record)'
  <2> SUFFICES ASSUME NEW r \in Ids, record'[r] = "row"
               PROVE  \/ \E i \in Issuances : issuance'[i].exists /\ issuance'[i].record = r
                      \/ \E a \in Asyncs : async[a].exists /\ async[a].record = r
    BY <1>3 DEF RecordsLinked
  <2>1. CASE \E x \in X : f[x] = r
    BY <1>7, <2>1 DEF X
  <2>2. CASE record[r] = "row"
    <3>1. \A i \in Issuances : issuance[i].record = r => i \notin X
      BY DEF X
    <3> QED  BY <1>7, <1>10, <2>2, <3>1 DEF RecordsLinked
  <2> QED  BY <1>6, <2>1, <2>2
<1>16. TypeOK'
  BY <1>3, <1>7, <1>8, <1>11, <1>12, <1>2 DEF IInv, TypeOK, IssuanceTable, AsyncTable
<1>17. LinksKept'
  <2>1. \A i \in Issuances : before.issuance[i].record # None => i \notin X
    BY <1>3 DEF IInv, LinksKept, X
  <2> QED  BY <1>3, <1>7, <2>1 DEF IInv, LinksKept
<1>18. Reserved(issuance, async, record)'
  <2>1. \A d \in details : record'[d.record] = record[d.record]
    BY <1>5, <1>6, <1>10
  <2>2. \A i \in Issuances, d \in details :
          issuance'[i].record = d.record <=> issuance[i].record = d.record
    BY <1>5, <1>7, <1>10 DEF X
  <2>3. \A d \in details : issuance'[d.id].exists <=> issuance[d.id].exists
    BY <1>7, <1>10 DEF X
  <2> QED  BY <1>3, <1>10, <2>1, <2>2, <2>3 DEF Reserved
<1>19. StepInv' /\ TablesInv'
  <2>1. \A i \in Issuances : issuance'[i].exists => issuance'[i].record # None
    BY <1>5, <1>7 DEF X
  <2> QED  BY <1>3, <1>14, <1>15, <1>18, <2>1 DEF StepInv, TablesInv, IssuancesLinked
<1> QED  BY <1>3, <1>16, <1>17, <1>18, <1>19, StatementKeeps DEF IInv

LEMMA BackfillAsyncsKeeps == IInv /\ BackfillAsyncs => IInv'
<1> SUFFICES ASSUME IInv, BackfillAsyncs PROVE IInv'
  OBVIOUS
<1> USE MigrationConstants
<1>1. PICK f \in NewIds(ToBackfill(async)) :
        /\ InsertRecords(ToBackfill(async), f)
        /\ async' = Link(async, Unlinked(async), f)
  BY DEF BackfillAsyncs
<1> DEFINE X == {a \in Asyncs : async[a].exists /\ async[a].record = None}
<1>2. /\ issuance \in IssuanceTable /\ async \in AsyncTable /\ Unlinked(async) = X
      /\ record \in [Ids -> Records]
  BY Tables DEF IInv, TypeOK
<1>3. /\ step = "asyncs" /\ step' = "notNull"
      /\ UNCHANGED <<has, issuance, messages, before, migrations, held>>
      /\ UNCHANGED <<details, stale>>
  BY DEF BackfillAsyncs, Goto, held
<1>4. f \in [X -> Unused] /\ \A x, y \in X : f[x] = f[y] => x = y
  BY <1>1, <1>2 DEF NewIds, ToBackfill
<1>5. \A x \in X : /\ f[x] \in Ids /\ record[f[x]] = "none"
                   /\ \A d \in details : d.record # f[x]
  BY <1>4 DEF Unused
<1>6. record' = [r \in Ids |-> IF \E x \in X : f[x] = r THEN "row" ELSE record[r]]
  BY <1>1, <1>2 DEF InsertRecords, ToBackfill
<1>7. /\ \A a \in X : async'[a].record = f[a] /\ async'[a].exists
      /\ \A a \in Asyncs \ X : async'[a] = async[a]
      /\ \A a \in Asyncs : async'[a].exists = async[a].exists /\ async'[a].issuance = async[a].issuance
      /\ async' \in AsyncTable
  <2>1. async' = [a \in Asyncs |-> IF a \in X THEN [async[a] EXCEPT !.record = f[a]] ELSE async[a]]
    BY <1>1, <1>2 DEF Link, AsyncTable
  <2>2. \A a \in X : [async[a] EXCEPT !.record = f[a]]
          \in [exists: BOOLEAN, issuance: Issuances \cup {None}, record: Ids \cup {None}, flag: BOOLEAN]
    BY <1>2, <1>5 DEF AsyncTable
  <2>3. async' \in AsyncTable
    BY <1>2, <2>1, <2>2 DEF AsyncTable
  <2>4. \A a \in X : async'[a].record = f[a] /\ async'[a].exists
    BY <1>2, <2>1 DEF AsyncTable
  <2>5. \A a \in Asyncs : async'[a].exists = async[a].exists /\ async'[a].issuance = async[a].issuance
    BY <1>2, <2>1 DEF AsyncTable
  <2> QED  BY <2>1, <2>3, <2>4, <2>5
<1>8. record' \in [Ids -> Records] /\ \A r \in Ids : record[r] # "none" => record'[r] # "none"
  BY <1>2, <1>6 DEF Records
<1>9. \A r \in Ids : record[r] = "row" => record'[r] = "row"
  BY <1>6
<1>10. /\ Sound(issuance, async, record) /\ RecordsLinked(issuance, async, record)
       /\ Reserved(issuance, async, record)
       /\ details \subseteq [id: Issuances, record: Ids, remote: Asyncs \cup {None}]
  BY <1>3 DEF IInv, TablesInv, TypeOK
<1> HIDE DEF X
<1>11. \A i \in Issuances : issuance[i].record # None =>
         record'[issuance[i].record] # "none" /\ issuance[i].exists
  BY <1>2, <1>8, <1>10 DEF Sound, IssuanceTable
<1>12. \A a \in Asyncs : async'[a].record # None =>
         record'[async'[a].record] = "row" /\ async'[a].exists
  <2> SUFFICES ASSUME NEW a \in Asyncs, async'[a].record # None
               PROVE  record'[async'[a].record] = "row" /\ async'[a].exists
    OBVIOUS
  <2>1. CASE a \in X
    BY <1>5, <1>6, <1>7, <2>1
  <2>2. CASE a \notin X
    BY <1>2, <1>7, <1>9, <1>10, <2>2 DEF Sound, AsyncTable
  <2> QED  BY <2>1, <2>2
<1>13. \A i \in Issuances, a \in Asyncs :
         issuance[i].record # None /\ issuance[i].record = async'[a].record => async'[a].issuance = i
  <2> SUFFICES ASSUME NEW i \in Issuances, NEW a \in Asyncs, issuance[i].record # None,
                      issuance[i].record = async'[a].record
               PROVE  async'[a].issuance = i
    OBVIOUS
  <2>1. CASE a \in X
    <3>1. record[issuance[i].record] = "none"
      BY <1>5, <1>7, <2>1
    <3> QED  BY <1>10, <3>1 DEF Sound
  <2>2. CASE a \notin X
    BY <1>7, <1>10, <2>2 DEF Sound
  <2> QED  BY <2>1, <2>2
<1>14. Sound(issuance, async, record)'
  <2>1. \A a, b \in Asyncs : async'[a].record # None /\ async'[a].record = async'[b].record => a = b
    <3> SUFFICES ASSUME NEW a \in Asyncs, NEW b \in Asyncs, async'[a].record # None,
                        async'[a].record = async'[b].record
                 PROVE  a = b
      OBVIOUS
    <3>1. \A c \in Asyncs : async[c].record # None => record[async[c].record] = "row"
      BY <1>10 DEF Sound
    <3>2. CASE a \in X /\ b \in X  BY <1>4, <1>7, <3>2
    <3>3. CASE a \notin X /\ b \notin X  BY <1>7, <1>10, <3>3 DEF Sound
    <3>4. CASE a \in X /\ b \notin X  BY <1>5, <1>7, <3>1, <3>4
    <3>5. CASE a \notin X /\ b \in X  BY <1>5, <1>7, <3>1, <3>5
    <3> QED  BY <3>2, <3>3, <3>4, <3>5
  <2>2. \A d \in details : d.remote # None /\ issuance[d.id].exists =>
          async'[d.remote].issuance # None
    BY <1>7, <1>10 DEF Sound
  <2>3. /\ \A i, j \in Issuances : issuance[i].record # None
             /\ issuance[i].record = issuance[j].record => i = j
    BY <1>10 DEF Sound
  <2> QED  BY <1>3, <1>11, <1>12, <1>13, <2>1, <2>2, <2>3 DEF Sound
<1>15. RecordsLinked(issuance, async, record)'
  <2> SUFFICES ASSUME NEW r \in Ids, record'[r] = "row"
               PROVE  \/ \E i \in Issuances : issuance[i].exists /\ issuance[i].record = r
                      \/ \E a \in Asyncs : async'[a].exists /\ async'[a].record = r
    BY <1>3 DEF RecordsLinked
  <2>1. CASE \E x \in X : f[x] = r
    BY <1>7, <2>1 DEF X
  <2>2. CASE record[r] = "row"
    <3>1. \A a \in Asyncs : async[a].record = r => a \notin X
      BY DEF X
    <3> QED  BY <1>7, <1>10, <2>2, <3>1 DEF RecordsLinked
  <2> QED  BY <1>6, <2>1, <2>2
<1>16. TypeOK'
  BY <1>3, <1>7, <1>8, <1>11, <1>12, <1>2 DEF IInv, TypeOK, IssuanceTable, AsyncTable
<1>17. LinksKept'
  <2>1. \A a \in Asyncs : before.async[a].record # None => a \notin X
    BY <1>3 DEF IInv, LinksKept, X
  <2> QED  BY <1>3, <1>7, <2>1 DEF IInv, LinksKept
<1>18. Reserved(issuance, async, record)'
  <2>1. \A d \in details : record'[d.record] = record[d.record]
    BY <1>5, <1>6, <1>10
  <2>2. \A a \in Asyncs, d \in details :
          async'[a].record = d.record <=> async[a].record = d.record
    BY <1>5, <1>7, <1>10 DEF X
  <2> QED  BY <1>3, <1>10, <2>1, <2>2 DEF Reserved
<1>19. StepInv' /\ TablesInv'
  <2>1. \A a \in Asyncs : async'[a].exists => async'[a].record # None
    BY <1>5, <1>7 DEF X
  <2>2. IssuancesLinked(issuance)'
    BY <1>3 DEF IInv, StepInv, IssuancesLinked
  <2> QED  BY <1>3, <1>14, <1>15, <1>18, <2>1, <2>2 DEF StepInv, TablesInv, AsyncsLinked
<1> QED  BY <1>3, <1>16, <1>17, <1>18, <1>19, StatementKeeps DEF IInv

\* The statements that set or clear the flag.
LEMMA FlagKeeps ==
  ASSUME IInv, BackfillFlag \/ DropFlag
  PROVE  IInv'
<1>1. /\ UNCHANGED <<issuance, messages, record, before, migrations, held, details, stale>>
      /\ step \in {"flag", "dropFlag"} /\ step' \in {"commit", "dropLinks"}
      /\ has' \subseteq Structures /\ (step' = "dropLinks" => "flag" \notin has')
      /\ step' = "commit" => step = "flag"
  BY DEF BackfillFlag, DropFlag, Goto, held, IInv, TypeOK, Structures
<1>2. async \in AsyncTable
  BY Tables DEF IInv
<1>3. /\ async' \in AsyncTable
      /\ \A a \in Asyncs : /\ async'[a].exists = async[a].exists
                           /\ async'[a].record = async[a].record
                           /\ async'[a].issuance = async[a].issuance
  <2>1. CASE BackfillFlag
    <3>1. \A a \in Asyncs : (async[a].flag \/ Flagged(a)) \in BOOLEAN
      BY <1>2 DEF AsyncTable, Flagged
    <3> QED  BY <1>2, <2>1, <3>1 DEF BackfillFlag, AsyncTable
  <2>2. CASE DropFlag
    BY <1>2, <2>2 DEF DropFlag, AsyncTable
  <2> QED  BY <2>1, <2>2
<1>4. TypeOK'
  BY <1>1, <1>3 DEF IInv, TypeOK, AsyncTable
<1>5. TablesInv'
  <2>1. details \subseteq [id: Issuances, record: Ids, remote: Asyncs \cup {None}]
    BY DEF IInv, TypeOK
  <2>2. Sound(issuance, async, record) /\ RecordsLinked(issuance, async, record)
        /\ Reserved(issuance, async, record)
    BY <1>1 DEF IInv, TablesInv
  <2>3. Sound(issuance, async, record)'
    BY <1>1, <1>3, <2>1, <2>2 DEF Sound
  <2>4. RecordsLinked(issuance, async, record)' /\ Reserved(issuance, async, record)'
    BY <1>1, <1>3, <2>1, <2>2 DEF RecordsLinked, Reserved
  <2> QED  BY <1>1, <2>3, <2>4 DEF TablesInv
<1>6. StepInv' /\ LinksKept'
  BY <1>1, <1>3 DEF IInv, StepInv, LinksKept, IssuancesLinked, AsyncsLinked
<1>7. step # "none"
  BY <1>1
<1> QED  BY <1>1, <1>4, <1>5, <1>6, <1>7, StatementKeeps DEF IInv

LEMMA DropKeeps ==
  ASSUME IInv, DropLinks \/ DropTable
  PROVE  IInv'
<1> USE MigrationConstants
<1>1. /\ UNCHANGED <<messages, before, migrations, held, details, stale>>
      /\ step # "none"
      /\ step \in {"dropLinks", "dropTable"} /\ step' \in {"dropTable", "commit"}
      /\ has' \subseteq Structures /\ "flag" \notin has'
  BY DEF DropLinks, DropTable, Goto, held, IInv, TypeOK, StepInv, Structures
<1>2. issuance \in IssuanceTable /\ async \in AsyncTable /\ record \in [Ids -> Records]
  BY Tables DEF IInv, TypeOK
<1>3. /\ issuance' \in IssuanceTable /\ async' \in AsyncTable /\ record' \in [Ids -> Records]
      /\ \A i \in Issuances : issuance'[i].record = None
      /\ \A i \in Issuances : issuance'[i].exists = issuance[i].exists
      /\ \A a \in Asyncs : async'[a].record = None /\ async'[a].issuance = async[a].issuance
  <2>1. CASE DropLinks
    <3>1. /\ issuance' = [i \in Issuances |-> [issuance[i] EXCEPT !.record = None]]
          /\ async' = [a \in Asyncs |-> [async[a] EXCEPT !.record = None]]
          /\ record' = record
      BY <2>1 DEF DropLinks
    <3>2. /\ issuance' \in IssuanceTable
          /\ \A i \in Issuances : issuance'[i].record = None /\ issuance'[i].exists = issuance[i].exists
      BY <1>2, <3>1 DEF IssuanceTable
    <3>3. /\ async' \in AsyncTable
          /\ \A a \in Asyncs : async'[a].record = None /\ async'[a].issuance = async[a].issuance
      BY <1>2, <3>1 DEF AsyncTable
    <3> QED  BY <1>2, <3>1, <3>2, <3>3
  <2>2. CASE DropTable
    BY <1>2, <2>2 DEF DropTable, IInv, TablesInv, Records
  <2> QED  BY <2>1, <2>2
<1>4. step' = "commit" => \A r \in Ids : record'[r] = "none"
  BY DEF DropLinks, DropTable, Goto
<1>5. step' # "dropTable" => step' = "commit"
  BY <1>1
<1>6. TypeOK'
  BY <1>1, <1>3 DEF IInv, TypeOK, IssuanceTable, AsyncTable
<1>7. TablesInv'
  <2>1. details \subseteq [id: Issuances, record: Ids, remote: Asyncs \cup {None}]
    BY DEF IInv, TypeOK
  <2>2. \A d \in details : d.remote # None /\ issuance[d.id].exists => async[d.remote].issuance # None
    BY DEF IInv, TablesInv, Sound
  <2>3. Sound(issuance, async, record)'
    BY <1>1, <1>3, <2>1, <2>2 DEF Sound
  <2>4. step' = "commit" => RecordsLinked(issuance, async, record)' /\ Reserved(issuance, async, record)'
    BY <1>1, <1>3, <1>4, <2>1 DEF RecordsLinked, Reserved
  <2> QED  BY <1>1, <1>3, <2>3, <2>4 DEF TablesInv
<1>8. StepInv' /\ LinksKept'
  BY <1>1 DEF StepInv, Structures, LinksKept
<1> QED  BY <1>1, <1>6, <1>7, <1>8, StatementKeeps DEF IInv

LEMMA RollBackKeeps == IInv /\ RollBack => IInv'
<1> SUFFICES ASSUME IInv, RollBack PROVE IInv'
  OBVIOUS
<1>1. /\ step # "none" /\ step' = "none"
      /\ UNCHANGED <<before, migrations, held, details, stale>>
      /\ has' = before.has /\ issuance' = before.issuance /\ async' = before.async
      /\ messages' = before.messages /\ record' = before.record
  BY DEF RollBack, Goto, held
<1>2. Settled(before.has, before.issuance, before.async, before.record)
  BY <1>1 DEF IInv, BeforeInv
<1>3. /\ has' \subseteq Structures /\ issuance' \in IssuanceTable /\ async' \in AsyncTable
      /\ messages' \in [Asyncs -> SUBSET Messages] /\ record' \in [Ids -> Records]
  BY <1>1 DEF IInv, BeforeInv
<1>4. Settled(has, issuance, async, record)'
  BY <1>1, <1>2 DEF Settled, Sound, RecordsLinked, Reserved, IssuancesLinked, AsyncsLinked
<1>5. TypeOK'
  BY <1>1, <1>3, <1>4 DEF IInv, TypeOK, Settled, Sound, IssuanceTable, AsyncTable
<1>6. TablesInv' /\ StepInv' /\ LinksKept'
  BY <1>1, <1>4 DEF Settled, TablesInv, StepInv, LinksKept
<1> QED  BY <1>1, <1>5, <1>6, StatementKeeps DEF IInv

-----------------------------------------------------------------------------
(* The application. *)

Details == [id: Issuances, record: Ids, remote: Asyncs \cup {None}]

\* It keeps whatever the migrations keep, if it keeps what it finds.
LEMMA ServeKeeps ==
  ASSUME IInv, Serving, UNCHANGED migrating,
         issuance' \in IssuanceTable, async' \in AsyncTable,
         messages' \in [Asyncs -> SUBSET Messages], record' \in [Ids -> Records],
         details' \subseteq Details, stale' \subseteq Asyncs,
         Settled(has, issuance, async, record)', DetailsInv'
  PROVE  IInv'
<1> USE DEF migrating
<1>1. TypeOK'
  BY DEF IInv, TypeOK, Settled, Sound, IssuanceTable, AsyncTable, Details
<1>2. TablesInv' /\ StepInv' /\ LinksKept'
  BY DEF Serving, Settled, TablesInv, StepInv, LinksKept
<1>3. BeforeInv'
  BY DEF IInv, BeforeInv, Serving
<1> QED  BY <1>1, <1>2, <1>3 DEF IInv

LEMMA Found ==
  ASSUME IInv, Serving
  PROVE  /\ Sound(issuance, async, record) /\ RecordsLinked(issuance, async, record)
         /\ Reserved(issuance, async, record) /\ DetailsInv
         /\ IssuancesLinked(issuance) /\ AsyncsLinked(async)
         /\ issuance \in IssuanceTable /\ async \in AsyncTable
         /\ messages \in [Asyncs -> SUBSET Messages] /\ record \in [Ids -> Records]
         /\ details \subseteq Details /\ stale \subseteq Asyncs
         /\ Rows(issuance) = {i \in Issuances : issuance[i].exists}
         /\ Rows(async) = {a \in Asyncs : async[a].exists}
  BY Tables DEF IInv, Serving, TablesInv, StepInv, TypeOK, Details

LEMMA InPersonKeeps ==
  ASSUME IInv, NEW i \in Issuances, NEW r \in Ids, RequestInPerson(i, r)
  PROVE  IInv'
<1> USE MigrationConstants
<1> DEFINE D == [id |-> i, record |-> r, remote |-> None]
<1>1. Serving /\ UNCHANGED <<issuance, async, messages, stale, migrating, has>>
      /\ record[r] = "none" /\ record' = [record EXCEPT ![r] = "inPerson"]
      /\ details' = details \cup {D}
      /\ \A d \in details : d.record # r /\ d.id # i
  BY DEF RequestInPerson, Unused, NewIssuance, migrating
<1>2. ~issuance[i].exists
  BY <1>1, Found DEF RequestInPerson, NewIssuance
<1>3. /\ Sound(issuance, async, record) /\ RecordsLinked(issuance, async, record)
      /\ Reserved(issuance, async, record) /\ DetailsInv
      /\ IssuancesLinked(issuance) /\ AsyncsLinked(async)
      /\ issuance \in IssuanceTable /\ async \in AsyncTable /\ details \subseteq Details
  BY <1>1, Found
<1>4. /\ record' \in [Ids -> Records] /\ record'[r] = "inPerson"
      /\ \A q \in Ids : q # r => record'[q] = record[q]
  BY <1>1, Found DEF Records
<1>5. D \in Details /\ D.id = i /\ D.record = r /\ D.remote = None
  BY DEF Details
<1> HIDE DEF D
<1>6. /\ \A j \in Issuances : issuance[j].record # r
      /\ \A a \in Asyncs : async[a].record # r
  BY <1>1, <1>3 DEF Sound
<1>7. Sound(issuance, async, record)'
  <2>1. \A j \in Issuances : issuance[j].record # None =>
          record'[issuance[j].record] # "none" /\ issuance[j].exists
    BY <1>3, <1>4, <1>6 DEF Sound, IssuanceTable
  <2>2. \A a \in Asyncs : async[a].record # None => record'[async[a].record] = "row" /\ async[a].exists
    BY <1>3, <1>4, <1>6 DEF Sound, AsyncTable
  <2>3. \A d \in details' : d.remote # None /\ issuance[d.id].exists => async[d.remote].issuance # None
    BY <1>1, <1>2, <1>3, <1>5 DEF Sound
  <2> QED  BY <1>1, <1>3, <2>1, <2>2, <2>3 DEF Sound
<1>8. RecordsLinked(issuance, async, record)'
  BY <1>1, <1>3, <1>4 DEF RecordsLinked
<1>9. Reserved(issuance, async, record)'
  <2>1. \A d \in details : record'[d.record] = record[d.record]
    BY <1>1, <1>3, <1>4 DEF Details
  <2> QED  BY <1>1, <1>2, <1>3, <1>4, <1>5, <1>6, <2>1 DEF Reserved
<1>10. DetailsInv'
  BY <1>1, <1>3, <1>5 DEF DetailsInv
<1>11. Settled(has, issuance, async, record)'
  BY <1>1, <1>3, <1>7, <1>8, <1>9 DEF Settled
<1>12. issuance' \in IssuanceTable /\ async' \in AsyncTable /\ details' \subseteq Details
       /\ messages' \in [Asyncs -> SUBSET Messages] /\ stale' \subseteq Asyncs
  BY <1>1, <1>3, <1>5, Found
<1> QED  BY <1>1, <1>4, <1>10, <1>11, <1>12, ServeKeeps

LEMMA ClaimKeeps ==
  ASSUME IInv, NEW i \in Issuances, NEW a \in Asyncs, ClaimRemote(i, a)
  PROVE  IInv'
<1> USE MigrationConstants
<1> DEFINE D == [id |-> i, record |-> async[a].record, remote |-> a]
<1>1. Serving /\ UNCHANGED <<issuance, async, messages, record, stale, migrating, has>>
      /\ details' = details \cup {D}
      /\ \A d \in details : d.id # i
  BY DEF ClaimRemote, NewIssuance, migrating, rows
<1>2. ~issuance[i].exists /\ async[a].exists
  BY <1>1, Found DEF ClaimRemote, NewIssuance
<1>3. /\ Sound(issuance, async, record) /\ RecordsLinked(issuance, async, record)
      /\ Reserved(issuance, async, record) /\ DetailsInv
      /\ IssuancesLinked(issuance) /\ AsyncsLinked(async)
      /\ issuance \in IssuanceTable /\ async \in AsyncTable /\ details \subseteq Details
  BY <1>1, Found
<1>4. async[a].record \in Ids /\ record[async[a].record] = "row"
  BY <1>2, <1>3 DEF AsyncsLinked, AsyncTable, Sound
<1>5. D \in Details /\ D.id = i /\ D.record = async[a].record /\ D.remote = a /\ a # None
  BY <1>4 DEF Details
<1> HIDE DEF D
<1>6. Sound(issuance, async, record)'
  <2>1. \A d \in details' : d.remote # None /\ issuance[d.id].exists => async[d.remote].issuance # None
    BY <1>1, <1>2, <1>3, <1>5 DEF Sound
  <2> QED  BY <1>1, <1>3, <2>1 DEF Sound
<1>7. RecordsLinked(issuance, async, record)'
  BY <1>1, <1>3 DEF RecordsLinked
<1>8. Reserved(issuance, async, record)'
  BY <1>1, <1>3, <1>5 DEF Reserved
<1>9. DetailsInv'
  <2>1. \A d \in details : d.remote = None => d.record # D.record
    BY <1>3, <1>4, <1>5 DEF Reserved
  <2> QED  BY <1>1, <1>3, <1>5, <2>1 DEF DetailsInv
<1>10. Settled(has, issuance, async, record)'
  BY <1>1, <1>3, <1>6, <1>7, <1>8 DEF Settled
<1>11. /\ issuance' \in IssuanceTable /\ async' \in AsyncTable /\ details' \subseteq Details
       /\ messages' \in [Asyncs -> SUBSET Messages] /\ record' \in [Ids -> Records]
       /\ stale' \subseteq Asyncs
  BY <1>1, <1>3, <1>5, Found
<1> QED  BY <1>1, <1>9, <1>10, <1>11, ServeKeeps

LEMMA IssuedInPersonKeeps ==
  ASSUME IInv, NEW d \in details, Issue(d), d.remote = None
  PROVE  IInv'
<1> USE MigrationConstants
<1>1. Serving /\ UNCHANGED <<messages, record, details, stale, migrating, has>>
      /\ record[d.record] # "none"
      /\ issuance' = [issuance EXCEPT ![d.id] = [exists |-> TRUE, record |-> d.record]]
      /\ async' = [a \in Asyncs |->
           IF a = d.remote THEN [async[a] EXCEPT !.issuance = d.id] ELSE async[a]]
  BY DEF Issue, migrating, held
<1>2. /\ Sound(issuance, async, record) /\ RecordsLinked(issuance, async, record)
      /\ Reserved(issuance, async, record) /\ DetailsInv
      /\ IssuancesLinked(issuance) /\ AsyncsLinked(async)
      /\ issuance \in IssuanceTable /\ async \in AsyncTable /\ details \subseteq Details
  BY <1>1, Found
<1>3. async' = async
  BY <1>1, <1>2 DEF AsyncTable
<1>4. d.id \in Issuances /\ d.record \in Ids /\ record[d.record] = "inPerson"
  BY <1>1, <1>2 DEF Details, Reserved
<1>5. /\ issuance' \in IssuanceTable /\ issuance'[d.id].exists
      /\ issuance'[d.id].record = d.record
      /\ \A j \in Issuances : j # d.id => issuance'[j] = issuance[j]
  BY <1>1, <1>2, <1>4 DEF IssuanceTable
<1>6. \A j \in Issuances : j # d.id => issuance[j].record # d.record
  BY <1>2 DEF Reserved
<1>7. \A a \in Asyncs : async[a].record # d.record
  BY <1>2, <1>4 DEF Sound
<1>8. Sound(issuance, async, record)'
  <2>1. \A j \in Issuances : issuance'[j].record # None =>
          record[issuance'[j].record] # "none" /\ issuance'[j].exists
    BY <1>1, <1>2, <1>5 DEF Sound
  <2>2. \A j, k \in Issuances : issuance'[j].record # None
          /\ issuance'[j].record = issuance'[k].record => j = k
    BY <1>2, <1>5, <1>6 DEF Sound
  <2>3. \A j \in Issuances, a \in Asyncs :
          issuance'[j].record # None /\ issuance'[j].record = async[a].record => async[a].issuance = j
    BY <1>2, <1>5, <1>7 DEF Sound
  <2>4. \A e \in details : e.remote # None /\ issuance'[e.id].exists => async[e.remote].issuance # None
    <3>1. \A e \in details : e.remote # None => e.id # d.id /\ e.id \in Issuances
      BY <1>2 DEF DetailsInv, Details
    <3> QED  BY <1>2, <1>5, <3>1 DEF Sound
  <2> QED  BY <1>1, <1>2, <1>3, <2>1, <2>2, <2>3, <2>4 DEF Sound
<1>9. RecordsLinked(issuance, async, record)'
  <2>1. \A q \in Ids : record[q] = "row" /\ issuance[d.id].exists => issuance[d.id].record # q
    BY <1>2, <1>4 DEF Reserved
  <2> QED  BY <1>1, <1>2, <1>3, <1>5, <2>1 DEF RecordsLinked
<1>10. Reserved(issuance, async, record)'
  <2> SUFFICES ASSUME NEW e \in details, e.remote = None
               PROVE  /\ \A j \in Issuances : issuance'[j].record = e.record => j = e.id
                      /\ record[e.record] = "inPerson" /\ issuance'[e.id].exists =>
                           issuance'[e.id].record = e.record
    BY <1>1, <1>2, <1>3 DEF Reserved
  <2>1. CASE e = d
    BY <1>5, <1>6, <2>1
  <2>2. CASE e # d
    <3>1. e.id # d.id /\ e.record # d.record /\ e.id \in Issuances
      BY <1>2, <2>2 DEF DetailsInv, Details
    <3> QED  BY <1>2, <1>5, <3>1 DEF Reserved
  <2> QED  BY <2>1, <2>2
<1>11. IssuancesLinked(issuance)' /\ AsyncsLinked(async)' /\ DetailsInv'
  BY <1>1, <1>2, <1>3, <1>4, <1>5 DEF IssuancesLinked, AsyncsLinked, DetailsInv
<1>12. Settled(has, issuance, async, record)'
  BY <1>8, <1>9, <1>10, <1>11 DEF Settled
<1>13. /\ async' \in AsyncTable /\ details' \subseteq Details /\ stale' \subseteq Asyncs
       /\ messages' \in [Asyncs -> SUBSET Messages] /\ record' \in [Ids -> Records]
  BY <1>1, <1>2, <1>3, Found
<1> QED  BY <1>1, <1>5, <1>11, <1>12, <1>13, ServeKeeps

LEMMA IssuedRemoteKeeps ==
  ASSUME IInv, NEW d \in details, Issue(d), d.remote # None
  PROVE  IInv'
<1> USE MigrationConstants
<1>1. Serving /\ UNCHANGED <<messages, record, details, stale, migrating, has>>
      /\ record[d.record] # "none" /\ async[d.remote].issuance = None
      /\ issuance' = [issuance EXCEPT ![d.id] = [exists |-> TRUE, record |-> d.record]]
      /\ async' = [a \in Asyncs |->
           IF a = d.remote THEN [async[a] EXCEPT !.issuance = d.id] ELSE async[a]]
  BY DEF Issue, MayIssue, migrating, held
<1>2. /\ Sound(issuance, async, record) /\ RecordsLinked(issuance, async, record)
      /\ Reserved(issuance, async, record) /\ DetailsInv
      /\ IssuancesLinked(issuance) /\ AsyncsLinked(async)
      /\ issuance \in IssuanceTable /\ async \in AsyncTable /\ details \subseteq Details
  BY <1>1, Found
<1>3. d.id \in Issuances /\ d.record \in Ids /\ d.remote \in Asyncs /\ d.id # None
      /\ async[d.remote].record = d.record
  BY <1>1, <1>2 DEF Details, Reserved
<1>4. ~issuance[d.id].exists
  BY <1>1, <1>2 DEF Sound
<1>5. /\ issuance' \in IssuanceTable /\ issuance'[d.id].exists
      /\ issuance'[d.id].record = d.record
      /\ \A j \in Issuances : j # d.id => issuance'[j] = issuance[j]
  BY <1>1, <1>2, <1>3 DEF IssuanceTable
<1>6. /\ async' \in AsyncTable /\ async'[d.remote].issuance = d.id
      /\ \A b \in Asyncs : b # d.remote => async'[b] = async[b]
      /\ \A b \in Asyncs : async'[b].exists = async[b].exists /\ async'[b].record = async[b].record
  <2>1. [async[d.remote] EXCEPT !.issuance = d.id]
          \in [exists: BOOLEAN, issuance: Issuances \cup {None}, record: Ids \cup {None}, flag: BOOLEAN]
    BY <1>2, <1>3 DEF AsyncTable
  <2>2. async' \in AsyncTable
    BY <1>1, <1>2, <1>3, <2>1 DEF AsyncTable
  <2> QED  BY <1>1, <1>2, <1>3, <2>2 DEF AsyncTable
<1>7. \A j \in Issuances : issuance[j].record # d.record
  BY <1>1, <1>2, <1>3 DEF Sound
<1>8. Sound(issuance, async, record)'
  <2>1. \A j \in Issuances : issuance'[j].record # None =>
          record[issuance'[j].record] # "none" /\ issuance'[j].exists
    BY <1>1, <1>2, <1>5 DEF Sound
  <2>2. \A j, k \in Issuances : issuance'[j].record # None
          /\ issuance'[j].record = issuance'[k].record => j = k
    BY <1>2, <1>5, <1>7 DEF Sound
  <2>3. \A j \in Issuances, b \in Asyncs :
          issuance'[j].record # None /\ issuance'[j].record = async'[b].record => async'[b].issuance = j
    <3> SUFFICES ASSUME NEW j \in Issuances, NEW b \in Asyncs, issuance'[j].record # None,
                        issuance'[j].record = async'[b].record
                 PROVE  async'[b].issuance = j
      OBVIOUS
    <3>1. CASE j = d.id
      <4>1. b = d.remote
        BY <1>2, <1>3, <1>5, <1>6, <3>1 DEF Sound
      <4> QED  BY <1>6, <3>1, <4>1
    <3>2. CASE j # d.id
      <4>1. issuance[j].record = async[b].record /\ issuance[j].record # None
        BY <1>5, <1>6, <3>2
      <4>2. b # d.remote
        BY <1>3, <1>7, <4>1
      <4> QED  BY <1>2, <1>6, <4>1, <4>2 DEF Sound
    <3> QED  BY <3>1, <3>2
  <2>4. \A e \in details : e.remote # None /\ issuance'[e.id].exists => async'[e.remote].issuance # None
    <3> SUFFICES ASSUME NEW e \in details, e.remote # None, issuance'[e.id].exists
                 PROVE  async'[e.remote].issuance # None
      OBVIOUS
    <3>1. CASE e = d
      BY <1>3, <1>6, <3>1
    <3>2. CASE e # d
      <4>1. e.id # d.id /\ e.id \in Issuances /\ e.remote \in Asyncs
        BY <1>2, <3>2 DEF DetailsInv, Details
      <4>2. async[e.remote].issuance # None
        BY <1>2, <1>5, <4>1 DEF Sound
      <4> QED  BY <1>1, <1>6, <4>1, <4>2
    <3> QED  BY <3>1, <3>2
  <2>5. /\ \A b \in Asyncs : async'[b].record # None => record[async'[b].record] = "row" /\ async'[b].exists
        /\ \A b, c \in Asyncs : async'[b].record # None /\ async'[b].record = async'[c].record => b = c
    BY <1>2, <1>6 DEF Sound
  <2> QED  BY <1>1, <2>1, <2>2, <2>3, <2>4, <2>5 DEF Sound
<1>9. RecordsLinked(issuance, async, record)'
  BY <1>1, <1>2, <1>4, <1>5, <1>6 DEF RecordsLinked
<1>10. Reserved(issuance, async, record)'
  <2>1. \A e \in details : e.remote = None =>
          e.id # d.id /\ e.record # d.record /\ e.id \in Issuances
    BY <1>2 DEF DetailsInv, Details
  <2>2. \A e \in details : e.remote # None => async'[e.remote].record = async[e.remote].record
    BY <1>2, <1>6 DEF Details
  <2> QED  BY <1>1, <1>2, <1>5, <2>1, <2>2 DEF Reserved
<1>11. IssuancesLinked(issuance)' /\ AsyncsLinked(async)' /\ DetailsInv'
  BY <1>1, <1>2, <1>3, <1>5, <1>6 DEF IssuancesLinked, AsyncsLinked, DetailsInv
<1>12. Settled(has, issuance, async, record)'
  BY <1>8, <1>9, <1>10, <1>11 DEF Settled
<1>13. /\ details' \subseteq Details /\ stale' \subseteq Asyncs
       /\ messages' \in [Asyncs -> SUBSET Messages] /\ record' \in [Ids -> Records]
  BY <1>1, <1>2, Found
<1> QED  BY <1>1, <1>5, <1>6, <1>11, <1>12, <1>13, ServeKeeps

LEMMA RemoteKeeps ==
  ASSUME IInv, NEW a \in Asyncs, NEW r \in Ids, RequestRemote(a, r)
  PROVE  IInv'
<1> USE MigrationConstants
<1>1. /\ Serving /\ UNCHANGED <<issuance, messages, details, stale, migrating, has>>
      /\ record[r] = "none"
      /\ \A d \in details : d.record # r
      /\ record' = [record EXCEPT ![r] = "row"]
      /\ async' = [async EXCEPT ![a].exists = TRUE, ![a].record = r]
  BY DEF RequestRemote, Unused, migrating, held
<1>2. /\ Sound(issuance, async, record) /\ RecordsLinked(issuance, async, record)
      /\ Reserved(issuance, async, record) /\ DetailsInv
      /\ IssuancesLinked(issuance) /\ AsyncsLinked(async)
      /\ issuance \in IssuanceTable /\ async \in AsyncTable /\ details \subseteq Details
  BY <1>1, Found
<1>3. ~async[a].exists /\ async[a].record = None
  BY <1>1, Found DEF RequestRemote, Sound
<1>4. async[a] \in [exists: BOOLEAN, issuance: Issuances \cup {None}, record: Ids \cup {None},
                    flag: BOOLEAN]
  BY <1>2 DEF AsyncTable
<1>5. /\ async'[a] = [async[a] EXCEPT !.exists = TRUE, !.record = r]
      /\ DOMAIN async' = Asyncs
      /\ \A b \in Asyncs : b # a => async'[b] = async[b]
  <2>1. async \in AsyncTable /\ async' = [async EXCEPT ![a].exists = TRUE, ![a].record = r]
    BY <1>1, <1>2
  <2> QED  BY <2>1 DEF AsyncTable
<1>6. /\ async'[a].exists /\ async'[a].record = r /\ async'[a].issuance = async[a].issuance
      /\ async'[a] \in [exists: BOOLEAN, issuance: Issuances \cup {None}, record: Ids \cup {None},
                        flag: BOOLEAN]
  BY <1>4, <1>5
<1>7. /\ async' \in AsyncTable
      /\ \A b \in Asyncs : b # a => async'[b] = async[b]
  <2>1. async \in AsyncTable /\ async' = [async EXCEPT ![a].exists = TRUE, ![a].record = r]
    BY <1>1, <1>2
  <2> QED  BY <1>5, <1>6, <2>1 DEF AsyncTable
<1>8. record' \in [Ids -> Records] /\ record'[r] = "row"
      /\ \A q \in Ids : q # r => record'[q] = record[q]
  <2>1. record \in [Ids -> Records] /\ record' = [record EXCEPT ![r] = "row"]
    BY <1>1, Found
  <2> QED  BY <2>1 DEF Records
<1>9. /\ \A i \in Issuances : issuance[i].record # r
      /\ \A b \in Asyncs : async[b].record # r
  BY <1>1, <1>2 DEF Sound
<1>10. Sound(issuance, async, record)'
  <2>1. \A i \in Issuances : issuance[i].record # None =>
          record'[issuance[i].record] # "none" /\ issuance[i].exists
    BY <1>2, <1>8, <1>9 DEF Sound, IssuanceTable
  <2>2. \A b \in Asyncs : async'[b].record # None => record'[async'[b].record] = "row" /\ async'[b].exists
    BY <1>2, <1>6, <1>7, <1>8, <1>9 DEF Sound, AsyncTable
  <2>3. \A i \in Issuances, b \in Asyncs :
          issuance[i].record # None /\ issuance[i].record = async'[b].record => async'[b].issuance = i
    BY <1>2, <1>6, <1>7, <1>9 DEF Sound
  <2>4. \A b, c \in Asyncs : async'[b].record # None /\ async'[b].record = async'[c].record => b = c
    BY <1>2, <1>6, <1>7, <1>9 DEF Sound
  <2>5. \A d \in details : d.remote # None /\ issuance[d.id].exists => async'[d.remote].issuance # None
    BY <1>2, <1>6, <1>7 DEF Sound, Details
  <2> QED  BY <1>1, <1>2, <2>1, <2>2, <2>3, <2>4, <2>5 DEF Sound
<1>11. RecordsLinked(issuance, async, record)'
  <2> SUFFICES ASSUME NEW q \in Ids, record'[q] = "row"
               PROVE  \/ \E i \in Issuances : issuance[i].exists /\ issuance[i].record = q
                      \/ \E b \in Asyncs : async'[b].exists /\ async'[b].record = q
    BY <1>1 DEF RecordsLinked
  <2>1. CASE q = r
    BY <1>6, <2>1
  <2>2. CASE q # r
    <3>1. record[q] = "row"
      BY <1>8, <2>2
    <3>2. \A b \in Asyncs : async[b].exists => b # a
      BY <1>3
    <3> QED  BY <1>2, <1>7, <3>1, <3>2 DEF RecordsLinked
  <2> QED  BY <2>1, <2>2
<1>12. Reserved(issuance, async, record)'
  <2>1. \A d \in details : record'[d.record] = record[d.record] /\ d.record # None
    BY <1>1, <1>2, <1>8 DEF Details
  <2>2. \A d \in details : d.remote # None /\ record[d.record] # "none" =>
          async'[d.remote].record = d.record
    <3>1. \A d \in details : d.remote # None /\ record[d.record] # "none" =>
            async[d.remote].record = d.record /\ d.remote \in Asyncs
      BY <1>2 DEF Reserved, Details
    <3>2. \A d \in details : d.remote # None /\ record[d.record] # "none" => d.remote # a
      BY <1>3, <2>1, <3>1
    <3> QED  BY <1>7, <3>1, <3>2
  <2> QED  BY <1>1, <1>2, <2>1, <2>2 DEF Reserved
<1>13. AsyncsLinked(async)' /\ IssuancesLinked(issuance)' /\ DetailsInv'
  BY <1>1, <1>2, <1>6, <1>7 DEF AsyncsLinked, IssuancesLinked, DetailsInv
<1>14. Settled(has, issuance, async, record)'
  BY <1>10, <1>11, <1>12, <1>13 DEF Settled
<1>15. /\ issuance' \in IssuanceTable /\ details' \subseteq Details /\ stale' \subseteq Asyncs
       /\ messages' \in [Asyncs -> SUBSET Messages]
  BY <1>1, <1>2, Found
<1> QED  BY <1>1, <1>7, <1>8, <1>13, <1>14, <1>15, ServeKeeps

\* A step that changes no more of the tables than flags.
LEMMA FlagOnlyKeeps ==
  ASSUME IInv, Serving, UNCHANGED <<issuance, record, details, migrating>>,
         messages' \in [Asyncs -> SUBSET Messages], stale' \subseteq Asyncs,
         async' \in AsyncTable,
         \A b \in Asyncs : /\ async'[b].exists = async[b].exists
                           /\ async'[b].record = async[b].record
                           /\ async'[b].issuance = async[b].issuance
  PROVE  IInv'
<1>1. /\ Sound(issuance, async, record) /\ RecordsLinked(issuance, async, record)
      /\ Reserved(issuance, async, record) /\ DetailsInv
      /\ IssuancesLinked(issuance) /\ AsyncsLinked(async)
      /\ issuance \in IssuanceTable /\ details \subseteq Details /\ record \in [Ids -> Records]
  BY Found
<1>2. Sound(issuance, async, record)'
  BY <1>1 DEF Sound, Details
<1>3. RecordsLinked(issuance, async, record)' /\ Reserved(issuance, async, record)'
  BY <1>1 DEF RecordsLinked, Reserved, Details
<1>4. AsyncsLinked(async)' /\ IssuancesLinked(issuance)' /\ DetailsInv'
  BY <1>1 DEF AsyncsLinked, IssuancesLinked, DetailsInv
<1>5. Settled(has, issuance, async, record)'
  BY <1>2, <1>3, <1>4 DEF Settled
<1> QED  BY <1>1, <1>4, <1>5, ServeKeeps

LEMMA MessageKeeps ==
  ASSUME IInv, NEW a \in Asyncs, NEW m \in Messages, Communicate(a, m)
  PROVE  IInv'
<1>1. Serving /\ UNCHANGED <<issuance, record, details, stale, migrating>>
      /\ messages' = [messages EXCEPT ![a] = @ \cup {m}]
      /\ async' = [async EXCEPT ![a].flag = @ \/ m = "sent"]
  BY DEF Communicate, held
<1>2. messages' \in [Asyncs -> SUBSET Messages] /\ stale' \subseteq Asyncs
  BY <1>1, Found
<1>3. /\ async' \in AsyncTable
      /\ \A b \in Asyncs : /\ async'[b].exists = async[b].exists
                           /\ async'[b].record = async[b].record
                           /\ async'[b].issuance = async[b].issuance
  <2>1. (async[a].flag \/ m = "sent") \in BOOLEAN
    OBVIOUS
  <2>2. async \in AsyncTable /\ async' = [async EXCEPT ![a].flag = @ \/ m = "sent"]
    BY <1>1, Found
  <2> QED  BY <2>1, <2>2 DEF AsyncTable
<1> QED  BY <1>1, <1>2, <1>3, FlagOnlyKeeps

LEMMA EntityKeeps ==
  ASSUME IInv, NEW a \in Asyncs, ReadEntity(a) \/ SaveEntity(a)
  PROVE  IInv'
<1>1. Serving /\ UNCHANGED <<issuance, messages, record, details, migrating>>
      /\ stale' \in {stale \cup {a}, stale \ {a}}
      /\ async' \in {async, [async EXCEPT ![a].flag = FALSE]}
  BY DEF ReadEntity, SaveEntity, rows
<1>2. messages' \in [Asyncs -> SUBSET Messages] /\ stale' \subseteq Asyncs
  BY <1>1, Found
<1>3. /\ async' \in AsyncTable
      /\ \A b \in Asyncs : /\ async'[b].exists = async[b].exists
                           /\ async'[b].record = async[b].record
                           /\ async'[b].issuance = async[b].issuance
  <2>1. async \in AsyncTable
    BY <1>1, Found
  <2>2. CASE async' = async  BY <2>1, <2>2
  <2>3. CASE async' = [async EXCEPT ![a].flag = FALSE]  BY <2>1, <2>3 DEF AsyncTable
  <2> QED  BY <1>1, <2>2, <2>3
<1> QED  BY <1>1, <1>2, <1>3, FlagOnlyKeeps

-----------------------------------------------------------------------------
(* The results. *)

LEMMA StutterKeeps == IInv /\ UNCHANGED vars => IInv'
  BY DEF vars, rows, held, migrating, IInv, TypeOK, TablesInv, DetailsInv, StepInv, BeforeInv,
     LinksKept, Settled, Sound, RecordsLinked, Reserved, IssuancesLinked, AsyncsLinked

LEMMA StepIInv == IInv /\ [Next]_vars => IInv'
<1> SUFFICES ASSUME IInv, [Next]_vars PROVE IInv'
  OBVIOUS
<1>1. CASE Up \/ Down
  <2>1. step = "none"
    BY <1>1 DEF Up, Down, Begin
  <2> QED  BY <1>1, <2>1, BeginKeeps DEF Up, Down
<1>2. CASE CreateTable \/ EnforceNotNull \/ CreateUniqueIndexes \/ Commit
  BY <1>2, StructureKeeps
<1>3. CASE BackfillIssuances \/ BackfillAsyncs \/ RollBack
  BY <1>3, BackfillIssuancesKeeps, BackfillAsyncsKeeps, RollBackKeeps
<1>4. CASE BackfillFlag \/ DropFlag  BY <1>4, FlagKeeps
<1>5. CASE DropLinks \/ DropTable  BY <1>5, DropKeeps
<1>6. CASE Serve
  BY <1>6, InPersonKeeps, RemoteKeeps, ClaimKeeps, IssuedInPersonKeeps, IssuedRemoteKeeps,
     MessageKeeps, EntityKeeps DEF Serve
<1>7. CASE UNCHANGED vars  BY <1>7, StutterKeeps
<1> QED  BY <1>1, <1>2, <1>3, <1>4, <1>5, <1>6, <1>7 DEF Next, Migrate

LEMMA IInvHolds == Spec => []IInv
  BY InitIInv, StepIInv, PTL DEF Spec

\* The tables keep their types and their foreign keys.
THEOREM TypeCorrect == Spec => []TypeOK
<1>1. IInv => TypeOK  BY DEF IInv
<1> QED  BY <1>1, IInvHolds, PTL

\* After the backfills, and as long as the application serves, each row has a record
\* that no other of its table has, whatever rows the migration found and however often
\* callbacks come and requests are claimed.
THEOREM RowsAreRecorded == Spec => []EveryRowRecorded
<1>1. IInv => EveryRowRecorded
  <2> SUFFICES ASSUME IInv, Serving \/ step \in {"notNull", "unique"}
               PROVE  /\ Unlinked(issuance) = {} /\ Unlinked(async) = {}
                      /\ Distinct(issuance) /\ Distinct(async)
    BY DEF EveryRowRecorded
  <2>1. TypeOK /\ Sound(issuance, async, record)
    BY DEF IInv, TablesInv
  <2>2. IssuancesLinked(issuance) /\ AsyncsLinked(async)
    BY DEF IInv, StepInv, Serving
  <2> QED  BY <2>1, <2>2, Tables DEF Sound, IssuancesLinked, AsyncsLinked, Distinct
<1> QED  BY <1>1, IInvHolds, PTL

\* On the migrated schema a record that was made for a row has it.
THEOREM RecordsHaveRows == Spec => []NoRecordWithoutRow
<1>1. IInv => NoRecordWithoutRow
  BY Found DEF NoRecordWithoutRow, RecordsLinked
<1> QED  BY <1>1, IInvHolds, PTL

\* A migration that runs again replaces no link.
THEOREM LinksStay == Spec => []LinksKept
<1>1. IInv => LinksKept  BY DEF IInv
<1> QED  BY <1>1, IInvHolds, PTL
=============================================================================
