--------------------------- MODULE RecordMigration ---------------------------
(***************************************************************************)
(* The migration that gives every issuance and every remote request its    *)
(* credential record, run on a database that has none of its structures,   *)
(* or all of them, and taken back; before and after it the application     *)
(* works on the migrated schema.                                           *)
(*                                                                         *)
(* Each migration is one transaction (migrationsTransactionMode 'each'):   *)
(* nobody else sees its statements, and an error rolls all of them back.   *)
(* A group of statements that only together do something is one action.    *)
(* Indexes that are not unique, and the repairs of two tables of the OIDC  *)
(* provider, are left out.  The previous version of the application, which *)
(* works on the schema without records, is not in the repository.          *)
(***************************************************************************)
EXTENDS Naturals

CONSTANTS
  Issuances, Asyncs, Ids,  \* primary keys of the three tables
  Starts,                  \* what can be in place at first
  MaxMigrations,           \* runs of up and down (a bound)
  None

ASSUME MigrationConstants ==
  None \notin Ids \cup Issuances \cup Asyncs /\ MaxMigrations \in Nat

VARIABLES
  has,        \* the structures in place
  issuance,   \* rows of issuance: [exists, record]
  async,      \* rows of async_issuance: [exists, issuance, record, flag]
  messages,   \* what became of the messages of a remote request
  record,     \* rows of credential_record, and what made them
  details,    \* requestDetailsCache: ids of a credential to be issued, its remote request
  stale,      \* requests of which a handler has an entity without the flag
  step,       \* the next statements of the migration that runs
  before,     \* the database when it began
  migrations  \* how many have begun

rows == <<issuance, async, messages, record>>
held == <<details, stale>>
migrating == <<has, step, before, migrations>>
vars == <<rows, held, migrating>>

Structures == {"table", "context", "links", "unique", "flag"}

\* Communications with the purpose "verification", which a failure has whatever
\* its message was for.  Others change nothing.
Messages == {"sent", "failure"}

\* A record was made for a row, by an issuance request in person, or by the
\* first of the migrations this one replaces, which knew no context columns.
Records == {"none", "row", "inPerson", "bare"}

NoIssuance == [exists |-> FALSE, record |-> None]
NoAsync == [exists |-> FALSE, issuance |-> None, record |-> None, flag |-> FALSE]

Rows(table) == {x \in DOMAIN table : table[x].exists}

\* Variant: whatever record the rows have.
AllRows(table) == Rows(table)

\* credential_record_id IS NULL
Unlinked(table) == {x \in Rows(table) : table[x].record = None}
Unused == {r \in Ids : record[r] = "none" /\ \A d \in details : d.record # r}

\* Variant: one id for the whole statement.
OneId(X) == {[x \in X |-> r] : r \in Unused}

\* NEWID(): an id for each x of X, never used before.
NewIds(X) == {f \in [X -> Unused] : \A x, y \in X : f[x] = f[y] => x = y}

Link(table, X, f) ==
  [x \in DOMAIN table |-> IF x \in X THEN [table[x] EXCEPT !.record = f[x]] ELSE table[x]]

InsertRecords(X, f) ==
  record' = [r \in Ids |-> IF \E x \in X : f[x] = r THEN "row" ELSE record[r]]

Distinct(table) ==
  \A x, y \in Rows(table) : table[x].record = table[y].record => x = y

Database == [has |-> has, issuance |-> issuance, async |-> async,
             messages |-> messages, record |-> record]

Goto(s) == step' = s /\ UNCHANGED <<before, migrations, held>>

-----------------------------------------------------------------------------
(* up *)

Begin(s) ==
  /\ step = "none" /\ migrations < MaxMigrations
  /\ step' = s
  /\ before' = Database
  /\ migrations' = migrations + 1
  /\ UNCHANGED <<has, rows, held>>

Up == Begin("table")

\* The table, its columns and the columns that refer to it, with foreign keys.
CreateTable ==
  /\ step = "table" /\ Goto("issuances")
  /\ has' = has \cup {"table", "context", "links"}
  /\ UNCHANGED rows

\* Variant: a record is made for each row, whether it has one or not.
EveryRow(table) == Rows(table)

\* The condition of the INSERT.
ToBackfill(table) == Unlinked(table)

\* A column that is dropped again relates the new records to their rows.
BackfillIssuances ==
  /\ step = "issuances" /\ Goto("asyncs")
  /\ \E f \in NewIds(ToBackfill(issuance)) :
       /\ InsertRecords(ToBackfill(issuance), f)
       /\ issuance' = Link(issuance, Unlinked(issuance), f)
  /\ UNCHANGED <<has, async, messages>>

BackfillAsyncs ==
  /\ step = "asyncs" /\ Goto("notNull")
  /\ \E f \in NewIds(ToBackfill(async)) :
       /\ InsertRecords(ToBackfill(async), f)
       /\ async' = Link(async, Unlinked(async), f)
  /\ UNCHANGED <<has, issuance, messages>>

NothingNull ==
  /\ \A r \in Ids : record[r] # "bare"
  /\ Unlinked(issuance) = {} /\ Unlinked(async) = {}

\* contract_id, identity_id and credential_record_id become NOT NULL.
EnforceNotNull ==
  /\ step = "notNull" /\ Goto("unique")
  /\ NothingNull
  /\ UNCHANGED <<has, rows>>

CreateUniqueIndexes ==
  /\ step = "unique" /\ Goto("flag")
  /\ Distinct(issuance) /\ Distinct(async)
  /\ has' = has \cup {"unique"}
  /\ UNCHANGED rows

\* A communication with the purpose exists.
Flagged(a) == messages[a] # {}

BackfillFlag ==
  /\ step = "flag" /\ Goto("commit")
  /\ has' = has \cup {"flag"}
  /\ async' = [a \in Asyncs |-> [async[a] EXCEPT !.flag = @ \/ Flagged(a)]]
  /\ UNCHANGED <<issuance, messages, record>>

-----------------------------------------------------------------------------
(* down *)

Down == has = Structures /\ Begin("dropFlag")

DropFlag ==
  /\ step = "dropFlag" /\ Goto("dropLinks")
  /\ has' = has \ {"flag"}
  /\ async' = [a \in Asyncs |-> [async[a] EXCEPT !.flag = FALSE]]
  /\ UNCHANGED <<issuance, messages, record>>

\* Variant: the columns are left.
DropIndexes ==
  /\ step = "dropLinks" /\ Goto("dropTable")
  /\ has' = has \ {"unique"}
  /\ UNCHANGED rows

\* The unique indexes, and the columns they are on.
DropLinks ==
  /\ step = "dropLinks" /\ Goto("dropTable")
  /\ has' = has \ {"unique", "links"}
  /\ issuance' = [i \in Issuances |-> [issuance[i] EXCEPT !.record = None]]
  /\ async' = [a \in Asyncs |-> [async[a] EXCEPT !.record = None]]
  /\ UNCHANGED <<messages, record>>

DropTable ==
  /\ step = "dropTable" /\ Goto("commit")
  /\ has' = has \ {"table", "context"}
  /\ record' = [r \in Ids |-> "none"]
  /\ UNCHANGED <<issuance, async, messages>>

-----------------------------------------------------------------------------
Commit == step = "commit" /\ Goto("none") /\ UNCHANGED <<has, rows>>

RollBack ==
  /\ step # "none" /\ Goto("none")
  /\ has' = before.has /\ issuance' = before.issuance /\ async' = before.async
  /\ messages' = before.messages /\ record' = before.record

-----------------------------------------------------------------------------
(* The application on the migrated schema. *)

Serving == step = "none" /\ has = Structures

\* The id that the issuance of a request is to have.
NewIssuance(i) == i \notin Rows(issuance) /\ \A d \in details : d.id # i

\* CreateIssuanceRequest
RequestInPerson(i, r) ==
  /\ Serving /\ NewIssuance(i) /\ r \in Unused
  /\ record' = [record EXCEPT ![r] = "inPerson"]
  /\ details' = details \cup {[id |-> i, record |-> r, remote |-> None]}
  /\ UNCHANGED <<issuance, async, messages, stale, migrating>>

\* CreateAsyncIssuanceRequest
RequestRemote(a, r) ==
  /\ Serving /\ a \notin Rows(async) /\ r \in Unused
  /\ record' = [record EXCEPT ![r] = "row"]
  /\ async' = [async EXCEPT ![a].exists = TRUE, ![a].record = r]
  /\ UNCHANGED <<issuance, messages, held, migrating>>

\* CreateIssuanceRequestForAsyncIssuance, as often as the request is claimed.
ClaimRemote(i, a) ==
  /\ Serving /\ NewIssuance(i) /\ a \in Rows(async) /\ async[a].issuance = None
  /\ details' = details \cup {[id |-> i, record |-> async[a].record, remote |-> a]}
  /\ UNCHANGED <<rows, stale, migrating>>

\* A remote request that is issued refuses another credential, and its own again.
MayIssue(d) == d.remote # None => async[d.remote].issuance = None

\* The callback that the credential was issued, also when it comes again: the row
\* with the id of the request details is inserted or saved.
Issue(d) ==
  /\ Serving /\ MayIssue(d)
  /\ record[d.record] # "none"                              \* the foreign key
  /\ issuance' = [issuance EXCEPT ![d.id] = [exists |-> TRUE, record |-> d.record]]
  /\ async' = [a \in Asyncs |->
       IF a = d.remote THEN [async[a] EXCEPT !.issuance = d.id] ELSE async[a]]
  /\ UNCHANGED <<messages, record, held, migrating>>

\* recordAsyncIssuanceCommunication
Communicate(a, m) ==
  /\ Serving /\ a \in Rows(async)
  /\ messages' = [messages EXCEPT ![a] = @ \cup {m}]
  /\ async' = [async EXCEPT ![a].flag = @ \/ m = "sent"]
  /\ UNCHANGED <<issuance, record, held, migrating>>

\* The batch cancellation, a claim and the error handlers read an entity in one
\* transaction and save all of it in another.
ReadEntity(a) ==
  /\ Serving /\ a \in Rows(async) /\ ~async[a].flag
  /\ stale' = stale \cup {a}
  /\ UNCHANGED <<rows, details, migrating>>

SaveEntity(a) ==
  /\ Serving /\ a \in stale
  /\ async' = [async EXCEPT ![a].flag = FALSE]
  /\ stale' = stale \ {a}
  /\ UNCHANGED <<issuance, messages, record, details, migrating>>

-----------------------------------------------------------------------------
(* A database without the structures holds any rows of the time before; with
   only the first of the replaced migrations, an issuance has a bare record. *)

InitRows ==
  /\ issuance \in [Issuances -> {NoIssuance, [NoIssuance EXCEPT !.exists = TRUE]}]
  /\ async \in [Asyncs -> {NoAsync} \cup
                 {[NoAsync EXCEPT !.exists = TRUE, !.issuance = i] :
                    i \in Rows(issuance) \cup {None}}]
  /\ \A a, b \in Asyncs : async[a].issuance = async[b].issuance /\ async[a].issuance # None
                            => a = b
  /\ messages \in [Asyncs -> SUBSET Messages]
  /\ \A a \in Asyncs : async[a].exists \/ messages[a] = {}

InitEmpty ==
  /\ issuance = [i \in Issuances |-> NoIssuance]
  /\ async = [a \in Asyncs |-> NoAsync]
  /\ messages = [a \in Asyncs |-> {}]

Init ==
  /\ \/ /\ "none" \in Starts
        /\ has = {} /\ InitRows
        /\ record = [r \in Ids |-> "none"]
     \/ /\ "all" \in Starts
        /\ has = Structures /\ InitEmpty
        /\ record = [r \in Ids |-> "none"]
     \/ /\ "first" \in Starts
        /\ has = {"table", "links"} /\ async = [a \in Asyncs |-> NoAsync]
        /\ messages = [a \in Asyncs |-> {}]
        /\ \E r \in Ids :
             /\ record = [q \in Ids |-> IF q = r THEN "bare" ELSE "none"]
             /\ issuance \in [Issuances -> {NoIssuance, [exists |-> TRUE, record |-> r]}]
             /\ \E i \in Rows(issuance) : Rows(issuance) = {i}
  /\ details = {} /\ stale = {}
  /\ step = "none"
  /\ before = Database
  /\ migrations = 0

Migrate ==
  \/ Up \/ CreateTable \/ BackfillIssuances \/ BackfillAsyncs
  \/ EnforceNotNull \/ CreateUniqueIndexes \/ BackfillFlag
  \/ Down \/ DropFlag \/ DropLinks \/ DropTable
  \/ Commit \/ RollBack

Serve ==
  \/ \E i \in Issuances, r \in Ids : RequestInPerson(i, r)
  \/ \E a \in Asyncs, r \in Ids : RequestRemote(a, r)
  \/ \E i \in Issuances, a \in Asyncs : ClaimRemote(i, a)
  \/ \E d \in details : Issue(d)
  \/ \E a \in Asyncs, m \in Messages : Communicate(a, m)
  \/ \E a \in Asyncs : ReadEntity(a) \/ SaveEntity(a)

Next == Migrate \/ Serve

Spec == Init /\ [][Next]_vars

-----------------------------------------------------------------------------
(* Properties. *)

\* The types of the variables, and the foreign keys.
TypeOK ==
  /\ has \subseteq Structures
  /\ issuance \in [Issuances -> [exists: BOOLEAN, record: Ids \cup {None}]]
  /\ async \in [Asyncs -> [exists: BOOLEAN, issuance: Issuances \cup {None},
                           record: Ids \cup {None}, flag: BOOLEAN]]
  /\ messages \in [Asyncs -> SUBSET Messages]
  /\ record \in [Ids -> Records]
  /\ details \subseteq [id: Issuances, record: Ids, remote: Asyncs \cup {None}]
  /\ stale \subseteq Asyncs
  /\ step \in {"none", "table", "issuances", "asyncs", "notNull", "unique", "flag",
               "dropFlag", "dropLinks", "dropTable", "commit"}
  /\ migrations \in 0..MaxMigrations
  /\ \A i \in Issuances : issuance[i].record # None => record[issuance[i].record] # "none"
  /\ \A a \in Asyncs : async[a].record # None => record[async[a].record] # "none"

\* When the backfills are over each issuance and each remote request has a record,
\* and none shares it with another of its table, so that the NOT NULL and UNIQUE
\* statements succeed, on whatever rows there were; and what the application adds, with
\* callbacks that come again and several claims of a request, needs no index to stay so.
EveryRowRecorded ==
  Serving \/ step \in {"notNull", "unique"} =>
    /\ Unlinked(issuance) = {} /\ Unlinked(async) = {}
    /\ Distinct(issuance) /\ Distinct(async)

\* A record that was made for a row has the row: without one the query would
\* list it as a request in person.
NoRecordWithoutRow ==
  Serving => \A r \in Ids : record[r] = "row" =>
    \/ \E i \in Rows(issuance) : issuance[i].record = r
    \/ \E a \in Rows(async) : async[a].record = r

\* A link in place survives the migration that runs again.
LinksKept ==
  step \in {"table", "issuances", "asyncs", "notNull", "unique", "flag"} =>
    /\ \A i \in Issuances : before.issuance[i].record # None => issuance[i] = before.issuance[i]
    /\ \A a \in Asyncs : before.async[a].record # None => async[a].record = before.async[a].record

\* "its credentialRecordId is stable from offer through issuance": a request that
\* is issued shares the record of its issuance.
IssuedSharesRecord ==
  Serving => \A a \in Rows(async) :
    async[a].issuance # None => issuance[async[a].issuance].record = async[a].record

\* "whether a verification communication has been sent": the flag is not set for
\* another reason.
FlagOnlyWhenSent ==
  Serving => \A a \in Rows(async) : async[a].flag => "sent" \in messages[a]

\* "safe to run on a database that already has some or all of these structures": no
\* statement of the migration fails.
NoStatementFails ==
  /\ step = "notNull" => NothingNull
  /\ step = "unique" => Distinct(issuance) /\ Distinct(async)
=============================================================================
