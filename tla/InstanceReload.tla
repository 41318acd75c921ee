---------------------------- MODULE InstanceReload ----------------------------
(***************************************************************************)
(* What each instance of the API holds in memory and loads again when a    *)
(* command has changed it: the lists of the instance configuration (CORS   *)
(* origins, tenants, labels), its settings, or the OIDC provider, which is *)
(* made from the clients in the database and the signing keys in the blob  *)
(* storage.  A command tells of its change by a debounced call; a second   *)
(* after the last one it is published to the instances that subscribe.     *)
(*                                                                         *)
(* Each night a job checks the keys and makes a new one when the newest is *)
(* more than RotateAfter days old, as does any instance that loads them.   *)
(* A reload takes less than a day.  Key k is the kth that was made.        *)
(***************************************************************************)
EXTENDS Naturals, Sequences, FiniteSets

CONSTANTS
  Instances,
  RotateAfter,  \* keyDaysBeforeRotation
  MaxVersion,   \* bound of the edits
  Scenarios     \* what is loaded, which events there are, and the last day (a bound)

\* "list" and "setting" are the instance configuration.
Topics == {"oidc", "list", "setting"}

\* "edit": a command changes the data.  "slow": it commits more than a second after
\* its call.  "overlap": a reload begins during another.  "restart": instances stop,
\* and others publish while they start.  "due": something loads the keys when they
\* are to be rotated, before the night's job does.  "fail": a read fails.
AllEvents == {"edit", "slow", "overlap", "restart", "due", "fail"}

ASSUME ReloadConstants ==
  /\ RotateAfter \in Nat /\ MaxVersion \in Nat \ {0}
  /\ Scenarios \subseteq [topic: Topics, events: SUBSET AllEvents, days: Nat]

VARIABLES
  topic, events, lastDay,  \* a member of Scenarios
  committed,      \* the version of the data in the database
  tx,             \* instances with a command that has called notify, not committed
  timer,          \* instances whose debounced call is waiting
  up, subscribed, \* sets of instances
  held,           \* what each instance works with: [data, keys]
  load,           \* the loads it has in flight: [stage, data, keys]
  day, jobDue,    \* the clock, and whether the night's job has yet to run
  job,            \* instances where that job waits for the rotation
  made,           \* the day on which each key was made
  blobs,          \* the keys that exist
  mature,         \* the keys older than a day (oidcKeyHoursBeforeUsage)
  due,            \* the newest key is older than RotateAfter days
  creating        \* the rotation has deleted, and is to create

scenario == <<topic, events, lastDay>>
database == <<committed, tx>>
keyStore == <<made, blobs, mature, due, creating>>
clock == <<day, jobDue, job>>
memory == <<up, subscribed, held, load>>
vars == <<scenario, database, timer, memory, clock, keyStore>>

Default == 0
Nothing == [data |-> Default, keys |-> <<>>]
Slots == IF "overlap" \in events THEN {1, 2} ELSE {1}
NoLoad == [stage |-> "none", data |-> Default, keys |-> <<>>]
Loading(i) == \E s \in {1, 2} : load[i][s].stage # "none"
InUse(i) == held[i].keys[1]
Published(i) == {held[i].keys[n] : n \in DOMAIN held[i].keys}

Settled == tx = {} /\ timer = {} /\ job = {} /\ ~creating /\ \A i \in up : ~Loading(i)

-----------------------------------------------------------------------------
(* The keys: loadExistingKeys and initialiseKeysFromDeduplicatedBackgroundJob. *)

MaxKey(S) == CHOOSE k \in S : \A l \in S : l <= k

\* listKeyBlobs
NewestToOldest(S) ==
  [n \in 1..Cardinality(S) |-> CHOOSE k \in S : Cardinality({l \in S : l > k}) = n - 1]

NeedsInitialisation == blobs = {} \/ due

\* Variant: the newest key is used at once.
AnyOrder == NewestToOldest(blobs)

\* keys(): a key of less than a day comes last.
HeldBack ==
  IF MaxKey(blobs) \in mature THEN NewestToOldest(blobs)
  ELSE Append(NewestToOldest(blobs \ {MaxKey(blobs)}), MaxKey(blobs))

\* Variant: nothing is deleted.
AllRetained == blobs

\* The first two of those there are.
Retained == {k \in blobs : Cardinality({l \in blobs : l > k}) < 2}

Waiting(i, s) == load[i][s].stage = "waiting"

RotateDelete ==
  /\ NeedsInitialisation /\ ~creating
  /\ job # {} \/ \E i \in up, s \in Slots : Waiting(i, s)
  /\ blobs' = Retained
  /\ creating' = TRUE
  /\ UNCHANGED <<scenario, database, timer, memory, clock, made, mature, due>>

RotateCreate ==
  /\ creating
  /\ made' = Append(made, day)
  /\ blobs' = blobs \cup {Len(made) + 1}
  /\ due' = FALSE /\ creating' = FALSE
  /\ UNCHANGED <<scenario, database, timer, memory, clock, mature>>

\* Those who wait find no keys, or the old ones, and give up.
RotateFails ==
  /\ creating /\ "fail" \in events
  /\ creating' = FALSE /\ job' = {}
  /\ load' = [i \in Instances |-> [s \in {1, 2} |->
                IF Waiting(i, s) THEN NoLoad ELSE load[i][s]]]
  /\ UNCHANGED <<scenario, database, timer, up, subscribed, held, day, jobDue,
                 made, blobs, mature, due>>

-----------------------------------------------------------------------------
(* Loading: createProvider, or the reload functions of the configuration. *)

Begin(i) ==
  \E s \in Slots :
    /\ load[i][s].stage = "none"
    /\ load' = [load EXCEPT ![i][s].stage = "begun"]

\* reloadDbInstanceSettings sets the defaults before it reads.
AtBegin(h) == IF topic = "setting" THEN [h EXCEPT !.data = Default] ELSE h

Start(i) ==
  /\ i \notin up
  /\ "due" \in events \/ ~due
  /\ up' = up \cup {i}
  /\ Begin(i)
  /\ UNCHANGED <<scenario, database, timer, subscribed, held, clock, keyStore>>

\* Variant: what is committed is read at once.
ReadableAtOnce == TRUE

\* loadExistingData reads in a transaction that waits for the writers' locks.
Readable == topic = "oidc" => tx = {}

ReadData(i, s) ==
  /\ load[i][s].stage = "begun" /\ load[i][s].data = Default
  /\ Readable
  /\ load' = [load EXCEPT ![i][s].data = committed]
  /\ UNCHANGED <<scenario, database, timer, up, subscribed, held, clock, keyStore>>

ReadKeys(i, s) ==
  /\ topic = "oidc" /\ load[i][s].stage = "begun" /\ load[i][s].keys = <<>>
  /\ load' = [load EXCEPT ![i][s] = IF NeedsInitialisation
                                    THEN [@ EXCEPT !.stage = "waiting"]
                                    ELSE [@ EXCEPT !.keys = HeldBack]]
  /\ UNCHANGED <<scenario, database, timer, up, subscribed, held, clock, keyStore>>

\* After initialiseOidcKeys, newest first.
ReadNewKeys(i, s) ==
  /\ load[i][s].stage = "waiting" /\ ~NeedsInitialisation
  /\ load' = [load EXCEPT ![i][s].stage = "begun", ![i][s].keys = NewestToOldest(blobs)]
  /\ UNCHANGED <<scenario, database, timer, up, subscribed, held, clock, keyStore>>

\* The first load is over: from now on the instance hears of changes.
Finish(i, s) ==
  /\ load[i][s].stage = "begun" /\ load[i][s].data # Default
  /\ topic = "oidc" => load[i][s].keys # <<>>
  /\ held' = [held EXCEPT ![i] = [data |-> load[i][s].data, keys |-> load[i][s].keys]]
  /\ subscribed' = subscribed \cup {i}
  /\ load' = [load EXCEPT ![i][s] = NoLoad]
  /\ UNCHANGED <<scenario, database, timer, up, clock, keyStore>>

\* An instance whose provider failed at first does not subscribe.
LoadFails(i, s) ==
  /\ load[i][s].stage # "none" /\ "fail" \in events
  /\ load' = [load EXCEPT ![i][s] = NoLoad]
  /\ subscribed' = IF topic = "oidc" THEN subscribed ELSE subscribed \cup {i}
  /\ UNCHANGED <<scenario, database, timer, up, held, clock, keyStore>>

Stop(i) ==
  /\ i \in up /\ "restart" \in events
  /\ up' = up \ {i} /\ subscribed' = subscribed \ {i}
  /\ tx' = tx \ {i} /\ timer' = timer \ {i} /\ job' = job \ {i}
  /\ jobDue' = (jobDue \/ i \in job)
  /\ held' = [held EXCEPT ![i] = Nothing]
  /\ load' = [load EXCEPT ![i] = [s \in {1, 2} |-> NoLoad]]
  /\ UNCHANGED <<scenario, committed, day, keyStore>>

-----------------------------------------------------------------------------
(* A command, and the debounced notification of its change. *)

Edit(i) ==
  /\ "edit" \in events /\ i \in up /\ tx = {} /\ committed < MaxVersion
  /\ "due" \in events \/ ~due
  /\ tx' = {i}
  /\ timer' = timer \cup {i}
  /\ UNCHANGED <<scenario, committed, memory, clock, keyStore>>

Commit(i) ==
  /\ i \in tx
  /\ committed' = committed + 1
  /\ tx' = {}
  /\ UNCHANGED <<scenario, timer, memory, clock, keyStore>>

\* Variant: the instance of the command does not load.
OthersLoad(i) == subscribed \ {i}

\* All that subscribe, the one that publishes among them.
Notified(i) == subscribed

CanLoad(i) == \E s \in Slots : load[i][s].stage = "none"
FreeSlot(i) == IF load[i][1].stage = "none" THEN 1 ELSE 2

Publish(i) ==
  /\ i \in timer
  /\ "slow" \in events \/ i \notin tx
  /\ \A j \in subscribed : CanLoad(j)
  /\ "restart" \in events \/ up \ subscribed = {} \/ "fail" \in events
  /\ timer' = timer \ {i}
  /\ load' = [j \in Instances |->
                IF j \in Notified(i) THEN [load[j] EXCEPT ![FreeSlot(j)].stage = "begun"]
                ELSE load[j]]
  /\ held' = [j \in Instances |-> IF j \in Notified(i) THEN AtBegin(held[j]) ELSE held[j]]
  /\ UNCHANGED <<scenario, database, up, subscribed, clock, keyStore>>

-----------------------------------------------------------------------------
(* The night's job, applyOidcSigningKeysRotation. *)

\* Variant: only the number of keys is compared.
CountChanged(i, keys) == Len(keys) # Len(held[i].keys)

KeysChanged(i, keys) ==
  held[i].keys # <<>> /\ (Len(keys) # Len(held[i].keys) \/ keys[1] # InUse(i))

Compare(i, keys) ==
  timer' = IF KeysChanged(i, keys) THEN timer \cup {i} ELSE timer

RunJob(i) ==
  /\ jobDue /\ i \in up
  /\ jobDue' = FALSE
  /\ IF NeedsInitialisation THEN job' = {i} /\ UNCHANGED timer
     ELSE Compare(i, HeldBack) /\ UNCHANGED job
  /\ UNCHANGED <<scenario, database, memory, day, keyStore>>

RunJobAfter(i) ==
  /\ i \in job /\ ~NeedsInitialisation
  /\ job' = {}
  /\ Compare(i, NewestToOldest(blobs))
  /\ UNCHANGED <<scenario, database, memory, day, jobDue, keyStore>>

-----------------------------------------------------------------------------
(* Time.  A key is a day old, or due, some time in the day it becomes so. *)

Mature(k) ==
  /\ k \in blobs \ mature /\ made[k] < day
  /\ mature' = mature \cup {k}
  /\ UNCHANGED <<scenario, database, timer, memory, clock, made, blobs, due, creating>>

BecomeDue ==
  /\ blobs # {} /\ ~due /\ day >= made[MaxKey(blobs)] + RotateAfter
  /\ "due" \in events \/ Settled
  /\ due' = TRUE
  /\ UNCHANGED <<scenario, database, timer, memory, clock, made, blobs, mature, creating>>

NextDay ==
  /\ topic = "oidc" /\ day < lastDay /\ ~jobDue /\ Settled /\ up # {}
  /\ \A k \in blobs : made[k] < day => k \in mature
  /\ blobs # {} /\ day >= made[MaxKey(blobs)] + RotateAfter => due
  /\ day' = day + 1 /\ jobDue' = TRUE
  /\ UNCHANGED <<scenario, database, timer, memory, job, keyStore>>

-----------------------------------------------------------------------------
Init ==
  /\ \E s \in Scenarios : topic = s.topic /\ events = s.events /\ lastDay = s.days
  /\ committed = 1 /\ tx = {} /\ timer = {}
  /\ up = {} /\ subscribed = {}
  /\ held = [i \in Instances |-> Nothing]
  /\ load = [i \in Instances |-> [s \in {1, 2} |-> NoLoad]]
  /\ day = 0 /\ jobDue = FALSE /\ job = {}
  /\ made = <<>> /\ blobs = {} /\ mature = {} /\ due = FALSE /\ creating = FALSE

Work(i) ==
  \/ Commit(i) \/ Publish(i) \/ RunJobAfter(i)
  \/ \E s \in {1, 2} : ReadData(i, s) \/ ReadKeys(i, s) \/ ReadNewKeys(i, s) \/ Finish(i, s)

Rotate == RotateDelete \/ RotateCreate

Next ==
  \/ \E i \in Instances : Work(i) \/ Start(i) \/ Stop(i) \/ Edit(i) \/ RunJob(i)
  \/ \E i \in Instances, s \in {1, 2} : LoadFails(i, s)
  \/ Rotate \/ RotateFails
  \/ \E k \in DOMAIN made : Mature(k)
  \/ BecomeDue \/ NextDay

\* What an instance has begun it ends.
Fairness == WF_vars(Rotate) /\ \A i \in Instances : WF_vars(Work(i))

Spec == Init /\ [][Next]_vars /\ Fairness

-----------------------------------------------------------------------------
(* Properties. *)

KeySequences == {<<>>} \cup [1..1 -> DOMAIN made] \cup [1..2 -> DOMAIN made] \cup [1..3 -> DOMAIN made]

\* The types of the variables; there are never more than three keys.
TypeOK ==
  /\ topic \in Topics /\ events \subseteq AllEvents
  /\ committed \in 1..MaxVersion
  /\ tx \subseteq up /\ timer \subseteq up /\ job \subseteq up
  /\ subscribed \subseteq up /\ up \subseteq Instances
  /\ held \in [Instances -> [data: 0..MaxVersion, keys: KeySequences]]
  /\ load \in [Instances -> [{1, 2} ->
       [stage: {"none", "begun", "waiting"}, data: 0..MaxVersion, keys: KeySequences]]]
  /\ day \in 0..lastDay /\ jobDue \in BOOLEAN
  /\ \A k \in DOMAIN made : made[k] \in 0..day
  /\ blobs \subseteq DOMAIN made /\ Cardinality(blobs) <= 3
  /\ mature \subseteq DOMAIN made
  /\ due \in BOOLEAN /\ creating \in BOOLEAN

\* What the reloads cannot be relied on to survive, and what the keys cannot.
Undisturbed == events \cap {"overlap", "restart", "fail"} = {}
RotatedByNight == topic = "oidc" /\ events \cap {"due", "restart", "fail"} = {}

\* An instance that has nothing left to do works with the committed data: a change
\* is missed by nobody.  A slow commit is waited for only by the OIDC provider.
FreshWhenQuiet ==
  Undisturbed /\ ("slow" \in events => topic = "oidc") /\ Settled =>
    \A i \in subscribed : held[i].data = committed

\* A key that some instance signs with is published by all: a token is accepted
\* whichever instance the keys are fetched from, on the nights of a rotation too.  It
\* is stored as well, so that an instance that starts publishes it.
KeyInUsePublished ==
  RotatedByNight =>
    \A i, j \in Instances : held[i].keys # <<>> /\ held[j].keys # <<>> =>
      InUse(i) \in Published(j) \cap blobs

\* A key is replaced, though the job compares the keys with those of the instance that
\* runs it only: at the latest when the key after next is made, nobody signs with it.
KeyInUseNotOld ==
  RotatedByNight /\ Settled /\ ~jobDue =>
    \A i \in Instances : held[i].keys # <<>> =>
      day - made[InUse(i)] <= 2 * (RotateAfter + 1)

\* "The most recent key [is moved] to the end of the list if it was created less
\* than oidcKeyHoursBeforeUsage hours ago": it signs only if there is no other.
NewKeyHeldBack ==
  \A i \in Instances : held[i].keys # <<>> =>
    InUse(i) \in mature \/ Len(held[i].keys) = 1

\* With any events: an instance with nothing left to do works with the committed data.
AlwaysFresh == Settled => \A i \in subscribed : held[i].data = committed

\* An edit reaches every instance that stays up: reloads neither stop nor wait for
\* one another.
EditIsLoaded ==
  \A v \in 2..MaxVersion :
    (committed = v /\ Undisturbed /\ ("slow" \in events => topic = "oidc"))
      ~> (\A i \in subscribed : held[i].data >= v)
=============================================================================
