--------------------------- MODULE BackgroundJobs ---------------------------
(***************************************************************************)
(* The background jobs of the VO API: a BullMQ queue, the workers that run *)
(* its jobs, the events they publish through Redis and the callers that    *)
(* wait for a job to finish, on any instance.                              *)
(*                                                                         *)
(* A caller adds a job, subscribes to the events of its id, looks for its  *)
(* final event in a cache and only then waits for events.  A worker's      *)
(* listener caches a final event and then publishes it, in a call nobody   *)
(* awaits.  The id of a job that is run on its own is a fresh uuid; the id *)
(* of a deduplicated job is its name, so the same id runs again and again. *)
(* A run is one stay of a job id in the queue, with its retries.           *)
(*                                                                         *)
(* Progress events, which callers skip, and the result handlers are left   *)
(* out.  A "Variant" is a faulty form of the definition after it, kept to  *)
(* show that a property notices the fault.                                 *)
(***************************************************************************)
EXTENDS Naturals, Sequences

CONSTANTS
  Callers,       \* calls that wait for a job: runAndAwaitJob, subscriptions
  Jobs,          \* job ids
  Deduplicated,  \* those with deduplication options, whose id is the name
  Uncached,      \* those with resultCacheTtl 0
  Attempts,      \* each job's attempts option, 0 when it has none
  MaxRuns,       \* bound: runs of a deduplicated job
  MaxStalls,     \* bound: instances lost while they run a job
  NoEvent,       \* no event
  NoJob          \* a caller that has not called

ASSUME ConstantsOK ==
  /\ Deduplicated \subseteq Jobs /\ Uncached \subseteq Jobs
  /\ Attempts \in [Jobs -> Nat]
  /\ MaxRuns \in Nat /\ MaxStalls \in Nat
  /\ NoJob \notin Jobs

VARIABLES
  queue,       \* per job: "none", "waiting", "active" or "delayed" before a retry
  run,         \* per job: number of its current or last run
  made,        \* per job: attempts made in the run
  threw,       \* per job: its handler threw an UnrecoverableError in the run
  keys,        \* jobs whose deduplication key has not reached its TTL
  stalls,      \* instances lost so far
  ended,       \* what BullMQ ended: the final event each run stands for
  cache,       \* per job: entry of finishedBackgroundJobEvents
  fresh,       \* jobs whose entry was written since their last run was added
  publishing,  \* publishBackgroundJobEvent calls in flight
  pc,          \* per caller: "start", "added", "waiting" or "done"
  subscribed,  \* callers whose subscription is in force
  target,      \* per caller: the job it called
  since,       \* per caller: the run that its call started or joined
  inbox,       \* per caller: events delivered to its subscription
  got          \* per caller: the final event it stopped at

bull    == <<queue, run, made, threw, keys, stalls, ended>>
callers == <<pc, subscribed, target, since, inbox, got>>
results == <<cache, fresh>>
vars    == <<bull, results, publishing, callers>>

Statuses == {"Completed", "Failed", "Retrying"}
Events == [job : Jobs, run : Nat, status : Statuses]

ASSUME NoEventIsNone == NoEvent \notin Events

eventIsFinal(e) == e.status \in {"Completed", "Failed"}

-----------------------------------------------------------------------------
(* addToJobQueue and the await loop of a caller. *)

\* BullMQ ignores a job whose id is in the queue or whose key is still set.
Ignored(j) == queue[j] # "none" \/ j \in keys

\* Variant: every job is added with a deduplication key.
KeysOfAll(j) == keys \cup {j}

KeysOf(j) == keys \cup ({j} \cap Deduplicated)

Call(c, j) ==
  /\ pc[c] = "start"
  /\ \/ /\ Ignored(j) /\ j \in Deduplicated
        /\ UNCHANGED <<queue, run, made, threw, keys, fresh>>
     \/ /\ ~Ignored(j)
        /\ run[j] < (IF j \in Deduplicated THEN MaxRuns ELSE 1)
        /\ queue' = [queue EXCEPT ![j] = "waiting"]
        /\ run' = [run EXCEPT ![j] = @ + 1]
        /\ made' = [made EXCEPT ![j] = 0]
        /\ threw' = [threw EXCEPT ![j] = FALSE]
        /\ keys' = KeysOf(j)
        /\ fresh' = fresh \ {j}
  /\ pc' = [pc EXCEPT ![c] = "added"]
  /\ target' = [target EXCEPT ![c] = j]
  /\ since' = [since EXCEPT ![c] = run'[j]]
  /\ UNCHANGED <<stalls, ended, cache, publishing, subscribed, inbox, got>>

\* subscribeToCachedEvents asks for the events and does not wait until the
\* subscription is in force, before or after the look at the cache: events are
\* kept from here on.
Subscribe(c) ==
  /\ pc[c] \in {"added", "waiting"} /\ c \notin subscribed
  /\ subscribed' = subscribed \cup {c}
  /\ UNCHANGED <<bull, results, publishing, pc, target, since, inbox, got>>

\* The first next(): a cached final event ends the iteration.
CheckCache(c) ==
  /\ pc[c] = "added"
  /\ \/ /\ cache[target[c]] # NoEvent
        /\ got' = [got EXCEPT ![c] = cache[target[c]]]
        /\ pc' = [pc EXCEPT ![c] = "done"]
     \/ /\ cache[target[c]] = NoEvent
        /\ pc' = [pc EXCEPT ![c] = "waiting"]
        /\ UNCHANGED got
  /\ UNCHANGED <<bull, results, publishing, subscribed, target, since, inbox>>

\* A later next(): the loop goes on until an event is final.
Receive(c) ==
  /\ pc[c] = "waiting" /\ inbox[c] # <<>>
  /\ \/ /\ eventIsFinal(Head(inbox[c]))
        /\ got' = [got EXCEPT ![c] = Head(inbox[c])]
        /\ pc' = [pc EXCEPT ![c] = "done"]
     \/ ~eventIsFinal(Head(inbox[c])) /\ UNCHANGED <<got, pc>>
  /\ inbox' = [inbox EXCEPT ![c] = Tail(@)]
  /\ UNCHANGED <<bull, results, publishing, subscribed, target, since>>

-----------------------------------------------------------------------------
(* The worker, its listeners and publishBackgroundJobEvent. *)

Event(j, status) == [job |-> j, run |-> run[j], status |-> status]

Publishing(e) ==
  [event |-> e,
   step |-> IF eventIsFinal(e) /\ e.job \notin Uncached THEN "cache" ELSE "publish"]

Start(j) ==
  /\ queue[j] \in {"waiting", "delayed"}
  /\ queue' = [queue EXCEPT ![j] = "active"]
  /\ UNCHANGED <<run, made, threw, keys, stalls, ended, results, publishing, callers>>

Complete(j) ==
  /\ queue[j] = "active"
  /\ queue' = [queue EXCEPT ![j] = "none"]
  /\ ended' = ended \cup {Event(j, "Completed")}
  /\ publishing' = publishing \cup {Publishing(Event(j, "Completed"))}
  /\ UNCHANGED <<run, made, threw, keys, stalls, results, callers>>

\* executeJob throws an Error of its own, whatever the handler threw.
Rethrown(error) == "error"

\* BullMQ's rule: retry unless the attempts are used up or the error says not to.
Retries(j, error) == made[j] + 1 < Attempts[j] /\ error # "unrecoverable"

\* Variant: the listener counts one attempt too many.
FailedOneEarly(j, finished) == made[j] + 2 >= Attempts[j] \/ finished

\* Variant: the listener looks at the attempts only, and counts one too few.
FailedOneLate(j, finished) == made[j] >= Attempts[j]

\* The listener's hasNoAttemptsLeft or hasEncounteredUnrecoverableError, after
\* the attempt was counted.
ReportsFailed(j, finished) == made[j] + 1 >= Attempts[j] \/ finished

Fail(j, error) ==
  LET retry  == Retries(j, Rethrown(error))
      status == IF ReportsFailed(j, ~retry) THEN "Failed" ELSE "Retrying"
  IN /\ queue[j] = "active"
     /\ queue' = [queue EXCEPT ![j] = IF retry THEN "delayed" ELSE "none"]
     /\ made' = [made EXCEPT ![j] = @ + 1]
     /\ threw' = [threw EXCEPT ![j] = @ \/ error = "unrecoverable"]
     /\ ended' = ended \cup (IF retry THEN {} ELSE {Event(j, "Failed")})
     /\ publishing' = publishing \cup {Publishing(Event(j, status))}
     /\ UNCHANGED <<run, keys, stalls, results, callers>>

\* The instance that runs the job is lost: the job is found stalled and waits
\* again, with no attempt counted.
Stall(j) ==
  /\ queue[j] = "active" /\ stalls < MaxStalls
  /\ queue' = [queue EXCEPT ![j] = "waiting"]
  /\ stalls' = stalls + 1
  /\ UNCHANGED <<run, made, threw, keys, ended, results, publishing, callers>>

CacheEvent(p) ==
  /\ p \in publishing /\ p.step = "cache"
  /\ cache' = [cache EXCEPT ![p.event.job] = p.event]
  /\ fresh' = fresh \cup {p.event.job}
  /\ publishing' = (publishing \ {p}) \cup {[p EXCEPT !.step = "publish"]}
  /\ UNCHANGED <<bull, callers>>

Publish(p) ==
  /\ p \in publishing /\ p.step = "publish"
  /\ publishing' = publishing \ {p}
  /\ inbox' = [c \in Callers |->
       IF c \in subscribed /\ pc[c] # "done" /\ target[c] = p.event.job
         THEN Append(inbox[c], p.event) ELSE inbox[c]]
  /\ UNCHANGED <<bull, results, pc, subscribed, target, since, got>>

-----------------------------------------------------------------------------
(* Time. *)

KeyExpiry(j) ==
  /\ j \in keys
  /\ keys' = keys \ {j}
  /\ UNCHANGED <<queue, run, made, threw, stalls, ended, results, publishing, callers>>

\* Variant: the result of a deduplicated job has the default TTL, not its key's.
DefaultTtl(j) == TRUE

\* A cached event's TTL is as long as the key's, so that an event which was cached
\* after the key was set is there as long as the key.
OutlivesKey(j) == ~(j \in keys /\ j \in fresh)

CacheExpiry(j) ==
  /\ cache[j] # NoEvent /\ OutlivesKey(j)
  /\ cache' = [cache EXCEPT ![j] = NoEvent]
  /\ UNCHANGED <<fresh, bull, publishing, callers>>

-----------------------------------------------------------------------------
Init ==
  /\ queue = [j \in Jobs |-> "none"]
  /\ run = [j \in Jobs |-> 0]
  /\ made = [j \in Jobs |-> 0]
  /\ threw = [j \in Jobs |-> FALSE]
  /\ keys = {} /\ stalls = 0 /\ ended = {}
  /\ cache = [j \in Jobs |-> NoEvent] /\ fresh = {}
  /\ publishing = {}
  /\ pc = [c \in Callers |-> "start"]
  /\ subscribed = {}
  /\ target = [c \in Callers |-> NoJob]
  /\ since = [c \in Callers |-> 0]
  /\ inbox = [c \in Callers |-> <<>>]
  /\ got = [c \in Callers |-> NoEvent]

EndAttempt(j) == Complete(j) \/ \E error \in {"error", "unrecoverable"} : Fail(j, error)

PublishStep == \E p \in publishing : CacheEvent(p) \/ Publish(p)

Await(c) == Subscribe(c) \/ CheckCache(c) \/ Receive(c)

Next ==
  \/ \E c \in Callers : Await(c) \/ \E j \in Jobs : Call(c, j)
  \/ \E j \in Jobs : Start(j) \/ EndAttempt(j) \/ Stall(j) \/ KeyExpiry(j) \/ CacheExpiry(j)
  \/ PublishStep

Spec == Init /\ [][Next]_vars

\* Workers take jobs and finish them, published events arrive and callers go on;
\* nobody has to call and nothing has to expire.
Fairness ==
  /\ \A j \in Jobs : WF_vars(Start(j)) /\ WF_vars(EndAttempt(j))
  /\ WF_vars(PublishStep)
  /\ \A c \in Callers : WF_vars(Await(c))

FairSpec == Spec /\ Fairness

-----------------------------------------------------------------------------
(* Properties. *)

Calls == [event : Events, step : {"cache", "publish"}]

TypeOK ==
  /\ queue \in [Jobs -> {"none", "waiting", "active", "delayed"}]
  /\ run \in [Jobs -> Nat] /\ made \in [Jobs -> Nat] /\ threw \in [Jobs -> BOOLEAN]
  /\ keys \subseteq Deduplicated
  /\ stalls \in Nat /\ ended \subseteq Events
  /\ cache \in [Jobs -> Events \cup {NoEvent}] /\ fresh \subseteq Jobs
  /\ publishing \subseteq Calls
  /\ pc \in [Callers -> {"start", "added", "waiting", "done"}]
  /\ subscribed \subseteq Callers
  /\ target \in [Callers -> Jobs \cup {NoJob}]
  /\ since \in [Callers -> Nat]
  /\ inbox \in [Callers -> Seq(Events)]
  /\ got \in [Callers -> Events \cup {NoEvent}]

Told(e) == eventIsFinal(e) => e \in ended

\* The worker's listener recomputes from the attempts what BullMQ has decided.
\* They agree on every path of an event: a caller that stops waiting stops at
\* the end of a run, with its outcome, and never at an attempt that is retried.
FinalEventsAreTrue ==
  /\ \A p \in publishing : Told(p.event)
  /\ \A j \in Jobs : cache[j] # NoEvent => cache[j] \in ended
  /\ \A c \in Callers : \A i \in DOMAIN inbox[c] : Told(inbox[c][i])
  /\ \A c \in Callers : got[c] # NoEvent => got[c] \in ended

\* A deduplicated call that is ignored because of the key joins a run that may be
\* long over.  As long as the key lives the run goes on, or its result is on its way
\* to the cache, or in it, however publications of successive runs overtake another.
KeyedResultKept ==
  \A j \in keys \ Uncached :
    \/ queue[j] # "none" \/ cache[j] # NoEvent
    \/ \E p \in publishing : p.event.job = j /\ p.event.run = run[j] /\ p.step = "cache"

\* The final event of the caller's job is still to be published, and reaches it.
WillHear(c) ==
  /\ c \in subscribed
  /\ \/ queue[target[c]] # "none"
     \/ \E p \in publishing : p.event.job = target[c] /\ eventIsFinal(p.event)

\* Whoever is subscribed before the final event of the job is published stops
\* waiting: over retries, lost instances and results that expire, the last attempt is
\* the one reported as final.
AwaitEnds == \A c \in Callers : WillHear(c) ~> pc[c] = "done"

\* Every wait ends: also of a caller whose subscription comes into force after the
\* event was published, and which found the cache empty.
EveryAwaitEnds == \A c \in Callers : pc[c] = "added" ~> pc[c] = "done"

\* "waits for the job to complete": the awaited run is over when the wait is.
AwaitedRunIsOver ==
  \A c \in Callers : pc[c] = "done" => got[c].run >= since[c]

\* "If the job completes successfully, it returns the result": the loop returns
\* data.event.result if __typename says so, which no published event carries.
Typename(e) == "undefined"
Returned(e) == IF Typename(e) = "BackgroundJobCompletedEvent" THEN "result" ELSE "event"
CompletedReturnsResult ==
  \A c \in Callers : pc[c] = "done" /\ got[c].status = "Completed" => Returned(got[c]) = "result"

\* A handler throws UnrecoverableError to say that its job is not tried again.
UnrecoverableIsNotRetried == \A j \in Jobs : threw[j] => queue[j] = "none"
=============================================================================
