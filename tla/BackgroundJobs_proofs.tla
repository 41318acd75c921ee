----------------------- MODULE BackgroundJobs_proofs ------------------------
(***************************************************************************)
(* Proofs about BackgroundJobs: its types, that the final events on every  *)
(* path to a caller are those of runs that ended that way, and that the    *)
(* result of a deduplicated job is kept as long as its key.  The set ended *)
(* only grows, so what was told once stays true; the one step that has to  *)
(* be argued is Fail, where the listener's formula and BullMQ's rule must  *)
(* give the same answer.                                                   *)
(***************************************************************************)
EXTENDS BackgroundJobs, TLAPS

\* A caller beyond its call has a job.
Called == \A c \in Callers : pc[c] # "start" => target[c] \in Jobs

Typed == TypeOK /\ Called

\* Only a final event is on its way to the cache.
CachesFinal == \A p \in publishing : p.step = "cache" => eventIsFinal(p.event)

\* A run's result is still to be cached.
ToBeCached(j) ==
  \E p \in publishing : p.event.job = j /\ p.event.run = run[j] /\ p.step = "cache"

\* As KeyedResultKept, but a cached result is one that outlives the key.
FreshResultKept ==
  \A j \in keys \ Uncached :
    queue[j] # "none" \/ (j \in fresh /\ cache[j] # NoEvent) \/ ToBeCached(j)

IInv == Typed /\ CachesFinal /\ FinalEventsAreTrue /\ FreshResultKept

\* A worker's listener reports Failed exactly when BullMQ does not retry.
LEMMA ListenerAgrees ==
  ASSUME TypeOK, NEW j \in Jobs, NEW error
  PROVE  ReportsFailed(j, ~Retries(j, error)) <=> ~Retries(j, error)
  BY ConstantsOK DEF TypeOK, ReportsFailed, Retries

\* What a worker makes of a status is an event, published as it is.
LEMMA EventType ==
  ASSUME TypeOK, NEW j \in Jobs, NEW status \in Statuses
  PROVE  /\ Event(j, status) \in Events
         /\ Publishing(Event(j, status)) \in Calls
         /\ Publishing(Event(j, status)).event = Event(j, status)
  BY DEF TypeOK, Event, Events, Publishing, Calls

\* The head and the tail of a queue of events.
LEMMA InboxType ==
  ASSUME NEW s \in Seq(Events), s # <<>>
  PROVE  /\ Head(s) \in Events /\ Tail(s) \in Seq(Events)
         /\ 1 \in DOMAIN s /\ Head(s) = s[1]
         /\ \A i \in DOMAIN Tail(s) : i + 1 \in DOMAIN s /\ Tail(s)[i] = s[i + 1]
  OBVIOUS

\* The types hold at the start.
LEMMA TypeInit == Init => Typed
  BY ConstantsOK DEF Init, TypeOK, Typed, Called

\* Every step keeps them.
LEMMA TypeStep == Typed /\ [Next]_vars => Typed'
<1> SUFFICES ASSUME Typed, [Next]_vars PROVE Typed'
  OBVIOUS
<1> USE DEF Typed, TypeOK, Called, results
<1>1. ASSUME NEW c \in Callers, NEW j \in Jobs, Call(c, j) PROVE Typed'
  <2>1. /\ pc' = [pc EXCEPT ![c] = "added"]
        /\ target' = [target EXCEPT ![c] = j]
        /\ since' = [since EXCEPT ![c] = run'[j]]
        /\ UNCHANGED <<stalls, ended, cache, publishing, subscribed, inbox, got>>
    BY <1>1 DEF Call
  <2>2. CASE UNCHANGED <<queue, run, made, threw, keys, fresh>>
    BY <1>1, <2>1, <2>2
  <2>3. CASE /\ queue' = [queue EXCEPT ![j] = "waiting"]
             /\ run' = [run EXCEPT ![j] = @ + 1]
             /\ made' = [made EXCEPT ![j] = 0]
             /\ threw' = [threw EXCEPT ![j] = FALSE]
             /\ keys' = KeysOf(j)
             /\ fresh' = fresh \ {j}
    BY <1>1, <2>1, <2>3 DEF KeysOf
  <2> QED BY <1>1, <2>2, <2>3 DEF Call
<1>2. ASSUME NEW c \in Callers, Subscribe(c) PROVE Typed'
  BY <1>2 DEF Subscribe, bull
<1>3. ASSUME NEW c \in Callers, CheckCache(c) PROVE Typed'
  BY <1>3 DEF CheckCache, bull
<1>4. ASSUME NEW c \in Callers, Receive(c) PROVE Typed'
  <2>1. Head(inbox[c]) \in Events /\ Tail(inbox[c]) \in Seq(Events)
    BY <1>4, InboxType DEF Receive
  <2> QED BY <1>4, <2>1 DEF Receive, bull
<1>5. ASSUME NEW j \in Jobs, Start(j) PROVE Typed'
  BY <1>5 DEF Start, callers
<1>6. ASSUME NEW j \in Jobs, Complete(j) PROVE Typed'
  <2>1. /\ Event(j, "Completed") \in Events
        /\ Publishing(Event(j, "Completed")) \in Calls
    BY EventType DEF Statuses
  <2> QED BY <1>6, <2>1 DEF Complete, callers
<1>7. ASSUME NEW j \in Jobs, NEW error, Fail(j, error) PROVE Typed'
  <2> DEFINE retry == Retries(j, Rethrown(error))
             status == IF ReportsFailed(j, ~retry) THEN "Failed" ELSE "Retrying"
  <2>1. /\ Event(j, "Failed") \in Events
        /\ Publishing(Event(j, status)) \in Calls
    BY EventType DEF Statuses
  <2> HIDE DEF status
  <2>2. /\ queue' = [queue EXCEPT ![j] = IF retry THEN "delayed" ELSE "none"]
        /\ made' = [made EXCEPT ![j] = @ + 1]
        /\ threw' = [threw EXCEPT ![j] = @ \/ error = "unrecoverable"]
        /\ ended' = ended \cup (IF retry THEN {} ELSE {Event(j, "Failed")})
        /\ publishing' = publishing \cup {Publishing(Event(j, status))}
        /\ UNCHANGED <<run, keys, stalls, results, callers>>
    BY <1>7 DEF Fail, status
  <2> QED BY <2>1, <2>2 DEF callers
<1>8. ASSUME NEW j \in Jobs, Stall(j) \/ KeyExpiry(j) \/ CacheExpiry(j) PROVE Typed'
  <2>1. CASE Stall(j)
    BY <2>1 DEF Stall, callers
  <2>2. CASE KeyExpiry(j)
    BY <2>2 DEF KeyExpiry, callers
  <2>3. CASE CacheExpiry(j)
    BY <2>3 DEF CacheExpiry, bull, callers
  <2> QED BY <1>8, <2>1, <2>2, <2>3
<1>9. ASSUME NEW p \in publishing, CacheEvent(p) PROVE Typed'
  BY <1>9 DEF CacheEvent, Calls, Events, bull, callers
<1>10. ASSUME NEW p \in publishing, Publish(p) PROVE Typed'
  <2>1. p.event \in Events
    BY DEF Calls
  <2> QED BY <1>10, <2>1 DEF Publish, bull
<1>11. CASE UNCHANGED vars
  BY <1>11 DEF vars, bull, callers
<1> QED
  BY <1>1, <1>2, <1>3, <1>4, <1>5, <1>6, <1>7, <1>8, <1>9, <1>10, <1>11
     DEF Next, Await, EndAttempt, PublishStep

\* Only Complete and Fail start a publication; the rest come from others.
LEMMA CachesFinalStep == IInv /\ [Next]_vars => CachesFinal'
<1> SUFFICES ASSUME IInv, [Next]_vars PROVE CachesFinal'
  OBVIOUS
<1>1. ASSUME NEW e, publishing' = publishing \cup {Publishing(e)} PROVE CachesFinal'
  BY <1>1 DEF IInv, CachesFinal, Publishing
<1>2. ASSUME publishing' \subseteq publishing PROVE CachesFinal'
  BY <1>2 DEF IInv, CachesFinal
<1>3. ASSUME NEW j \in Jobs, EndAttempt(j) PROVE CachesFinal'
  <2>1. PICK e : publishing' = publishing \cup {Publishing(e)}
    BY <1>3 DEF EndAttempt, Complete, Fail
  <2> QED BY <1>1, <2>1
<1>4. ASSUME NEW p \in publishing, CacheEvent(p) PROVE CachesFinal'
  <2>1. [p EXCEPT !.step = "publish"].step = "publish"
    BY DEF IInv, Typed, TypeOK, Calls
  <2> QED BY <1>4, <2>1 DEF CacheEvent, IInv, CachesFinal
<1>5. ASSUME NEW p \in publishing, Publish(p) PROVE CachesFinal'
  BY <1>2, <1>5 DEF Publish
<1>6. ASSUME NEW c \in Callers, NEW j \in Jobs, Call(c, j) PROVE CachesFinal'
  BY <1>2, <1>6 DEF Call
<1>7. ASSUME NEW c \in Callers, Await(c) PROVE CachesFinal'
  BY <1>2, <1>7 DEF Await, Subscribe, CheckCache, Receive
<1>8. ASSUME NEW j \in Jobs, Start(j) \/ Stall(j) \/ KeyExpiry(j) \/ CacheExpiry(j)
      PROVE  CachesFinal'
  BY <1>2, <1>8 DEF Start, Stall, KeyExpiry, CacheExpiry
<1>9. CASE UNCHANGED vars
  BY <1>2, <1>9 DEF vars
<1> QED BY <1>3, <1>4, <1>5, <1>6, <1>7, <1>8, <1>9 DEF Next, PublishStep

\* Final events stay true along every step.
LEMMA TruthStep == IInv /\ [Next]_vars => FinalEventsAreTrue'
<1> SUFFICES ASSUME IInv, [Next]_vars PROVE FinalEventsAreTrue'
  OBVIOUS
<1>0. TypeOK /\ Called
  BY DEF IInv, Typed
<1> USE DEF IInv, FinalEventsAreTrue, Told, results
<1>1. ASSUME NEW c \in Callers, NEW j \in Jobs, Call(c, j) PROVE FinalEventsAreTrue'
  BY <1>1 DEF Call
<1>2. ASSUME NEW c \in Callers, Subscribe(c) PROVE FinalEventsAreTrue'
  BY <1>2 DEF Subscribe, bull
<1>3. ASSUME NEW c \in Callers, CheckCache(c) PROVE FinalEventsAreTrue'
  BY <1>0, <1>3 DEF CheckCache, bull, TypeOK, Called
<1>4. ASSUME NEW c \in Callers, Receive(c) PROVE FinalEventsAreTrue'
  <2>1. inbox[c] \in Seq(Events) /\ inbox[c] # <<>>
    BY <1>0, <1>4 DEF TypeOK, Receive
  <2>2. /\ Told(Head(inbox[c]))
        /\ \A i \in DOMAIN Tail(inbox[c]) : Told(Tail(inbox[c])[i])
    BY <2>1, InboxType
  <2>3. \A d \in Callers : \A i \in DOMAIN inbox'[d] : Told(inbox'[d][i])
    BY <1>0, <1>4, <2>2 DEF Receive, TypeOK
  <2>4. \A d \in Callers : got'[d] # NoEvent => got'[d] \in ended
    BY <1>0, <1>4, <2>2 DEF Receive, TypeOK
  <2> QED BY <1>4, <2>3, <2>4 DEF Receive, bull
<1>5. ASSUME NEW j \in Jobs, Start(j) PROVE FinalEventsAreTrue'
  BY <1>5 DEF Start, callers
<1>6. ASSUME NEW j \in Jobs, Complete(j) PROVE FinalEventsAreTrue'
  <2>1. Publishing(Event(j, "Completed")).event = Event(j, "Completed")
    BY <1>0, EventType DEF Statuses
  <2> QED BY <1>6, <2>1 DEF Complete, callers
<1>7. ASSUME NEW j \in Jobs, NEW error, Fail(j, error) PROVE FinalEventsAreTrue'
  <2> DEFINE retry == Retries(j, Rethrown(error))
             status == IF ReportsFailed(j, ~retry) THEN "Failed" ELSE "Retrying"
  <2>1. status = IF retry THEN "Retrying" ELSE "Failed"
    BY <1>0, ListenerAgrees
  <2>2. Publishing(Event(j, status)).event = Event(j, status)
    BY <1>0, EventType DEF Statuses
  <2>3. /\ ended' = ended \cup (IF retry THEN {} ELSE {Event(j, "Failed")})
        /\ publishing' = publishing \cup {Publishing(Event(j, status))}
        /\ UNCHANGED <<results, callers>>
    BY <1>7 DEF Fail
  <2> HIDE DEF retry, status
  <2>4. eventIsFinal(Event(j, status)) => Event(j, status) \in ended'
    BY <2>1, <2>3 DEF eventIsFinal, Event
  <2> QED BY <2>2, <2>3, <2>4 DEF callers
<1>8. ASSUME NEW j \in Jobs, Stall(j) \/ KeyExpiry(j) PROVE FinalEventsAreTrue'
  BY <1>8 DEF Stall, KeyExpiry, callers
<1>9. ASSUME NEW j \in Jobs, CacheExpiry(j) PROVE FinalEventsAreTrue'
  BY <1>0, <1>9 DEF CacheExpiry, TypeOK, bull, callers
<1>10. ASSUME NEW p \in publishing, CacheEvent(p) PROVE FinalEventsAreTrue'
  <2>1. p.event \in Events /\ Told(p.event) /\ p.event.job \in Jobs
    BY <1>0 DEF TypeOK, Calls, Events
  <2>2. p.step = "cache" => eventIsFinal(p.event)
    BY <1>10 DEF CachesFinal
  <2>3. /\ p.event \in ended
        /\ cache' = [cache EXCEPT ![p.event.job] = p.event]
        /\ publishing' = (publishing \ {p}) \cup {[p EXCEPT !.step = "publish"]}
        /\ UNCHANGED <<bull, callers>>
    BY <1>10, <2>1, <2>2 DEF CacheEvent
  <2>4. [p EXCEPT !.step = "publish"].event = p.event
    BY <1>0 DEF TypeOK, Calls
  <2>5. \A j \in Jobs : cache'[j] # NoEvent => cache'[j] \in ended
    BY <1>0, <2>1, <2>3 DEF TypeOK
  <2> QED BY <2>1, <2>3, <2>4, <2>5 DEF bull, callers
<1>11. ASSUME NEW p \in publishing, Publish(p) PROVE FinalEventsAreTrue'
  <2>1. p.event \in Events /\ Told(p.event)
    BY <1>0 DEF TypeOK, Calls
  <2>2. ASSUME NEW c \in Callers, NEW i \in DOMAIN Append(inbox[c], p.event)
        PROVE  Told(Append(inbox[c], p.event)[i])
    <3>1. inbox[c] \in Seq(Events)
      BY <1>0 DEF TypeOK
    <3>2. CASE i = Len(inbox[c]) + 1
      BY <2>1, <3>1, <3>2
    <3>3. CASE i # Len(inbox[c]) + 1
      <4>1. i \in DOMAIN inbox[c] /\ Append(inbox[c], p.event)[i] = inbox[c][i]
        BY <2>1, <3>1, <3>3
      <4> QED BY <4>1
    <3> QED BY <3>2, <3>3
  <2> QED BY <1>11, <2>2 DEF Publish, bull
<1>12. CASE UNCHANGED vars
  BY <1>12 DEF vars, bull, callers
<1> QED
  BY <1>1, <1>2, <1>3, <1>4, <1>5, <1>6, <1>7, <1>8, <1>9, <1>10, <1>11, <1>12
     DEF Next, Await, EndAttempt, PublishStep

\* An ended run's result is on its way to the cache, is cached before the
\* publication ends, and does not expire before the key.
LEMMA KeptStep == IInv /\ [Next]_vars => FreshResultKept'
<1> SUFFICES ASSUME IInv, [Next]_vars, NEW j \in (keys \ Uncached)'
             PROVE  (queue[j] # "none" \/ (j \in fresh /\ cache[j] # NoEvent) \/ ToBeCached(j))'
  BY DEF FreshResultKept
<1>0. TypeOK /\ TypeOK' /\ j \in Jobs /\ j \notin Uncached
  <2>1. Typed'
    BY TypeStep DEF IInv
  <2> QED BY <2>1, ConstantsOK DEF IInv, Typed, TypeOK
<1> USE DEF FreshResultKept, ToBeCached
<1>1. ASSUME NEW c \in Callers, NEW i \in Jobs, Call(c, i)
      PROVE  (queue[j] # "none" \/ (j \in fresh /\ cache[j] # NoEvent) \/ ToBeCached(j))'
  <2>1. CASE UNCHANGED <<queue, run, made, threw, keys, fresh>>
    BY <1>1, <2>1 DEF Call, IInv
  <2>2. CASE /\ queue' = [queue EXCEPT ![i] = "waiting"]
             /\ run' = [run EXCEPT ![i] = @ + 1]
             /\ keys' = KeysOf(i)
             /\ fresh' = fresh \ {i}
    <3>1. CASE j = i
      BY <1>0, <2>2, <3>1 DEF TypeOK
    <3>2. CASE j # i
      BY <1>0, <1>1, <2>2, <3>2 DEF Call, KeysOf, IInv, TypeOK
    <3> QED BY <3>1, <3>2
  <2> QED BY <1>1, <2>1, <2>2 DEF Call
<1>2. ASSUME NEW c \in Callers, Await(c)
      PROVE  (queue[j] # "none" \/ (j \in fresh /\ cache[j] # NoEvent) \/ ToBeCached(j))'
  BY <1>2 DEF Await, Subscribe, CheckCache, Receive, bull, results, IInv
<1>3. ASSUME NEW i \in Jobs, Start(i) \/ Stall(i) \/ KeyExpiry(i)
      PROVE  (queue[j] # "none" \/ (j \in fresh /\ cache[j] # NoEvent) \/ ToBeCached(j))'
  <2>1. CASE Start(i)
    BY <1>0, <2>1 DEF Start, results, IInv, TypeOK
  <2>2. CASE Stall(i)
    BY <1>0, <2>2 DEF Stall, results, IInv, TypeOK
  <2>3. CASE KeyExpiry(i)
    BY <1>0, <2>3 DEF KeyExpiry, results, IInv
  <2> QED BY <1>3, <2>1, <2>2, <2>3
<1>4. ASSUME NEW i \in Jobs, NEW status \in Statuses, UNCHANGED <<run, keys, results>>,
             queue' = [queue EXCEPT ![i] = IF status = "Retrying" THEN "delayed" ELSE "none"],
             publishing' = publishing \cup {Publishing(Event(i, status))}
      PROVE  (queue[j] # "none" \/ (j \in fresh /\ cache[j] # NoEvent) \/ ToBeCached(j))'
  <2>1. CASE j # i
    BY <1>0, <1>4, <2>1 DEF TypeOK, results, IInv
  <2>2. CASE j = i /\ status = "Retrying"
    BY <1>0, <1>4, <2>2 DEF TypeOK
  <2>3. CASE j = i /\ status # "Retrying"
    <3> DEFINE p == Publishing(Event(j, status))
    <3>1. p.event.job = j /\ p.event.run = run[j] /\ p.step = "cache"
      BY <1>0, <2>3 DEF Publishing, Event, eventIsFinal, Statuses
    <3>2. p \in publishing' /\ run'[j] = run[j]
      BY <1>4, <2>3
    <3> QED BY <3>1, <3>2
  <2> QED BY <2>1, <2>2, <2>3
<1>5. ASSUME NEW i \in Jobs, EndAttempt(i)
      PROVE  (queue[j] # "none" \/ (j \in fresh /\ cache[j] # NoEvent) \/ ToBeCached(j))'
  <2>1. CASE Complete(i)
    BY <1>4, <2>1 DEF Complete, Statuses
  <2>2. ASSUME NEW error, Fail(i, error)
        PROVE  (queue[j] # "none" \/ (j \in fresh /\ cache[j] # NoEvent) \/ ToBeCached(j))'
    <3> DEFINE retry == Retries(i, Rethrown(error))
               status == IF ReportsFailed(i, ~retry) THEN "Failed" ELSE "Retrying"
    <3>1. status = IF retry THEN "Retrying" ELSE "Failed"
      BY <1>0, ListenerAgrees
    <3>2. /\ queue' = [queue EXCEPT ![i] = IF retry THEN "delayed" ELSE "none"]
          /\ publishing' = publishing \cup {Publishing(Event(i, status))}
          /\ UNCHANGED <<run, keys, results>>
      BY <2>2 DEF Fail
    <3> HIDE DEF retry, status
    <3>3. CASE retry
      BY <1>4, <3>1, <3>2, <3>3 DEF Statuses
    <3>4. CASE ~retry
      BY <1>4, <3>1, <3>2, <3>4 DEF Statuses
    <3> QED BY <3>3, <3>4
  <2> QED BY <1>5, <2>1, <2>2 DEF EndAttempt
<1>6. ASSUME NEW i \in Jobs, CacheExpiry(i)
      PROVE  (queue[j] # "none" \/ (j \in fresh /\ cache[j] # NoEvent) \/ ToBeCached(j))'
  <2>1. /\ cache' = [cache EXCEPT ![i] = NoEvent] /\ ~(i \in keys /\ i \in fresh)
        /\ UNCHANGED <<queue, run, keys, fresh, publishing>>
    BY <1>6 DEF CacheExpiry, OutlivesKey, bull
  <2>2. j \in fresh => j # i
    BY <1>0, <2>1
  <2>3. j # i => cache'[j] = cache[j]
    BY <1>0, <2>1 DEF TypeOK
  <2> QED BY <2>1, <2>2, <2>3 DEF IInv
<1>7. ASSUME NEW p \in publishing, CacheEvent(p)
      PROVE  (queue[j] # "none" \/ (j \in fresh /\ cache[j] # NoEvent) \/ ToBeCached(j))'
  <2>1. p.event \in Events /\ p.event # NoEvent /\ p.event.job \in Jobs
    BY <1>0, NoEventIsNone DEF TypeOK, Calls, Events
  <2>2. CASE j = p.event.job
    BY <1>0, <1>7, <2>1, <2>2 DEF CacheEvent, TypeOK
  <2>3. CASE j # p.event.job
    BY <1>0, <1>7, <2>1, <2>3 DEF CacheEvent, TypeOK, IInv, bull
  <2> QED BY <2>2, <2>3
<1>8. ASSUME NEW p \in publishing, Publish(p)
      PROVE  (queue[j] # "none" \/ (j \in fresh /\ cache[j] # NoEvent) \/ ToBeCached(j))'
  BY <1>8 DEF Publish, bull, results, IInv
<1>9. CASE UNCHANGED vars
  BY <1>9 DEF vars, bull, results, IInv
<1> QED BY <1>1, <1>2, <1>3, <1>5, <1>6, <1>7, <1>8, <1>9 DEF Next, PublishStep

\* The inductive invariant of the queue and its events.
THEOREM IInvHolds == Spec => []IInv
<1>1. Init => IInv
  BY TypeInit, ConstantsOK DEF Init, IInv, CachesFinal, FinalEventsAreTrue, Told, FreshResultKept
<1>2. IInv /\ [Next]_vars => IInv'
  BY TypeStep, CachesFinalStep, TruthStep, KeptStep DEF IInv
<1> QED BY <1>1, <1>2, PTL DEF Spec

\* Every variable keeps its type.
THEOREM TypeCorrect == Spec => []TypeOK
<1>1. IInv => TypeOK
  BY DEF IInv, Typed
<1> QED BY <1>1, IInvHolds, PTL

\* A caller is never told that a job is over while its run goes on, nor an
\* outcome the run did not have, whatever stalls, retries or expires.
THEOREM EventsAreTrue == Spec => []FinalEventsAreTrue
<1>1. IInv => FinalEventsAreTrue
  BY DEF IInv
<1> QED BY <1>1, IInvHolds, PTL

\* A call that is ignored because of the deduplication key finds the result of the
\* run it joined, or the run, as long as the key lives.
THEOREM ResultOutlivesKey == Spec => []KeyedResultKept
<1>1. IInv => KeyedResultKept
  BY DEF IInv, FreshResultKept, ToBeCached, KeyedResultKept
<1> QED BY <1>1, IInvHolds, PTL
=============================================================================
