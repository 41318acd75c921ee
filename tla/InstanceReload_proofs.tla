------------------------ MODULE InstanceReload_proofs ------------------------
(***************************************************************************)
(* Proofs about InstanceReload, for any number of instances, any interval  *)
(* between rotations and any scenarios: its types, that a quiet instance   *)
(* is fresh, and that the key in use is published by all, is stored and is *)
(* replaced in time.                                                       *)
(***************************************************************************)
EXTENDS InstanceReload, FiniteSetTheorems, TLAPS

-----------------------------------------------------------------------------
(* The invariant. *)

\* The last w of the first n keys.
Last(n, w) == (IF n <= w THEN 1 ELSE n - w + 1)..n

\* In every scenario.  The keys that exist are the last ones made, at most three,
\* and two between the delete and the create of a rotation.
KeysInv ==
  /\ made \in Seq(Nat)
  /\ \E w \in 1..3 : blobs = Last(Len(made), w) /\ (creating => w <= 2)

LoadsInv ==
  \A i \in Instances, s \in {1, 2} :
    /\ load[i][s].stage = "none" => load[i][s] = NoLoad
    /\ load[i][s].stage # "none" => i \in up /\ s \in Slots

BaseInv ==
  /\ TypeOK /\ KeysInv /\ LoadsInv
  /\ lastDay \in Nat
  /\ tx # {} => committed < MaxVersion

Elements(q) == {q[n] : n \in DOMAIN q}

\* The keys that an instance takes over when n is the newest and those of M are
\* mature: the last three, of which it uses the newest or the one before.
Takes(q, n, M) ==
  /\ 1 \in DOMAIN q /\ Elements(q) = Last(n, 3)
  /\ q[1] \in {n - 1, n} /\ (q[1] = n => n = 1 \/ n \in M)

\* Instance i is told of the rotation, or loads already.
WillLoad(i) == job # {} \/ timer # {} \/ Loading(i)

\* What instance i holds is as new as the keys, or the rotation was today and it is
\* about to load.
HeldInv(i) ==
  LET n == Len(made) q == held[i].keys
  IN \/ Takes(q, n, mature)
     \/ /\ n >= 2 /\ Takes(q, n - 1, mature)
        /\ ~due /\ made[n] = day /\ WillLoad(i)

\* When the night's job alone rotates.
LoadedKeys ==
  /\ \A i \in Instances : held[i].keys # <<>> <=> i \in subscribed
  /\ \A i \in up \ subscribed : Loading(i)
  /\ \A i \in Instances, s \in {1, 2} :
       load[i][s].keys # <<>> => Takes(load[i][s].keys, Len(made), mature)
  /\ \A i \in subscribed : HeldInv(i)

RotationInv ==
  LET n == Len(made)
  IN /\ blobs = Last(n, IF creating THEN 2 ELSE 3)
     /\ \A i \in Instances, s \in {1, 2} : Waiting(i, s) => n <= 1
     /\ creating => NeedsInitialisation /\ (n >= 1 => job # {})
     /\ due => n >= 1 /\ tx = {} /\ timer = {} /\ \A i \in Instances : ~Loading(i)
     /\ job # {} => ~jobDue /\ job \subseteq subscribed /\ (due \/ (n >= 2 /\ made[n] = day))

CalendarInv ==
  LET n == Len(made)
  IN /\ \A k \in mature : made[k] < day
     /\ n = 0 => ~jobDue /\ job = {}
     /\ n >= 1 => /\ day <= made[n] + RotateAfter + 1
                  /\ day = made[n] + RotateAfter + 1 => due /\ (jobDue \/ job # {})
     /\ n >= 2 => made[n] <= made[n - 1] + RotateAfter + 1

NightInv == RotatedByNight => LoadedKeys /\ RotationInv /\ CalendarInv

\* When nothing disturbs the reloads: who has not the committed data will load it.
Fresh == Undisturbed /\ ("slow" \in events => topic = "oidc")

WillRead(i) == load[i][1].stage # "none" /\ load[i][1].data = Default

FreshInv ==
  Fresh =>
    /\ \A i \in up :
         IF load[i][1].stage = "none" THEN i \in subscribed
         ELSE timer # {} \/ load[i][1].data \in {Default, committed}
    /\ \A i \in subscribed :
         load[i][1].stage = "none" => held[i].data = committed \/ timer # {}
    /\ tx # {} => timer # {} \/ (topic = "oidc" /\ \A i \in up : WillRead(i))
    /\ topic # "oidc" => tx \subseteq timer

IInv == BaseInv /\ NightInv /\ FreshInv

-----------------------------------------------------------------------------
(* The keys. *)

\* The keys above k among a..b, and the newest of them.
LEMMA Above ==
  ASSUME NEW a \in Nat, NEW b \in Nat, NEW k \in a..b
  PROVE  Cardinality({l \in a..b : l > k}) = b - k
<1>1. {l \in a..b : l > k} = (k + 1)..b
  OBVIOUS
<1>2. k + 1 \in Int /\ b \in Int /\ (k + 1 > b => b - k = 0)
  OBVIOUS
<1>3. Cardinality((k + 1)..b) = IF k + 1 > b THEN 0 ELSE b - (k + 1) + 1
  BY <1>2, FS_Interval
<1>4. Cardinality((k + 1)..b) = b - k
  BY <1>2, <1>3
<1> QED  BY <1>1, <1>4, Zenon

LEMMA Newest ==
  ASSUME NEW a \in Nat, NEW b \in Nat, a <= b
  PROVE  MaxKey(a..b) = b
<1>1. b \in a..b /\ \A l \in a..b : l <= b
  OBVIOUS
<1>2. \A k \in a..b : (\A l \in a..b : l <= k) => k = b
  OBVIOUS
<1> QED  BY <1>1, <1>2 DEF MaxKey

\* listKeyBlobs lists an interval from its upper end.
LEMMA InOrder ==
  ASSUME NEW a \in Nat, NEW b \in Nat, a <= b + 1
  PROVE  NewestToOldest(a..b) = [n \in 1..(b - a + 1) |-> b - n + 1]
<1>1. Cardinality(a..b) = b - a + 1
  <2>1. Cardinality(a..b) = IF a > b THEN 0 ELSE b - a + 1
    BY FS_Interval
  <2> QED  BY <2>1
<1>2. ASSUME NEW n \in 1..(b - a + 1)
      PROVE  (CHOOSE k \in a..b : Cardinality({l \in a..b : l > k}) = n - 1) = b - n + 1
  <2>1. b - n + 1 \in a..b
    OBVIOUS
  <2>2. Cardinality({l \in a..b : l > b - n + 1}) = n - 1
    <3>1. Cardinality({l \in a..b : l > b - n + 1}) = b - (b - n + 1)
      BY <2>1, Above
    <3> QED  BY <3>1
  <2>3. ASSUME NEW k \in a..b, Cardinality({l \in a..b : l > k}) = n - 1
        PROVE  k = b - n + 1
    <3>1. Cardinality({l \in a..b : l > k}) = b - k
      BY Above
    <3> QED  BY <2>3, <3>1
  <2> QED  BY <2>1, <2>2, <2>3
<1> QED  BY <1>1, <1>2 DEF NewestToOldest

LEMMA LastBounds ==
  ASSUME NEW n \in Nat, NEW w \in 1..3
  PROVE  /\ Last(n, w) \subseteq 1..n /\ IsFiniteSet(Last(n, w)) /\ Cardinality(Last(n, w)) <= w
         /\ Last(n, w) = {} <=> n = 0
         /\ n >= 1 => n \in Last(n, w) /\ MaxKey(Last(n, w)) = n
<1> DEFINE a == IF n <= w THEN 1 ELSE n - w + 1
<1>1. a \in 1..(n + 1) /\ (n >= 1 => a <= n) /\ n - a + 1 <= w /\ Last(n, w) = a..n
      /\ (n = 0 => a > n)
  BY DEF Last
<1> HIDE DEF a
<1>2. IsFiniteSet(a..n) /\ Cardinality(a..n) = IF a > n THEN 0 ELSE n - a + 1
  BY <1>1, FS_Interval
<1>3. n >= 1 => MaxKey(a..n) = n
  BY <1>1, Newest
<1> QED  BY <1>1, <1>2, <1>3

\* initialiseKeysFromDeduplicatedBackgroundJob keeps the last two, and adds one.
LEMMA RetainedLast ==
  ASSUME NEW n \in Nat, NEW w \in 1..3, blobs = Last(n, w)
  PROVE  Retained = Last(n, IF w <= 2 THEN w ELSE 2)
<1> DEFINE a == IF n <= w THEN 1 ELSE n - w + 1
<1>1. a \in Nat /\ blobs = a..n
  BY DEF Last
<1> HIDE DEF a
<1>2. \A k \in a..n : Cardinality({l \in a..n : l > k}) = n - k
  BY <1>1, Above
<1>3. Retained = {k \in a..n : n - k < 2}
  BY <1>1, <1>2 DEF Retained
<1> QED  BY <1>1, <1>3 DEF a, Last

LEMMA LastAndNext ==
  ASSUME NEW n \in Nat, NEW w \in 1..2
  PROVE  Last(n, w) \cup {n + 1} = Last(n + 1, w + 1)
  BY DEF Last

\* Lists of at most three keys of D, as in KeySequences.
KeyLists(D) == {<<>>} \cup [1..1 -> D] \cup [1..2 -> D] \cup [1..3 -> D]

LEMMA KeyListsGrow ==
  ASSUME NEW D, NEW E, D \subseteq E
  PROVE  KeyLists(D) \subseteq KeyLists(E)
  BY DEF KeyLists

\* What an instance takes over is a list of the keys that exist; with the last three
\* of them stored, it is one that Takes describes.
LEMMA NewestTaken ==
  ASSUME NEW n \in Nat \ {0}, NEW w \in 1..3, NEW M
  PROVE  /\ NewestToOldest(Last(n, w)) \in KeyLists(1..n)
         /\ NewestToOldest(Last(n, w)) # <<>>
         /\ NewestToOldest(Last(n, w))[1] = n
         /\ w = 3 /\ (n = 1 \/ n \in M) => Takes(NewestToOldest(Last(n, w)), n, M)
<1> DEFINE a == IF n <= w THEN 1 ELSE n - w + 1
           q == NewestToOldest(a..n)
<1>1. a \in 1..n /\ Last(n, w) = a..n /\ n - a + 1 \in 1..3
  BY DEF Last
<1> HIDE DEF a
<1>2. q = [k \in 1..(n - a + 1) |-> n - k + 1]
  BY <1>1, InOrder
<1> HIDE DEF q
<1>3. q \in KeyLists(1..n)
  <2>1. q \in [1..(n - a + 1) -> 1..n]
    BY <1>1, <1>2
  <2>2. n - a + 1 = 1 \/ n - a + 1 = 2 \/ n - a + 1 = 3
    BY <1>1
  <2> QED  BY <2>1, <2>2 DEF KeyLists
<1>4. 1 \in DOMAIN q /\ q[1] = n /\ DOMAIN q = 1..(n - a + 1)
  BY <1>1, <1>2
<1>5. Elements(q) = a..n
  <2>1. \A k \in DOMAIN q : q[k] \in a..n
    BY <1>1, <1>2
  <2>2. ASSUME NEW k \in a..n PROVE n - k + 1 \in DOMAIN q /\ q[n - k + 1] = k
    BY <1>1, <1>2
  <2> QED  BY <2>1, <2>2 DEF Elements
<1> QED  BY <1>1, <1>3, <1>4, <1>5 DEF q, Takes

LEMMA HeldBackTaken ==
  ASSUME NEW n \in Nat \ {0}, NEW w \in 1..3, blobs = Last(n, w)
  PROVE  /\ HeldBack \in KeyLists(1..n)
         /\ HeldBack # <<>>
         /\ w = 3 => Takes(HeldBack, n, mature)
<1>1. MaxKey(blobs) = n
  BY LastBounds
<1>2. CASE n \in mature
  BY <1>1, <1>2, NewestTaken DEF HeldBack
<1>3. CASE n \notin mature
  <2> DEFINE a == IF n <= w THEN 1 ELSE n - w + 1
             q == [k \in 1..(n - a) |-> n - k]
  <2>1. a \in 1..n /\ Last(n, w) = a..n /\ n - a \in 0..2 /\ (n = 1 => n - a = 0)
    BY DEF Last
  <2>2. n >= 2 /\ w = 3 => n - a >= 1
    OBVIOUS
  <2> HIDE DEF a
  <2>3. (a..n) \ {n} = a..(n - 1)
    BY <2>1
  <2>4. NewestToOldest(a..(n - 1)) = q
    <3>1. a \in Nat /\ n - 1 \in Nat /\ a <= (n - 1) + 1
      BY <2>1
    <3>2. NewestToOldest(a..(n - 1)) =
            [k \in 1..((n - 1) - a + 1) |-> (n - 1) - k + 1]
      BY <3>1, InOrder
    <3>3. /\ (n - 1) - a + 1 = n - a
          /\ \A k \in 1..(n - a) : (n - 1) - k + 1 = n - k
      BY <2>1
    <3> QED  BY <3>2, <3>3
  <2>5. HeldBack = Append(q, n)
    BY <1>1, <1>3, <2>1, <2>3, <2>4, Zenon DEF HeldBack
  <2>6. q \in Seq(1..n) /\ Len(q) = n - a /\ \A k \in 1..(n - a) : q[k] = n - k
    BY <2>1
  <2> HIDE DEF q
  <2> DEFINE h == Append(q, n)
  <2>7. /\ h \in Seq(1..n) /\ Len(h) = n - a + 1
        /\ \A k \in 1..(n - a) : h[k] = n - k
        /\ h[n - a + 1] = n
    BY <2>1, <2>6
  <2> HIDE DEF h
  <2>8. DOMAIN h = 1..(n - a + 1) /\ h \in [1..(n - a + 1) -> 1..n] /\ h # <<>>
    BY <2>1, <2>7
  <2>9. h \in KeyLists(1..n)
    <3>1. n - a + 1 = 1 \/ n - a + 1 = 2 \/ n - a + 1 = 3
      BY <2>1
    <3> QED  BY <2>8, <3>1 DEF KeyLists
  <2>10. Elements(h) = a..n
    <3>1. \A k \in DOMAIN h : h[k] \in a..n
      BY <2>1, <2>7, <2>8
    <3>2. ASSUME NEW k \in a..(n - 1) PROVE n - k \in DOMAIN h /\ h[n - k] = k
      BY <2>1, <2>7, <2>8
    <3>3. n - a + 1 \in DOMAIN h /\ h[n - a + 1] = n
      BY <2>1, <2>7, <2>8
    <3> QED  BY <2>1, <3>1, <3>2, <3>3 DEF Elements
  <2>11. w = 3 => h[1] = IF n = 1 THEN n ELSE n - 1
    BY <2>1, <2>2, <2>7
  <2>12. w = 3 => Takes(h, n, mature)
    BY <2>1, <2>8, <2>10, <2>11 DEF Takes
  <2> QED  BY <2>5, <2>8, <2>9, <2>12 DEF h
<1> QED  BY <1>2, <1>3

\* What was taken over stays so while keys mature.
LEMMA TakesMore ==
  ASSUME NEW q, NEW n, NEW M, NEW L, M \subseteq L, Takes(q, n, M)
  PROVE  Takes(q, n, L)
  BY DEF Takes

-----------------------------------------------------------------------------
(* Types, where the keys are, and who loads. *)

LoadOf(D) == [stage: {"none", "begun", "waiting"}, data: 0..MaxVersion, keys: KeyLists(D)]
HeldOf(D) == [data: 0..MaxVersion, keys: KeyLists(D)]

\* The load of instance i in slot s becomes r, the others stay.
Becomes(i, s, r) ==
  \A j \in Instances, t \in {1, 2} :
    load'[j][t] = IF j = i /\ t = s THEN r ELSE load[j][t]

LEMMA KeyTypes ==
  /\ KeySequences = KeyLists(DOMAIN made)
  /\ <<>> \in KeyLists(DOMAIN made)
  /\ BaseInv => /\ load \in [Instances -> [{1, 2} -> LoadOf(DOMAIN made)]]
                /\ held \in [Instances -> HeldOf(DOMAIN made)]
                /\ Len(made) \in Nat /\ DOMAIN made = 1..Len(made)
                /\ Slots \subseteq {1, 2} /\ NoLoad \in LoadOf(DOMAIN made)
<1>1. KeySequences = KeyLists(DOMAIN made) /\ <<>> \in KeyLists(DOMAIN made)
  BY DEF KeySequences, KeyLists
<1>2. NoLoad \in LoadOf(DOMAIN made)
  BY <1>1, ReloadConstants DEF NoLoad, LoadOf, Default
<1> QED  BY <1>1, <1>2 DEF BaseInv, TypeOK, KeysInv, LoadOf, HeldOf, Slots

\* The one slot that each of the loads' steps changes.
LEMMA OneSlot ==
  ASSUME BaseInv, NEW i \in Instances, NEW s \in {1, 2}
  PROVE  /\ \A r : load' = [load EXCEPT ![i][s] = r] => Becomes(i, s, r)
         /\ \A r \in LoadOf(DOMAIN made) : load' = [load EXCEPT ![i][s] = r] =>
              load' \in [Instances -> [{1, 2} -> LoadOf(DOMAIN made)]]
<1>1. load \in [Instances -> [{1, 2} -> LoadOf(DOMAIN made)]]
  BY KeyTypes
<1> QED  BY <1>1 DEF Becomes

\* A load begins, reads the data or the keys, or ends.
LEMMA LoadChanges ==
  ASSUME BaseInv, NEW i \in Instances, NEW s \in {1, 2}, NEW l, l = load[i][s]
  PROVE  /\ l \in LoadOf(DOMAIN made)
         /\ [l EXCEPT !.stage = "begun"] \in LoadOf(DOMAIN made)
         /\ [l EXCEPT !.data = committed] \in LoadOf(DOMAIN made)
         /\ [l EXCEPT !.stage = "waiting"] \in LoadOf(DOMAIN made)
         /\ NoLoad \in LoadOf(DOMAIN made) /\ NoLoad.stage = "none" /\ NoLoad.keys = <<>>
         /\ NoLoad.data = Default
         /\ \A q \in KeyLists(DOMAIN made) :
              /\ [l EXCEPT !.keys = q] \in LoadOf(DOMAIN made)
              /\ [l EXCEPT !.stage = "begun", !.keys = q] \in LoadOf(DOMAIN made)
<1>1. l \in LoadOf(DOMAIN made) /\ <<>> \in KeyLists(DOMAIN made)
  BY KeyTypes
<1>2. committed \in 0..MaxVersion /\ 0 \in 0..MaxVersion
  BY ReloadConstants DEF BaseInv, TypeOK
<1> QED  BY <1>1, <1>2 DEF LoadOf, NoLoad, Default

\* What an instance reads of the keys.
LEMMA ReadLists ==
  ASSUME BaseInv, ~NeedsInitialisation
  PROVE  /\ Len(made) \in Nat \ {0}
         /\ HeldBack \in KeyLists(DOMAIN made) /\ HeldBack # <<>>
         /\ NewestToOldest(blobs) \in KeyLists(DOMAIN made) /\ NewestToOldest(blobs) # <<>>
<1>1. PICK w \in 1..3 : blobs = Last(Len(made), w)
  BY DEF BaseInv, KeysInv
<1>2. Len(made) \in Nat /\ DOMAIN made = 1..Len(made)
  BY KeyTypes
<1>3. Len(made) # 0
  BY <1>1, <1>2, LastBounds DEF NeedsInitialisation
<1> QED  BY <1>1, <1>2, <1>3, HeldBackTaken, NewestTaken

\* The variables of the invariant that a step of a load leaves alone.
LEMMA LoadStep ==
  ASSUME BaseInv, NEW i \in Instances, NEW s \in {1, 2}, NEW r \in LoadOf(DOMAIN made),
         load' = [load EXCEPT ![i][s] = r],
         r.stage = "none" => r = NoLoad,
         r.stage # "none" => i \in up' /\ s \in Slots,
         up \subseteq up', up' \subseteq Instances, subscribed' \subseteq up',
         held' \in [Instances -> HeldOf(DOMAIN made)],
         UNCHANGED <<scenario, database, timer, clock, keyStore>>
  PROVE  BaseInv'
<1>1. Becomes(i, s, r) /\ load' \in [Instances -> [{1, 2} -> LoadOf(DOMAIN made)]]
  BY OneSlot
<1>2. LoadsInv'
  BY <1>1 DEF BaseInv, LoadsInv, Becomes, Slots, scenario
<1>3. KeySequences' = KeyLists(DOMAIN made)
  BY KeyTypes DEF KeySequences, KeyLists, keyStore
<1>4. TypeOK'
  BY <1>1, <1>3 DEF BaseInv, TypeOK, LoadOf, HeldOf, scenario, database, clock, keyStore
<1>5. KeysInv'
  BY DEF BaseInv, KeysInv, keyStore
<1> QED  BY <1>2, <1>4, <1>5 DEF BaseInv, database, scenario

LEMMA InitBase == Init => BaseInv
<1> SUFFICES ASSUME Init PROVE BaseInv
  OBVIOUS
<1>1. topic \in Topics /\ events \subseteq AllEvents /\ lastDay \in Nat
  BY ReloadConstants DEF Init
<1>2. KeyLists(DOMAIN made) = KeySequences /\ <<>> \in KeyLists(DOMAIN made)
  BY KeyTypes
<1>3. Nothing \in [data: 0..MaxVersion, keys: KeySequences]
      /\ NoLoad \in [stage: {"none", "begun", "waiting"}, data: 0..MaxVersion, keys: KeySequences]
  BY <1>2, ReloadConstants DEF Nothing, NoLoad, Default
<1>4. Cardinality(blobs) = 0
  BY FS_EmptySet DEF Init
<1>5. made \in Seq(Nat) /\ Len(made) = 0 /\ DOMAIN made = {}
  BY DEF Init
<1>6. TypeOK
  <2>1. held \in [Instances -> [data: 0..MaxVersion, keys: KeySequences]]
    BY <1>3 DEF Init
  <2>2. load \in [Instances -> [{1, 2} ->
          [stage: {"none", "begun", "waiting"}, data: 0..MaxVersion, keys: KeySequences]]]
    BY <1>3 DEF Init
  <2>3. committed \in 1..MaxVersion /\ day \in 0..lastDay
    BY <1>1, ReloadConstants DEF Init
  <2>4. /\ tx \subseteq up /\ timer \subseteq up /\ job \subseteq up
        /\ subscribed \subseteq up /\ up \subseteq Instances
        /\ jobDue \in BOOLEAN /\ due \in BOOLEAN /\ creating \in BOOLEAN
        /\ blobs \subseteq DOMAIN made /\ mature \subseteq DOMAIN made
    BY DEF Init
  <2>5. Cardinality(blobs) <= 3 /\ \A k \in DOMAIN made : made[k] \in 0..day
    BY <1>4, <1>5
  <2> QED  BY <1>1, <2>1, <2>2, <2>3, <2>4, <2>5 DEF TypeOK
<1>7. KeysInv
  <2>1. Last(0, 1) = {}
    BY LastBounds
  <2> QED  BY <1>5, <2>1 DEF KeysInv, Init
<1>8. LoadsInv
  BY DEF Init, LoadsInv, NoLoad
<1> QED  BY <1>1, <1>6, <1>7, <1>8 DEF BaseInv, Init

\* Steps of the loads.
LEMMA BaseLoads ==
  ASSUME BaseInv, NEW i \in Instances,
         \/ Start(i)
         \/ \E s \in {1, 2} : ReadData(i, s) \/ ReadKeys(i, s) \/ ReadNewKeys(i, s)
                              \/ Finish(i, s) \/ LoadFails(i, s)
  PROVE  BaseInv'
<1>0. /\ held \in [Instances -> HeldOf(DOMAIN made)] /\ Slots \subseteq {1, 2}
      /\ up \subseteq Instances /\ subscribed \subseteq up
  BY KeyTypes DEF BaseInv, TypeOK
<1>1. CASE Start(i)
  <2>1. PICK s \in Slots : /\ load[i][s].stage = "none"
                           /\ load' = [load EXCEPT ![i][s].stage = "begun"]
    BY <1>1 DEF Start, Begin
  <2> DEFINE r == [load[i][s] EXCEPT !.stage = "begun"]
  <2>2. r \in LoadOf(DOMAIN made) /\ r.stage = "begun"
    <3>1. load[i][s] \in LoadOf(DOMAIN made)
      BY <1>0, LoadChanges
    <3> QED  BY <3>1 DEF LoadOf
  <2>3. load' = [load EXCEPT ![i][s] = r]
    BY <2>1
  <2>4. /\ up' = up \cup {i}
        /\ UNCHANGED <<scenario, database, timer, subscribed, held, clock, keyStore>>
    BY <1>1 DEF Start
  <2> QED  BY <1>0, <2>2, <2>3, <2>4, LoadStep
<1>2. ASSUME NEW s \in {1, 2},
             ReadData(i, s) \/ ReadKeys(i, s) \/ ReadNewKeys(i, s) \/ Finish(i, s) \/ LoadFails(i, s)
      PROVE  BaseInv'
  <2> DEFINE l == load[i][s]
  <2>1. l \in LoadOf(DOMAIN made) /\ l.stage # "none" /\ i \in up /\ s \in Slots
    BY <1>2, LoadChanges DEF BaseInv, LoadsInv, ReadData, ReadKeys, ReadNewKeys, Finish,
       LoadFails
  <2>2. CASE ReadData(i, s)
    <3>1. load' = [load EXCEPT ![i][s] = [l EXCEPT !.data = committed]]
      BY <2>2 DEF ReadData
    <3>2. [l EXCEPT !.data = committed] \in LoadOf(DOMAIN made)
          /\ [l EXCEPT !.data = committed].stage = l.stage
      BY <2>1, LoadChanges DEF LoadOf
    <3>3. UNCHANGED <<scenario, database, timer, up, subscribed, held, clock, keyStore>>
      BY <2>2 DEF ReadData
    <3> QED  BY <1>0, <2>1, <3>1, <3>2, <3>3, LoadStep
  <2>3. CASE ReadKeys(i, s)
    <3>1. UNCHANGED <<scenario, database, timer, up, subscribed, held, clock, keyStore>>
      BY <2>3 DEF ReadKeys
    <3>2. CASE NeedsInitialisation
      <4>1. load' = [load EXCEPT ![i][s] = [l EXCEPT !.stage = "waiting"]]
        BY <2>3, <3>2 DEF ReadKeys
      <4>2. [l EXCEPT !.stage = "waiting"] \in LoadOf(DOMAIN made)
            /\ [l EXCEPT !.stage = "waiting"].stage = "waiting"
        BY <2>1, LoadChanges DEF LoadOf
      <4> QED  BY <1>0, <2>1, <3>1, <4>1, <4>2, LoadStep
    <3>3. CASE ~NeedsInitialisation
      <4>1. load' = [load EXCEPT ![i][s] = [l EXCEPT !.keys = HeldBack]]
        BY <2>3, <3>3 DEF ReadKeys
      <4>2. [l EXCEPT !.keys = HeldBack] \in LoadOf(DOMAIN made)
            /\ [l EXCEPT !.keys = HeldBack].stage = l.stage
        BY <2>1, <3>3, ReadLists, LoadChanges DEF LoadOf
      <4> QED  BY <1>0, <2>1, <3>1, <4>1, <4>2, LoadStep
    <3> QED  BY <3>2, <3>3
  <2>4. CASE ReadNewKeys(i, s)
    <3> DEFINE r == [l EXCEPT !.stage = "begun", !.keys = NewestToOldest(blobs)]
    <3>1. load' = [load EXCEPT ![i][s] = r]
      BY <2>4 DEF ReadNewKeys
    <3>2. r \in LoadOf(DOMAIN made) /\ r.stage = "begun"
      BY <2>1, <2>4, ReadLists, LoadChanges DEF LoadOf, ReadNewKeys
    <3>3. UNCHANGED <<scenario, database, timer, up, subscribed, held, clock, keyStore>>
      BY <2>4 DEF ReadNewKeys
    <3> QED  BY <1>0, <2>1, <3>1, <3>2, <3>3, LoadStep
  <2>5. CASE Finish(i, s)
    <3>1. load' = [load EXCEPT ![i][s] = NoLoad] /\ subscribed' = subscribed \cup {i}
          /\ held' = [held EXCEPT ![i] = [data |-> l.data, keys |-> l.keys]]
          /\ UNCHANGED <<scenario, database, timer, up, clock, keyStore>>
      BY <2>5 DEF Finish
    <3>2. [data |-> l.data, keys |-> l.keys] \in HeldOf(DOMAIN made)
      BY <2>1 DEF LoadOf, HeldOf
    <3>3. held' \in [Instances -> HeldOf(DOMAIN made)]
      BY <1>0, <3>1, <3>2
    <3> QED  BY <1>0, <2>1, <3>1, <3>3, LoadChanges, LoadStep
  <2>6. CASE LoadFails(i, s)
    <3>1. load' = [load EXCEPT ![i][s] = NoLoad]
          /\ subscribed' \in {subscribed, subscribed \cup {i}}
          /\ UNCHANGED <<scenario, database, timer, up, held, clock, keyStore>>
      BY <2>6 DEF LoadFails
    <3>2. subscribed' \subseteq up /\ NoLoad \in LoadOf(DOMAIN made) /\ NoLoad.stage = "none"
      BY <1>0, <2>1, <3>1, LoadChanges
    <3>3. held' \in [Instances -> HeldOf(DOMAIN made)] /\ up' = up
      BY <1>0, <3>1
    <3>4. UNCHANGED <<scenario, database, timer, clock, keyStore>>
      BY <3>1
    <3>5. up \subseteq up' /\ up' \subseteq Instances /\ subscribed' \subseteq up'
          /\ s \in {1, 2} /\ load' = [load EXCEPT ![i][s] = NoLoad]
          /\ (NoLoad.stage # "none" => i \in up' /\ s \in Slots)
      BY <1>0, <2>1, <3>1, <3>2, <3>3
    <3> QED  BY <3>2, <3>3, <3>4, <3>5, LoadStep, Zenon
  <2> QED  BY <1>2, <2>2, <2>3, <2>4, <2>5, <2>6
<1> QED  BY <1>1, <1>2

\* Where the keys are gives their number.
LEMMA FewKeys ==
  ASSUME KeysInv
  PROVE  blobs \subseteq DOMAIN made /\ Cardinality(blobs) <= 3
<1>1. PICK w \in 1..3 : blobs = Last(Len(made), w)
  BY DEF KeysInv
<1>2. Len(made) \in Nat /\ DOMAIN made = 1..Len(made)
  BY DEF KeysInv
<1>3. /\ Last(Len(made), w) \subseteq 1..Len(made) /\ IsFiniteSet(Last(Len(made), w))
      /\ Cardinality(Last(Len(made), w)) <= w
  BY <1>2, LastBounds
<1>4. Cardinality(Last(Len(made), w)) \in Nat
  BY <1>3, FS_CardinalityType
<1>5. \A c \in Nat : c <= w => c <= 3
  OBVIOUS
<1> QED  BY <1>1, <1>2, <1>3, <1>4, <1>5, Zenon

\* Steps that neither load nor make a key.
LEMMA BaseKept ==
  ASSUME BaseInv, UNCHANGED <<scenario, memory, made>>, KeysInv',
         committed' \in 1..MaxVersion, tx' \subseteq up, tx' # {} => committed' < MaxVersion,
         timer' \subseteq up, job' \subseteq up, jobDue' \in BOOLEAN, day' \in day..lastDay,
         mature' \subseteq DOMAIN made, due' \in BOOLEAN, creating' \in BOOLEAN
  PROVE  BaseInv'
<1>1. KeySequences' = KeySequences
  BY DEF KeySequences
<1>2. blobs' \subseteq DOMAIN made' /\ Cardinality(blobs') <= 3
  <2>1. (blobs \subseteq DOMAIN made /\ Cardinality(blobs) <= 3)'
    BY FewKeys, PTL
  <2> QED  BY <2>1
<1>3. \A k \in DOMAIN made : made[k] \in 0..day'
  BY DEF BaseInv, TypeOK
<1>4. TypeOK'
  <2>1. /\ topic' = topic /\ events' = events /\ lastDay' = lastDay /\ up' = up
        /\ subscribed' = subscribed /\ held' = held /\ load' = load /\ made' = made
    BY DEF scenario, memory
  <2>2. day' \in 0..lastDay'
    BY <2>1 DEF BaseInv, TypeOK
  <2> QED  BY <1>1, <1>2, <1>3, <2>1, <2>2 DEF BaseInv, TypeOK
<1>5. LoadsInv'
  BY DEF BaseInv, LoadsInv, Slots, scenario, memory
<1> QED  BY <1>4, <1>5 DEF BaseInv, scenario

LEMMA BaseCommands ==
  ASSUME BaseInv, NEW i \in Instances,
         Edit(i) \/ Commit(i) \/ RunJob(i) \/ RunJobAfter(i)
  PROVE  BaseInv'
<1>1. UNCHANGED <<scenario, memory, made>> /\ KeysInv'
  BY DEF BaseInv, KeysInv, Edit, Commit, RunJob, RunJobAfter, keyStore
<1>2. timer' \subseteq up /\ job' \subseteq up
  BY DEF Edit, Commit, RunJob, RunJobAfter, Compare, BaseInv, TypeOK, clock
<1>5. jobDue' \in {jobDue, FALSE} /\ day' = day
  BY DEF Edit, Commit, RunJob, RunJobAfter, clock
<1>6. jobDue' \in BOOLEAN /\ day' \in day..lastDay
  <2>1. jobDue \in BOOLEAN /\ day \in 0..lastDay /\ lastDay \in Nat
    BY DEF BaseInv, TypeOK
  <2>2. jobDue' \in BOOLEAN
    BY <1>5, <2>1, Zenon
  <2> QED  BY <1>5, <2>1, <2>2
<1>3. mature' \subseteq DOMAIN made /\ due' \in BOOLEAN /\ creating' \in BOOLEAN
  BY DEF Edit, Commit, RunJob, RunJobAfter, BaseInv, TypeOK, keyStore
<1>4. committed' \in 1..MaxVersion /\ tx' \subseteq up /\ (tx' # {} => committed' < MaxVersion)
  BY ReloadConstants DEF Edit, Commit, RunJob, RunJobAfter, BaseInv, TypeOK, database
<1> QED  BY <1>1, <1>2, <1>3, <1>4, <1>6, BaseKept

LEMMA BaseTime ==
  ASSUME BaseInv,
         (\E k \in DOMAIN made : Mature(k)) \/ BecomeDue \/ NextDay \/ RotateDelete
  PROVE  BaseInv'
<1>1. UNCHANGED <<scenario, memory, made>> /\ UNCHANGED <<database, timer, job>>
  BY DEF Mature, BecomeDue, NextDay, RotateDelete, clock, keyStore
<1>2. KeysInv'
  <2>1. CASE RotateDelete
    <3>1. PICK w \in 1..3 : blobs = Last(Len(made), w)
      BY DEF BaseInv, KeysInv
    <3>2. Retained = Last(Len(made), IF w <= 2 THEN w ELSE 2)
      BY <3>1, KeyTypes, RetainedLast
    <3>3. blobs' = Retained /\ (IF w <= 2 THEN w ELSE 2) \in 1..2
      BY <2>1 DEF RotateDelete
    <3> QED  BY <1>1, <3>2, <3>3 DEF BaseInv, KeysInv
  <2>2. CASE UNCHANGED <<made, blobs, creating>>
    BY <2>2 DEF BaseInv, KeysInv
  <2> QED  BY <2>1, <2>2 DEF Mature, BecomeDue, NextDay, keyStore
<1>3. jobDue' \in BOOLEAN /\ day' \in day..lastDay
  <2>1. jobDue' \in {jobDue, TRUE} /\ (day' = day \/ (day' = day + 1 /\ day < lastDay))
    BY DEF Mature, BecomeDue, NextDay, RotateDelete, clock
  <2>2. jobDue \in BOOLEAN /\ day \in 0..lastDay /\ lastDay \in Nat
    BY DEF BaseInv, TypeOK
  <2>3. jobDue' \in BOOLEAN
    BY <2>1, <2>2, Zenon
  <2> QED  BY <2>1, <2>2, <2>3
<1>4. mature' \subseteq DOMAIN made /\ due' \in BOOLEAN /\ creating' \in BOOLEAN
  BY DEF Mature, BecomeDue, NextDay, RotateDelete, BaseInv, TypeOK, keyStore
<1> QED  BY <1>1, <1>2, <1>3, <1>4, BaseKept DEF BaseInv, TypeOK, database

\* Steps that change what several instances load.
LEMMA BaseMany ==
  ASSUME BaseInv, NEW i, Stop(i) \/ Publish(i) \/ RotateFails
  PROVE  BaseInv'
<1>0. /\ load \in [Instances -> [{1, 2} -> LoadOf(DOMAIN made)]]
      /\ held \in [Instances -> HeldOf(DOMAIN made)]
      /\ Slots \subseteq {1, 2} /\ NoLoad \in LoadOf(DOMAIN made)
      /\ NoLoad.stage = "none"
  BY KeyTypes DEF NoLoad
<1>1. KeySequences' = KeyLists(DOMAIN made)
  BY KeyTypes DEF KeySequences, KeyLists, Stop, Publish, RotateFails, keyStore
<1>2. /\ load' \in [Instances -> [{1, 2} -> LoadOf(DOMAIN made)]]
      /\ LoadsInv' /\ held' \in [Instances -> HeldOf(DOMAIN made)]
  <2>1. CASE Stop(i)
    <3>1. /\ load' = [load EXCEPT ![i] = [s \in {1, 2} |-> NoLoad]]
          /\ held' = [held EXCEPT ![i] = Nothing] /\ up' = up \ {i}
          /\ events' = events
      BY <2>1 DEF Stop, scenario
    <3>2. Nothing \in HeldOf(DOMAIN made)
      BY KeyTypes, ReloadConstants DEF Nothing, HeldOf, Default
    <3>3. \A j \in Instances, s \in {1, 2} :
            load'[j][s] = IF j = i THEN NoLoad ELSE load[j][s]
      BY <1>0, <3>1
    <3> QED  BY <1>0, <3>1, <3>2, <3>3 DEF BaseInv, LoadsInv, Slots
  <2>2. CASE RotateFails
    <3>1. /\ load' = [j \in Instances |-> [s \in {1, 2} |->
                        IF Waiting(j, s) THEN NoLoad ELSE load[j][s]]]
          /\ UNCHANGED <<held, up, events>>
      BY <2>2 DEF RotateFails, scenario
    <3>2. \A j \in Instances, s \in {1, 2} : load'[j][s] \in {NoLoad, load[j][s]}
      BY <3>1
    <3> QED  BY <1>0, <3>1, <3>2 DEF BaseInv, LoadsInv, Slots
  <2>3. CASE Publish(i)
    <3>1. /\ load' = [j \in Instances |->
                IF j \in subscribed THEN [load[j] EXCEPT ![FreeSlot(j)].stage = "begun"]
                ELSE load[j]]
          /\ held' = [j \in Instances |-> IF j \in subscribed THEN AtBegin(held[j]) ELSE held[j]]
          /\ \A j \in subscribed : CanLoad(j)
          /\ UNCHANGED <<up, events>>
      BY <2>3 DEF Publish, scenario, Notified
    <3>2. \A h \in HeldOf(DOMAIN made) : AtBegin(h) \in HeldOf(DOMAIN made)
      BY ReloadConstants DEF AtBegin, HeldOf, Default
    <3>3. \A j \in subscribed : FreeSlot(j) \in Slots /\ j \in up
      BY <3>1 DEF CanLoad, FreeSlot, Slots, BaseInv, TypeOK
    <3>4. \A l \in LoadOf(DOMAIN made) :
            /\ [l EXCEPT !.stage = "begun"] \in LoadOf(DOMAIN made)
            /\ [l EXCEPT !.stage = "begun"].stage = "begun"
      BY DEF LoadOf
    <3>5. \A j \in Instances, s \in {1, 2} :
            load'[j][s] = IF j \in subscribed /\ s = FreeSlot(j)
                          THEN [load[j][s] EXCEPT !.stage = "begun"] ELSE load[j][s]
      BY <1>0, <3>1, <3>3
    <3>6. LoadsInv'
      BY <1>0, <3>1, <3>3, <3>4, <3>5 DEF BaseInv, LoadsInv, Slots
    <3>7. load' \in [Instances -> [{1, 2} -> LoadOf(DOMAIN made)]]
      BY <1>0, <3>1, <3>3, <3>4
    <3> QED  BY <1>0, <3>1, <3>2, <3>6, <3>7
  <2> QED  BY <2>1, <2>2, <2>3
<1>3. KeysInv' /\ made' = made
  BY DEF BaseInv, KeysInv, Stop, Publish, RotateFails, keyStore
<1>4. /\ topic' \in Topics /\ events' \subseteq AllEvents /\ lastDay' \in Nat
      /\ committed' \in 1..MaxVersion /\ (tx' # {} => committed' < MaxVersion)
      /\ day' \in 0..lastDay' /\ \A k \in DOMAIN made' : made'[k] \in 0..day'
  BY <1>3 DEF BaseInv, TypeOK, Stop, Publish, RotateFails, scenario, database, clock
<1>5. /\ tx' \subseteq up' /\ timer' \subseteq up' /\ job' \subseteq up'
      /\ subscribed' \subseteq up' /\ up' \subseteq Instances
  BY DEF BaseInv, TypeOK, Stop, Publish, RotateFails, scenario, database, clock
<1>6. jobDue' \in BOOLEAN
  BY DEF BaseInv, TypeOK, Stop, Publish, RotateFails, clock
<1>7. /\ blobs' \subseteq DOMAIN made' /\ Cardinality(blobs') <= 3
      /\ mature' \subseteq DOMAIN made' /\ due' \in BOOLEAN /\ creating' \in BOOLEAN
  BY <1>3 DEF BaseInv, TypeOK, Stop, Publish, RotateFails, keyStore
<1>8. TypeOK'
  BY <1>1, <1>2, <1>4, <1>5, <1>6, <1>7 DEF TypeOK, LoadOf, HeldOf
<1> QED  BY <1>2, <1>3, <1>4, <1>8 DEF BaseInv

LEMMA BaseCreate ==
  ASSUME BaseInv, RotateCreate
  PROVE  BaseInv'
<1>0. /\ made \in Seq(Nat) /\ Len(made) \in Nat /\ DOMAIN made = 1..Len(made)
      /\ day \in Nat /\ made' = Append(made, day) /\ Len(made') = Len(made) + 1
      /\ blobs' = blobs \cup {Len(made) + 1} /\ creating /\ creating' = FALSE
      /\ UNCHANGED <<scenario, database, timer, memory, clock, mature>> /\ due' = FALSE
  BY KeyTypes DEF BaseInv, TypeOK, KeysInv, RotateCreate
<1>1. /\ made' \in Seq(Nat) /\ DOMAIN made' = 1..(Len(made) + 1)
      /\ \A k \in DOMAIN made : made'[k] = made[k] /\ k \in DOMAIN made'
      /\ made'[Len(made) + 1] = day
  BY <1>0
<1>2. KeysInv'
  <2>1. PICK w \in 1..2 : blobs = Last(Len(made), w)
    BY <1>0 DEF BaseInv, KeysInv
  <2>2. blobs' = Last(Len(made'), w + 1) /\ w + 1 \in 1..3
    <3>1. Last(Len(made), w) \cup {Len(made) + 1} = Last(Len(made) + 1, w + 1)
      BY <1>0, LastAndNext
    <3>2. w + 1 \in 1..3
      OBVIOUS
    <3> QED  BY <1>0, <2>1, <3>1, <3>2, Zenon
  <2> QED  BY <1>0, <1>1, <2>2 DEF KeysInv
<1>3. KeyLists(DOMAIN made) \subseteq KeyLists(DOMAIN made')
  BY <1>1, KeyListsGrow
<1>4. KeySequences' = KeyLists(DOMAIN made')
  BY DEF KeySequences, KeyLists
<1>5. /\ load' \in [Instances -> [{1, 2} -> LoadOf(DOMAIN made')]]
      /\ held' \in [Instances -> HeldOf(DOMAIN made')]
  <2>1. LoadOf(DOMAIN made) \subseteq LoadOf(DOMAIN made')
        /\ HeldOf(DOMAIN made) \subseteq HeldOf(DOMAIN made')
    BY <1>3 DEF LoadOf, HeldOf
  <2>2. load' = load /\ held' = held
    BY <1>0 DEF memory
  <2> QED  BY <2>1, <2>2, KeyTypes
<1>6. blobs' \subseteq DOMAIN made' /\ Cardinality(blobs') <= 3
  <2>1. (blobs \subseteq DOMAIN made /\ Cardinality(blobs) <= 3)'
    BY <1>2, FewKeys, PTL
  <2> QED  BY <2>1
<1>7. /\ \A k \in DOMAIN made' : made'[k] \in 0..day'
      /\ mature' \subseteq DOMAIN made'
  BY <1>0, <1>1 DEF BaseInv, TypeOK, clock
<1>8. TypeOK'
  <2>1. /\ topic' = topic /\ events' = events /\ lastDay' = lastDay /\ committed' = committed
        /\ tx' = tx /\ timer' = timer /\ up' = up /\ subscribed' = subscribed
        /\ day' = day /\ jobDue' = jobDue /\ job' = job
    BY <1>0 DEF scenario, database, memory, clock
  <2>2. due' \in BOOLEAN /\ creating' \in BOOLEAN
    BY <1>0 DEF RotateCreate
  <2> QED  BY <1>4, <1>5, <1>6, <1>7, <2>1, <2>2 DEF BaseInv, TypeOK, LoadOf, HeldOf
<1>9. LoadsInv'
  BY <1>0 DEF BaseInv, LoadsInv, Slots, scenario, memory
<1> QED  BY <1>0, <1>2, <1>8, <1>9 DEF BaseInv, scenario, database

LEMMA BaseStep == BaseInv /\ [Next]_vars => BaseInv'
<1> SUFFICES ASSUME BaseInv, [Next]_vars PROVE BaseInv'
  OBVIOUS
<1>1. ASSUME NEW i \in Instances, Work(i) \/ Start(i) \/ Stop(i) \/ Edit(i) \/ RunJob(i)
      PROVE  BaseInv'
  BY <1>1, BaseLoads, BaseCommands, BaseMany DEF Work
<1>2. ASSUME NEW i \in Instances, NEW s \in {1, 2}, LoadFails(i, s)
      PROVE  BaseInv'
  BY <1>2, BaseLoads
<1>3. CASE Rotate \/ RotateFails
  BY <1>3, BaseTime, BaseCreate, BaseMany DEF Rotate
<1>4. CASE (\E k \in DOMAIN made : Mature(k)) \/ BecomeDue \/ NextDay
  BY <1>4, BaseTime
<1>5. CASE UNCHANGED vars
  <2>1. KeysInv'
    BY <1>5 DEF BaseInv, KeysInv, vars, keyStore
  <2> QED  BY <1>5, <2>1, BaseKept
           DEF BaseInv, TypeOK, vars, database, memory, clock, keyStore
<1> QED  BY <1>1, <1>2, <1>3, <1>4, <1>5 DEF Next

LEMMA SameScenario == [Next]_vars => UNCHANGED scenario
<1> SUFFICES ASSUME [Next]_vars PROVE UNCHANGED scenario
  OBVIOUS
<1>1. ASSUME NEW i, NEW s, ReadData(i, s) \/ ReadKeys(i, s) \/ ReadNewKeys(i, s) \/ Finish(i, s)
      PROVE  UNCHANGED scenario
  BY <1>1 DEF ReadData, ReadKeys, ReadNewKeys, Finish
<1>2. ASSUME NEW i, Commit(i) \/ Publish(i) \/ RunJobAfter(i)
      PROVE  UNCHANGED scenario
  BY <1>2 DEF Commit, Publish, RunJobAfter
<1>3. ASSUME NEW i, Start(i) \/ Stop(i) \/ Edit(i) \/ RunJob(i)
      PROVE  UNCHANGED scenario
  BY <1>3 DEF Start, Stop, Edit, RunJob
<1>4. ASSUME NEW i, NEW s, LoadFails(i, s) PROVE UNCHANGED scenario
  BY <1>4 DEF LoadFails
<1>5. CASE Rotate \/ RotateFails
  BY <1>5 DEF Rotate, RotateDelete, RotateCreate, RotateFails
<1>6. CASE (\E k \in DOMAIN made : Mature(k)) \/ BecomeDue \/ NextDay \/ UNCHANGED vars
  BY <1>6 DEF Mature, BecomeDue, NextDay, vars
<1>7. ASSUME NEW i, Work(i) PROVE UNCHANGED scenario
  BY <1>1, <1>2, <1>7, Zenon DEF Work
<1> QED  BY <1>3, <1>4, <1>5, <1>6, <1>7, Zenon DEF Next

-----------------------------------------------------------------------------
(* A quiet instance is fresh. *)

\* In an undisturbed scenario there is one load at a time, and nothing fails or stops.
LEMMA OneLoad ==
  ASSUME BaseInv, Fresh
  PROVE  /\ Slots = {1} /\ "fail" \notin events /\ "restart" \notin events
         /\ committed # Default
         /\ \A i \in Instances : Loading(i) <=> load[i][1].stage # "none"
         /\ \A i \in Instances : load[i][1].stage = "none" => load[i][1] = NoLoad
<1>1. Slots = {1} /\ "fail" \notin events /\ "restart" \notin events
  BY DEF Fresh, Undisturbed, Slots
<1>2. \A i \in Instances : load[i][2].stage = "none"
  BY <1>1 DEF BaseInv, LoadsInv
<1>3. committed # Default
  BY ReloadConstants DEF BaseInv, TypeOK, Default
<1> QED  BY <1>1, <1>2, <1>3 DEF BaseInv, LoadsInv, Loading

LEMMA FreshLoads ==
  ASSUME BaseInv, FreshInv, Fresh, Fresh', NEW i \in Instances,
         \/ Start(i)
         \/ \E s \in {1, 2} : ReadData(i, s) \/ ReadKeys(i, s) \/ ReadNewKeys(i, s) \/ Finish(i, s)
  PROVE  FreshInv'
<1>0. /\ load \in [Instances -> [{1, 2} -> LoadOf(DOMAIN made)]]
      /\ held \in [Instances -> HeldOf(DOMAIN made)] /\ NoLoad \in LoadOf(DOMAIN made)
      /\ subscribed \subseteq up /\ up \subseteq Instances
  BY KeyTypes DEF BaseInv, TypeOK
<1>1. CASE Start(i)
  <2>1. /\ load[i][1] = NoLoad
        /\ load' = [load EXCEPT ![i][1] = [load[i][1] EXCEPT !.stage = "begun"]]
        /\ i \notin up /\ up' = up \cup {i}
        /\ UNCHANGED <<topic, subscribed, held, committed, tx, timer>>
    BY <1>1, OneLoad DEF Start, Begin, scenario, database
  <2>2. /\ load'[i][1].stage = "begun" /\ load'[i][1].data = Default
        /\ \A j \in Instances : j # i => load'[j][1] = load[j][1]
    BY <1>0, <2>1 DEF LoadOf, NoLoad
  <2> QED  BY <1>0, <2>1, <2>2 DEF FreshInv, WillRead
<1>2. ASSUME NEW s \in {1, 2},
             ReadData(i, s) \/ ReadKeys(i, s) \/ ReadNewKeys(i, s) \/ Finish(i, s)
      PROVE  FreshInv'
  <2>1. /\ s = 1 /\ load[i][1].stage # "none" /\ i \in up /\ load[i][1] \in LoadOf(DOMAIN made)
        /\ UNCHANGED <<topic, up, committed, tx, timer>>
    BY <1>0, <1>2, OneLoad DEF BaseInv, LoadsInv, ReadData, ReadKeys, ReadNewKeys, Finish,
       scenario, database
  <2>2. \A j \in Instances : j # i => load'[j][1] = load[j][1]
    BY <1>0, <1>2, <2>1 DEF ReadData, ReadKeys, ReadNewKeys, Finish
  <2>3. CASE ReadData(i, s)
    <3>1. /\ load'[i][1].stage # "none" /\ load'[i][1].data = committed
          /\ UNCHANGED <<subscribed, held>>
      BY <1>0, <2>1, <2>3 DEF ReadData, LoadOf
    <3>2. tx # {} => timer # {}
      BY <2>3 DEF ReadData, Readable, FreshInv
    <3> QED  BY <1>0, <2>1, <2>2, <3>1, <3>2 DEF FreshInv
  <2>4. CASE ReadKeys(i, s) \/ ReadNewKeys(i, s)
    <3>1. /\ load'[i][1].stage # "none" /\ load'[i][1].data = load[i][1].data
          /\ UNCHANGED <<subscribed, held>>
      <4>1. CASE ReadKeys(i, s)
        <5>1. CASE NeedsInitialisation
          BY <1>0, <2>1, <4>1, <5>1 DEF ReadKeys, LoadOf
        <5>2. CASE ~NeedsInitialisation
          BY <1>0, <2>1, <4>1, <5>2 DEF ReadKeys, LoadOf
        <5> QED  BY <5>1, <5>2
      <4>2. CASE ReadNewKeys(i, s)
        BY <1>0, <2>1, <4>2 DEF ReadNewKeys, LoadOf
      <4> QED  BY <2>4, <4>1, <4>2
    <3> QED  BY <1>0, <2>1, <2>2, <3>1 DEF FreshInv, WillRead
  <2>5. CASE Finish(i, s)
    <3>1. /\ load'[i][1] = NoLoad /\ NoLoad.stage = "none" /\ subscribed' = subscribed \cup {i}
          /\ held'[i].data = load[i][1].data /\ load[i][1].data # Default
          /\ \A j \in Instances : j # i => held'[j] = held[j]
      BY <1>0, <2>1, <2>5 DEF Finish, LoadOf, NoLoad
    <3> QED  BY <1>0, <2>1, <2>2, <3>1 DEF FreshInv, WillRead
  <2> QED  BY <1>2, <2>3, <2>4, <2>5
<1> QED  BY <1>1, <1>2

LEMMA FreshCommands ==
  ASSUME BaseInv, FreshInv, Fresh, Fresh', NEW i \in Instances,
         Edit(i) \/ Commit(i) \/ Publish(i) \/ RunJob(i) \/ RunJobAfter(i)
  PROVE  FreshInv'
<1>0. subscribed \subseteq up /\ up \subseteq Instances /\ NoLoad.data = Default
  BY DEF BaseInv, TypeOK, NoLoad
<1>1. CASE Edit(i) \/ RunJob(i) \/ RunJobAfter(i)
  <2>1. /\ UNCHANGED <<topic, up, subscribed, held, load, committed>>
        /\ timer \subseteq timer'
        /\ tx' = tx \/ (tx' = {i} /\ i \in timer')
    BY <1>1 DEF Edit, RunJob, RunJobAfter, Compare, scenario, database, memory
  <2> QED  BY <2>1 DEF FreshInv, WillRead
<1>2. CASE Commit(i)
  <2>1. /\ UNCHANGED <<topic, up, subscribed, held, load, timer>>
        /\ tx # {} /\ tx' = {}
    BY <1>2 DEF Commit, scenario, memory
  <2>2. CASE timer # {}
    BY <2>1, <2>2 DEF FreshInv
  <2>3. CASE timer = {}
    BY <1>0, <2>1, <2>3 DEF FreshInv, WillRead
  <2> QED  BY <2>2, <2>3
<1>3. CASE Publish(i)
  <2>1. /\ up = subscribed /\ timer' = timer \ {i} /\ ("slow" \in events \/ i \notin tx)
        /\ UNCHANGED <<topic, up, subscribed, committed, tx>>
    BY <1>0, <1>3, OneLoad DEF Publish, scenario, database
  <2>2. \A j \in up : load[j][1] = NoLoad /\ FreeSlot(j) = 1
    BY <1>0, <1>3, <2>1, OneLoad DEF Publish, CanLoad, FreeSlot, NoLoad
  <2>3. \A j \in up : load'[j] = [load[j] EXCEPT ![1].stage = "begun"]
    BY <1>0, <1>3, <2>1, <2>2 DEF Publish, Notified
  <2>4. \A j \in up : WillRead(j)'
    <3>1. load \in [Instances -> [{1, 2} -> LoadOf(DOMAIN made)]]
      BY KeyTypes
    <3>2. ASSUME NEW j \in up
          PROVE  load'[j][1].stage = "begun" /\ load'[j][1].data = Default
      <4>1. j \in Instances /\ load[j] \in [{1, 2} -> LoadOf(DOMAIN made)]
        BY <1>0, <3>1
      <4>2. load'[j][1] = [load[j][1] EXCEPT !.stage = "begun"]
        BY <2>3, <4>1
      <4>3. load[j][1] = NoLoad /\ load[j][1] \in LoadOf(DOMAIN made)
        BY <2>2, <4>1
      <4> QED  BY <1>0, <4>2, <4>3 DEF LoadOf
    <3> QED  BY <2>1, <3>2 DEF WillRead
  <2>5. topic # "oidc" => tx' \subseteq timer'
    BY <2>1 DEF FreshInv, Fresh
  <2> QED  BY <1>0, <2>1, <2>4, <2>5 DEF FreshInv, WillRead
<1> QED  BY <1>1, <1>2, <1>3

LEMMA FreshStep == BaseInv /\ FreshInv /\ [Next]_vars => FreshInv'
<1> SUFFICES ASSUME BaseInv, FreshInv, [Next]_vars, Fresh' PROVE FreshInv'
  BY DEF FreshInv
<1>1. UNCHANGED scenario
  BY SameScenario
<1>2. Fresh
  BY <1>1 DEF Fresh, Undisturbed, scenario
<1>3. ASSUME NEW i \in Instances, Work(i) \/ Start(i) \/ Stop(i) \/ Edit(i) \/ RunJob(i)
      PROVE  FreshInv'
  BY <1>2, <1>3, FreshLoads, FreshCommands, OneLoad DEF Work, Stop
<1>4. ASSUME NEW i \in Instances, NEW s \in {1, 2}, LoadFails(i, s) PROVE FALSE
  BY <1>2, <1>4, OneLoad DEF LoadFails
<1>5. CASE \/ Rotate \/ (\E k \in DOMAIN made : Mature(k)) \/ BecomeDue \/ NextDay
           \/ UNCHANGED vars
  <2>1. UNCHANGED <<scenario, database, timer, memory>>
    BY <1>5 DEF Rotate, RotateDelete, RotateCreate, Mature, BecomeDue, NextDay, vars
  <2> QED  BY <2>1 DEF FreshInv, WillRead, Fresh, Undisturbed, scenario, database, memory
<1>6. ~RotateFails
  BY <1>2, OneLoad DEF RotateFails
<1> QED  BY <1>3, <1>4, <1>5, <1>6 DEF Next

-----------------------------------------------------------------------------
(* What the instances hold when the night's job alone rotates. *)

NightParts == LoadedKeys /\ RotationInv /\ CalendarInv
Night == BaseInv /\ RotatedByNight /\ NightParts

LEMMA TakesSome ==
  ASSUME NEW q, NEW n \in Nat, NEW M, Takes(q, n, M)
  PROVE  n >= 1 /\ q # <<>> /\ q[1] \in 1..n
<1>1. q[1] \in Elements(q)
  BY DEF Takes, Elements
<1>2. q[1] \in 1..n
  BY <1>1, LastBounds DEF Takes
<1>3. q # <<>>
  BY DEF Takes
<1> QED  BY <1>2, <1>3

\* Nothing but the job rotates, and no load is under way when the newest key is due.
LEMMA NightFacts ==
  ASSUME Night
  PROVE  /\ topic = "oidc" /\ "fail" \notin events /\ "due" \notin events
         /\ "restart" \notin events
         /\ Len(made) \in Nat /\ DOMAIN made = 1..Len(made) /\ day \in Nat
         /\ \A k \in DOMAIN made : made[k] \in Nat
         /\ blobs = {} <=> Len(made) = 0
         /\ Len(made) >= 1 => MaxKey(blobs) = Len(made)
         /\ NeedsInitialisation <=> Len(made) = 0 \/ due
         /\ \A i \in Instances, s \in {1, 2} : load[i][s].stage # "none" => ~due /\ i \in up
         /\ \A i \in Instances : Loading(i) => i \in up
         /\ subscribed \subseteq up /\ up \subseteq Instances
<1>1. topic = "oidc" /\ "fail" \notin events /\ "due" \notin events /\ "restart" \notin events
  BY DEF Night, RotatedByNight
<1>2. /\ Len(made) \in Nat /\ DOMAIN made = 1..Len(made) /\ day \in Nat
      /\ \A k \in DOMAIN made : made[k] \in Nat
      /\ subscribed \subseteq up /\ up \subseteq Instances
  BY KeyTypes DEF Night, BaseInv, TypeOK
<1>3. (blobs = {} <=> Len(made) = 0) /\ (Len(made) >= 1 => MaxKey(blobs) = Len(made))
  BY <1>2, LastBounds DEF Night, BaseInv, KeysInv
<1>4. \A i \in Instances, s \in {1, 2} : load[i][s].stage # "none" => ~due /\ i \in up
  BY DEF Night, NightParts, RotationInv, BaseInv, LoadsInv, Loading
<1> QED  BY <1>1, <1>2, <1>3, <1>4 DEF NeedsInitialisation, Loading

\* A step of one load, that goes on, or ends with keys taken over.
LEMMA NightLoad ==
  ASSUME Night, NEW i \in Instances, NEW s \in {1, 2}, NEW r, Becomes(i, s, r), ~due,
         r.keys # <<>> => Takes(r.keys, Len(made), mature),
         r.stage = "waiting" => Len(made) <= 1,
         UNCHANGED <<scenario, database, timer, clock, keyStore>>,
         \/ r.stage # "none" /\ UNCHANGED <<held, subscribed>> /\ up' = up \cup {i}
         \/ /\ r.stage = "none" /\ Takes(held'[i].keys, Len(made), mature)
            /\ \A j \in Instances : j # i => held'[j] = held[j]
            /\ up' = up /\ subscribed' = subscribed \cup {i}
  PROVE  NightParts'
<1>0. /\ Len(made) \in Nat /\ subscribed \subseteq up /\ up \subseteq Instances
      /\ UNCHANGED <<made, mature, due, creating, blobs, day, jobDue, job, timer, tx>>
  BY NightFacts DEF database, clock, keyStore
<1>1. \A j \in Instances, t \in {1, 2} :
        load'[j][t] = IF j = i /\ t = s THEN r ELSE load[j][t]
  BY DEF Becomes
<1>2. /\ \A j \in Instances : j # i => (Loading(j)' <=> Loading(j))
      /\ r.stage # "none" => Loading(i)'
  BY <1>1 DEF Loading
<1>3. LoadedKeys'
  <2>1. \A j \in Instances : held'[j].keys # <<>> <=> j \in subscribed'
    BY <1>0, TakesSome DEF Night, NightParts, LoadedKeys
  <2>2. \A j \in up' \ subscribed' : Loading(j)'
    BY <1>0, <1>2 DEF Night, NightParts, LoadedKeys
  <2>3. \A j \in Instances, t \in {1, 2} :
          load'[j][t].keys # <<>> => Takes(load'[j][t].keys, Len(made'), mature')
    BY <1>0, <1>1 DEF Night, NightParts, LoadedKeys
  <2>4. \A j \in subscribed' : HeldInv(j)'
    BY <1>0, <1>2 DEF Night, NightParts, LoadedKeys, HeldInv, WillLoad
  <2> QED  BY <2>1, <2>2, <2>3, <2>4 DEF LoadedKeys
<1>4. RotationInv'
  BY <1>0, <1>1 DEF Night, NightParts, RotationInv, Waiting, NeedsInitialisation
<1>5. CalendarInv'
  BY <1>0 DEF Night, NightParts, CalendarInv
<1> QED  BY <1>3, <1>4, <1>5 DEF NightParts

LEMMA NightLoads ==
  ASSUME Night, NEW i \in Instances,
         \/ Start(i)
         \/ \E s \in {1, 2} : ReadData(i, s) \/ ReadKeys(i, s) \/ ReadNewKeys(i, s) \/ Finish(i, s)
  PROVE  NightParts'
<1>0. /\ BaseInv /\ up \subseteq Instances /\ Len(made) \in Nat
      /\ Slots \subseteq {1, 2}
      /\ \A j \in Instances, s \in {1, 2} :
           load[j][s].keys # <<>> => Takes(load[j][s].keys, Len(made), mature)
      /\ \A j \in Instances, s \in {1, 2} : Waiting(j, s) => Len(made) <= 1
      /\ \A j \in Instances, s \in {1, 2} : load[j][s] \in LoadOf(DOMAIN made)
  BY NightFacts, KeyTypes DEF Night, NightParts, LoadedKeys, RotationInv
<1>1. CASE Start(i)
  <2>1. PICK s \in Slots : /\ load[i][s].stage = "none"
                           /\ load' = [load EXCEPT ![i][s] = [load[i][s] EXCEPT !.stage = "begun"]]
    BY <1>1 DEF Start, Begin
  <2> DEFINE r == [load[i][s] EXCEPT !.stage = "begun"]
  <2>2. load[i][s] \in LoadOf(DOMAIN made) /\ r.stage = "begun" /\ r.keys = load[i][s].keys
    <3>1. load[i][s] \in LoadOf(DOMAIN made)
      BY <1>0
    <3> QED  BY <3>1 DEF LoadOf
  <2>3. s \in {1, 2} /\ Becomes(i, s, r)
    BY <1>0, <2>1, OneSlot, Zenon
  <2>4. /\ ~due /\ up' = up \cup {i}
        /\ UNCHANGED <<scenario, database, timer, subscribed, held, clock, keyStore>>
    BY <1>1, NightFacts DEF Start
  <2> HIDE DEF r
  <2> QED  BY <1>0, <2>2, <2>3, <2>4, NightLoad
<1>2. ASSUME NEW s \in {1, 2}, ReadData(i, s)
      PROVE  NightParts'
  <2> DEFINE r == [load[i][s] EXCEPT !.data = committed]
  <2>1. /\ load[i][s].stage = "begun" /\ load' = [load EXCEPT ![i][s] = r]
        /\ UNCHANGED <<scenario, database, timer, up, subscribed, held, clock, keyStore>>
    BY <1>2 DEF ReadData
  <2>2. load[i][s] \in LoadOf(DOMAIN made) /\ r.stage = "begun" /\ r.keys = load[i][s].keys
    <3>1. load[i][s] \in LoadOf(DOMAIN made)
      BY <1>0
    <3> QED  BY <2>1, <3>1 DEF LoadOf
  <2>3. Becomes(i, s, r)
    BY <1>0, <2>1, OneSlot, Zenon
  <2>4. ~due /\ i \in up
    BY <2>1, NightFacts
  <2> HIDE DEF r
  <2> QED  BY <1>0, <2>1, <2>2, <2>3, <2>4, NightLoad
<1>3. ASSUME NEW s \in {1, 2}, ReadKeys(i, s)
      PROVE  NightParts'
  <2> DEFINE r == IF NeedsInitialisation THEN [load[i][s] EXCEPT !.stage = "waiting"]
                  ELSE [load[i][s] EXCEPT !.keys = HeldBack]
  <2>1. /\ load[i][s].stage = "begun" /\ load[i][s].keys = <<>>
        /\ load' = [load EXCEPT ![i][s] = r]
        /\ UNCHANGED <<scenario, database, timer, up, subscribed, held, clock, keyStore>>
    BY <1>3 DEF ReadKeys
  <2>2. ~due /\ i \in up
    BY <2>1, NightFacts
  <2>3. load[i][s] \in LoadOf(DOMAIN made)
    BY <1>0, LoadChanges
  <2>4. /\ r.stage # "none" /\ (r.stage = "waiting" => Len(made) <= 1)
        /\ r.keys # <<>> => Takes(r.keys, Len(made), mature)
    <3>1. CASE NeedsInitialisation
      <4>1. r.stage = "waiting" /\ r.keys = <<>>
        BY <2>1, <2>3, <3>1 DEF LoadOf
      <4> QED  BY <1>0, <2>2, <3>1, <4>1, NightFacts
    <3>2. CASE ~NeedsInitialisation
      <4>1. r.stage = "begun" /\ r.keys = HeldBack
        BY <2>1, <2>3, <3>2 DEF LoadOf
      <4>2. blobs = Last(Len(made), 3) /\ Len(made) # 0
        BY <3>2, NightFacts DEF Night, NightParts, RotationInv
      <4>3. Takes(HeldBack, Len(made), mature)
        BY <1>0, <4>2, HeldBackTaken
      <4> QED  BY <4>1, <4>3
    <3> QED  BY <3>1, <3>2
  <2>5. Becomes(i, s, r)
    BY <1>0, <2>1, OneSlot, Zenon
  <2> HIDE DEF r
  <2> QED  BY <1>0, <2>1, <2>2, <2>4, <2>5, NightLoad
<1>4. ASSUME NEW s \in {1, 2}, ReadNewKeys(i, s)
      PROVE  NightParts'
  <2> DEFINE r == [load[i][s] EXCEPT !.stage = "begun", !.keys = NewestToOldest(blobs)]
  <2>1. /\ load[i][s].stage = "waiting" /\ ~NeedsInitialisation
        /\ load' = [load EXCEPT ![i][s] = r]
        /\ UNCHANGED <<scenario, database, timer, up, subscribed, held, clock, keyStore>>
    BY <1>4 DEF ReadNewKeys
  <2>2. ~due /\ i \in up
    BY <2>1, NightFacts
  <2>3. Len(made) = 1 /\ blobs = Last(Len(made), 3)
    <3>1. Len(made) <= 1
      BY <1>0, <2>1 DEF Waiting
    <3>2. Len(made) \in Nat \ {0} /\ blobs = Last(Len(made), 3)
      BY <2>1, NightFacts DEF Night, NightParts, RotationInv
    <3>3. \A n \in Nat \ {0} : n <= 1 => n = 1
      OBVIOUS
    <3>4. Len(made) = 1
      BY <3>1, <3>2, <3>3, Zenon
    <3> QED  BY <3>2, <3>4, Zenon
  <2>4. Takes(NewestToOldest(blobs), Len(made), mature)
    BY <2>3, NewestTaken
  <2>5. r.stage = "begun" /\ r.keys = NewestToOldest(blobs)
    <3>1. load[i][s] \in LoadOf(DOMAIN made)
      BY <1>0
    <3> QED  BY <3>1 DEF LoadOf
  <2>6. Becomes(i, s, r)
    BY <1>0, <2>1, OneSlot, Zenon
  <2> HIDE DEF r
  <2> QED  BY <1>0, <2>1, <2>2, <2>4, <2>5, <2>6, NightLoad
<1>5. ASSUME NEW s \in {1, 2}, Finish(i, s)
      PROVE  NightParts'
  <2>1. /\ load[i][s].stage = "begun" /\ load[i][s].keys # <<>>
        /\ load' = [load EXCEPT ![i][s] = NoLoad]
        /\ held' = [held EXCEPT ![i] = [data |-> load[i][s].data, keys |-> load[i][s].keys]]
        /\ subscribed' = subscribed \cup {i}
        /\ UNCHANGED <<scenario, database, timer, up, clock, keyStore>>
    BY <1>5, NightFacts DEF Finish
  <2>2. ~due /\ i \in up /\ held \in [Instances -> HeldOf(DOMAIN made)]
    BY <1>0, <2>1, NightFacts, KeyTypes
  <2>3. held'[i].keys = load[i][s].keys /\ \A j \in Instances : j # i => held'[j] = held[j]
    BY <2>1, <2>2
  <2>4. Becomes(i, s, NoLoad) /\ NoLoad.stage = "none" /\ NoLoad.keys = <<>>
    BY <1>0, <2>1, OneSlot, LoadChanges, Zenon
  <2> QED  BY <1>0, <2>1, <2>2, <2>3, <2>4, NightLoad
<1> QED  BY <1>1, <1>2, <1>3, <1>4, <1>5

\* The instance where the job waited finds that the key it uses is not the newest, so
\* that the others are told.
LEMMA NightCommands ==
  ASSUME Night, NEW i \in Instances,
         Edit(i) \/ Commit(i) \/ RunJob(i) \/ RunJobAfter(i)
  PROVE  NightParts'
<1>0. UNCHANGED <<up, subscribed, held, load, made, blobs, mature, due, creating, day>>
  BY DEF Edit, Commit, RunJob, RunJobAfter, memory, keyStore, clock
<1>1. ASSUME job' # {} \/ job = {}, timer' # {} \/ timer = {}
      PROVE  LoadedKeys'
  BY <1>0, <1>1 DEF Night, NightParts, LoadedKeys, HeldInv, WillLoad, Loading
<1>2. CASE Edit(i) \/ Commit(i)
  <2>1. /\ UNCHANGED <<job, jobDue>>
        /\ timer' # {} \/ timer = {}
        /\ due => tx' = {} /\ timer' = timer
    BY <1>2, NightFacts DEF Edit, Commit, clock
  <2> QED  BY <1>0, <1>1, <2>1 DEF Night, NightParts, RotationInv, CalendarInv, Waiting,
           NeedsInitialisation, Loading
<1>3. CASE RunJob(i)
  <2>1. jobDue /\ jobDue' = FALSE /\ tx' = tx /\ i \in up /\ job = {} /\ Len(made) # 0
    BY <1>3 DEF RunJob, database, Night, NightParts, RotationInv, CalendarInv
  <2>2. CASE due
    <3>1. job' = {i} /\ timer' = timer
      BY <1>3, <2>2 DEF RunJob, NeedsInitialisation
    <3>2. i \in subscribed
      BY <2>1, <2>2, NightFacts DEF Night, NightParts, LoadedKeys, RotationInv
    <3> QED  BY <1>0, <1>1, <2>1, <2>2, <3>1, <3>2 DEF Night, NightParts, RotationInv,
             CalendarInv, Waiting, NeedsInitialisation, Loading
  <2>3. CASE ~due
    <3>1. job' = job /\ (timer' # {} \/ timer = {})
      BY <1>3, <2>1, <2>3, NightFacts DEF RunJob, Compare
    <3> QED  BY <1>0, <1>1, <2>1, <2>3, <3>1 DEF Night, NightParts, RotationInv,
             CalendarInv, Waiting, NeedsInitialisation, Loading
  <2> QED  BY <2>2, <2>3
<1>4. CASE RunJobAfter(i)
  <2> DEFINE n == Len(made)
             q == NewestToOldest(blobs)
  <2>1. /\ i \in job /\ job' = {} /\ ~due /\ ~creating /\ n >= 2 /\ made[n] = day
        /\ i \in subscribed /\ jobDue' = jobDue /\ tx' = tx
        /\ timer' = IF KeysChanged(i, q) THEN timer \cup {i} ELSE timer
    BY <1>4, NightFacts DEF RunJobAfter, Compare, Night, NightParts, RotationInv, database
  <2>2. q[1] = n
    <3>1. n \in Nat \ {0} /\ blobs = Last(n, 3)
      BY <2>1, NightFacts DEF Night, NightParts, RotationInv
    <3> QED  BY <3>1, NewestTaken
  <2>3. held[i].keys # <<>> /\ InUse(i) # n
    <3>1. n \notin mature /\ n \in Nat /\ day \in Nat
      BY <2>1, NightFacts DEF Night, NightParts, CalendarInv
    <3>2. HeldInv(i) /\ held[i].keys # <<>>
      BY <2>1, NightFacts DEF Night, NightParts, LoadedKeys
    <3> QED  BY <2>1, <3>1, <3>2 DEF HeldInv, Takes, InUse
  <2>4. i \in timer'
    BY <2>1, <2>2, <2>3 DEF KeysChanged
  <2>5. LoadedKeys'
    BY <1>0, <2>4 DEF Night, NightParts, LoadedKeys, HeldInv, WillLoad, Loading
  <2>6. RotationInv'
    BY <1>0, <2>1 DEF Night, NightParts, RotationInv, Waiting, Loading
  <2>7. CalendarInv'
    BY <1>0, <2>1, NightFacts, ReloadConstants DEF Night, NightParts, CalendarInv
  <2> QED  BY <2>5, <2>6, <2>7 DEF NightParts
<1> QED  BY <1>2, <1>3, <1>4

LEMMA NightPublish ==
  ASSUME Night, NEW i \in Instances, Publish(i)
  PROVE  NightParts'
<1>0. /\ load \in [Instances -> [{1, 2} -> LoadOf(DOMAIN made)]]
      /\ held \in [Instances -> HeldOf(DOMAIN made)]
      /\ UNCHANGED <<up, subscribed, made, blobs, mature, due, creating, day, jobDue, job, tx>>
      /\ topic = "oidc" /\ ~due /\ subscribed \subseteq Instances
  BY KeyTypes, NightFacts DEF Night, NightParts, RotationInv, Publish, database, keyStore, clock
<1>1. held' = held
  BY <1>0 DEF Publish, AtBegin
<1>2. \A j \in subscribed : FreeSlot(j) \in {1, 2}
  BY DEF FreeSlot
<1>3. ASSUME NEW j \in Instances, NEW s \in {1, 2}
      PROVE  /\ load'[j][s].keys = load[j][s].keys
             /\ load'[j][s].stage = IF j \in subscribed /\ s = FreeSlot(j) THEN "begun"
                                    ELSE load[j][s].stage
  <2>1. load'[j] = IF j \in subscribed THEN [load[j] EXCEPT ![FreeSlot(j)].stage = "begun"]
                   ELSE load[j]
    BY DEF Publish, Notified
  <2>2. load[j] \in [{1, 2} -> LoadOf(DOMAIN made)] /\ load[j][s] \in LoadOf(DOMAIN made)
    BY <1>0
  <2>3. load'[j][s] = IF j \in subscribed /\ s = FreeSlot(j)
                      THEN [load[j][s] EXCEPT !.stage = "begun"] ELSE load[j][s]
    BY <1>2, <2>1, <2>2
  <2> QED  BY <2>2, <2>3 DEF LoadOf
<1>4. /\ \A j \in subscribed : Loading(j)'
      /\ \A j \in Instances : Loading(j) => Loading(j)'
      /\ \A j \in Instances, s \in {1, 2} : Waiting(j, s)' => Waiting(j, s)
  BY <1>0, <1>2, <1>3 DEF Loading, Waiting
<1>5. LoadedKeys'
  <2>1. \A j \in Instances : held'[j].keys # <<>> <=> j \in subscribed'
    BY <1>0, <1>1 DEF Night, NightParts, LoadedKeys
  <2>2. \A j \in up' \ subscribed' : Loading(j)'
    BY <1>0, <1>4, NightFacts DEF Night, NightParts, LoadedKeys
  <2>3. \A j \in Instances, s \in {1, 2} :
          load'[j][s].keys # <<>> => Takes(load'[j][s].keys, Len(made'), mature')
    BY <1>0, <1>3 DEF Night, NightParts, LoadedKeys
  <2>4. \A j \in subscribed' : HeldInv(j)'
    BY <1>0, <1>1, <1>4 DEF Night, NightParts, LoadedKeys, HeldInv, WillLoad
  <2> QED  BY <2>1, <2>2, <2>3, <2>4 DEF LoadedKeys
<1>6. RotationInv'
  BY <1>0, <1>4 DEF Night, NightParts, RotationInv, NeedsInitialisation
<1>7. CalendarInv'
  BY <1>0 DEF Night, NightParts, CalendarInv
<1> QED  BY <1>5, <1>6, <1>7 DEF NightParts

\* A rotation waits for the night's job, unless there is no key at all.
LEMMA NightRotate ==
  ASSUME Night, RotateDelete \/ RotateCreate
  PROVE  NightParts'
<1> DEFINE n == Len(made)
<1>0. UNCHANGED <<timer, tx, up, subscribed, held, load, mature, day, jobDue, job>>
  BY DEF RotateDelete, RotateCreate, database, memory, clock
<1>1. CASE RotateDelete
  <2>1. /\ UNCHANGED <<made, due>> /\ NeedsInitialisation /\ creating' = TRUE
        /\ blobs = Last(n, 3) /\ blobs' = Retained
    BY <1>1 DEF RotateDelete, Night, NightParts, RotationInv
  <2>2. blobs' = Last(n, 2)
    BY <2>1, NightFacts, RetainedLast
  <2>3. NeedsInitialisation'
    BY <2>1, <2>2, NightFacts, LastBounds DEF NeedsInitialisation
  <2>4. n >= 1 => job # {}
    <3>1. CASE job # {}
      BY <3>1
    <3>2. ASSUME job = {}, n >= 1 PROVE FALSE
      <4>1. PICK j \in up, s \in Slots : load[j][s].stage = "waiting"
        BY <1>1, <3>2 DEF RotateDelete, Waiting
      <4>2. j \in Instances /\ s \in {1, 2}
        BY NightFacts DEF Slots
      <4>3. ~due
        BY <4>1, <4>2, NightFacts
      <4>4. n = 0
        BY <2>1, <4>3, NightFacts
      <4> QED  BY <3>2, <4>4
    <3> QED  BY <3>1, <3>2
  <2>5. LoadedKeys'
    BY <1>0, <2>1 DEF Night, NightParts, LoadedKeys, HeldInv, WillLoad, Loading
  <2>6. RotationInv'
    BY <1>0, <2>1, <2>2, <2>3, <2>4 DEF Night, NightParts, RotationInv, Waiting, Loading
  <2>7. CalendarInv'
    BY <1>0, <2>1 DEF Night, NightParts, CalendarInv
  <2> QED  BY <2>5, <2>6, <2>7 DEF NightParts
<1>2. CASE RotateCreate
  <2>1. /\ made \in Seq(Nat) /\ n \in Nat /\ day \in Nat /\ made' = Append(made, day)
        /\ creating /\ due' = FALSE /\ creating' = FALSE
        /\ blobs = Last(n, 2) /\ blobs' = blobs \cup {n + 1}
    BY <1>2, NightFacts DEF RotateCreate, Night, NightParts, RotationInv, BaseInv, KeysInv
  <2>2. /\ Len(made') = n + 1 /\ made'[n + 1] = day
        /\ \A k \in 1..n : made'[k] = made[k]
    BY <2>1
  <2>3. blobs' = Last(n + 1, 3)
    <3>1. Last(n, 2) \cup {n + 1} = Last(n + 1, 2 + 1) /\ 2 + 1 = 3
      BY <2>1, LastAndNext
    <3> QED  BY <2>1, <3>1, Zenon
  <2>4. \A k \in mature : k \in 1..n /\ made[k] < day
    BY NightFacts DEF Night, NightParts, CalendarInv, BaseInv, TypeOK
  <2>5. CASE n = 0
    <3>0. \A q : ~Takes(q, n, mature)
      <4>1. ASSUME NEW q, Takes(q, n, mature) PROVE n >= 1
        BY <2>1, <4>1, TakesSome, Zenon
      <4> QED  BY <2>5, <4>1
    <3>1. subscribed = {}
      BY <2>5, <3>0 DEF Night, NightParts, LoadedKeys, HeldInv
    <3>2. \A j \in Instances, s \in {1, 2} : load[j][s].keys = <<>>
      BY <3>0 DEF Night, NightParts, LoadedKeys
    <3>3. LoadedKeys'
      BY <1>0, <3>1, <3>2 DEF Night, NightParts, LoadedKeys, Loading
    <3>4. job = {}
      BY <2>5 DEF Night, NightParts, CalendarInv
    <3>5. RotationInv'
      BY <1>0, <2>1, <2>2, <2>3, <2>5, <3>4 DEF RotationInv
    <3>6. CalendarInv'
      BY <1>0, <2>2, <2>4, <2>5, <2>1, ReloadConstants DEF CalendarInv
    <3> QED  BY <3>3, <3>5, <3>6 DEF NightParts
  <2>6. CASE n # 0
    <3>1. /\ due /\ tx = {} /\ timer = {} /\ job # {} /\ ~jobDue /\ job \subseteq subscribed
          /\ \A j \in Instances : ~Loading(j)
      BY <2>1, <2>6, NightFacts DEF Night, NightParts, RotationInv
    <3>2. \A j \in Instances, s \in {1, 2} : load[j][s].stage = "none" /\ load[j][s].keys = <<>>
      BY <3>1 DEF Loading, NoLoad, Night, BaseInv, LoadsInv
    <3>3. \A j \in subscribed : Takes(held[j].keys, n, mature)
      BY <3>1 DEF Night, NightParts, LoadedKeys, HeldInv
    <3>4. \A j \in subscribed' : HeldInv(j)'
      <4>1. n + 1 >= 2 /\ (n + 1) - 1 = n
        BY <2>1, <2>6
      <4> QED  BY <1>0, <2>1, <2>2, <3>1, <3>3, <4>1 DEF HeldInv, WillLoad
    <3>5. LoadedKeys'
      BY <1>0, <3>1, <3>2, <3>4 DEF Night, NightParts, LoadedKeys, Loading
    <3>6. RotationInv'
      BY <1>0, <2>1, <2>2, <2>3, <2>6, <3>1, <3>2 DEF RotationInv, Waiting
    <3>7. CalendarInv'
      <4>1. day <= made[n] + RotateAfter + 1 /\ n \in 1..n /\ made[n] \in Nat
        BY <2>1, <2>6, NightFacts DEF Night, NightParts, CalendarInv
      <4> QED  BY <1>0, <2>1, <2>2, <2>4, <2>6, <3>1, <4>1, ReloadConstants DEF CalendarInv
    <3> QED  BY <3>5, <3>6, <3>7 DEF NightParts
  <2> QED  BY <2>5, <2>6
<1> QED  BY <1>1, <1>2

LEMMA NightTime ==
  ASSUME Night, (\E k \in DOMAIN made : Mature(k)) \/ BecomeDue \/ NextDay
  PROVE  NightParts'
<1>0. UNCHANGED <<timer, tx, up, subscribed, held, load, made, blobs, creating, job>>
  BY DEF Mature, BecomeDue, NextDay, database, memory, clock, keyStore
<1>1. CASE \E k \in DOMAIN made : Mature(k)
  <2>1. PICK k \in DOMAIN made : Mature(k)
    BY <1>1
  <2>2. /\ mature \subseteq mature' /\ mature' = mature \cup {k} /\ made[k] < day
        /\ UNCHANGED <<day, jobDue, due>>
    BY <2>1 DEF Mature, clock
  <2>3. LoadedKeys'
    <3>1. \A j \in Instances, s \in {1, 2} :
            load'[j][s].keys # <<>> => Takes(load'[j][s].keys, Len(made'), mature')
      BY <1>0, <2>2, TakesMore DEF Night, NightParts, LoadedKeys
    <3>2. \A j \in subscribed' : HeldInv(j)'
      BY <1>0, <2>2, TakesMore DEF Night, NightParts, LoadedKeys, HeldInv, WillLoad, Loading
    <3> QED  BY <1>0, <3>1, <3>2 DEF Night, NightParts, LoadedKeys, Loading
  <2>4. RotationInv' /\ CalendarInv'
    BY <1>0, <2>2 DEF Night, NightParts, RotationInv, CalendarInv, Waiting, Loading,
       NeedsInitialisation
  <2> QED  BY <2>3, <2>4 DEF NightParts
<1>2. CASE BecomeDue \/ NextDay
  <2>1. Settled
    BY <1>2, NightFacts DEF BecomeDue, NextDay
  <2>2. /\ tx = {} /\ timer = {} /\ job = {} /\ ~creating
        /\ \A j \in Instances : ~Loading(j)
    BY <2>1, NightFacts DEF Settled
  <2>3. \A j \in subscribed : Takes(held[j].keys, Len(made), mature)
    BY <2>2, NightFacts DEF Night, NightParts, LoadedKeys, HeldInv, WillLoad
  <2>4. mature' = mature
    BY <1>2 DEF BecomeDue, NextDay, keyStore
  <2>5. LoadedKeys'
    BY <1>0, <2>3, <2>4 DEF Night, NightParts, LoadedKeys, HeldInv, Loading
  <2>6. CASE BecomeDue
    <3>1. due' = TRUE /\ Len(made) >= 1 /\ UNCHANGED <<day, jobDue>>
      BY <2>6, NightFacts DEF BecomeDue, clock
    <3>2. RotationInv'
      BY <1>0, <2>2, <3>1 DEF Night, NightParts, RotationInv, Waiting, Loading
    <3>3. CalendarInv'
      BY <1>0, <2>4, <3>1 DEF Night, NightParts, CalendarInv
    <3> QED  BY <2>5, <3>2, <3>3 DEF NightParts
  <2>7. CASE NextDay
    <3>1. /\ day' = day + 1 /\ jobDue' = TRUE /\ due' = due /\ ~jobDue /\ up # {}
          /\ blobs # {} /\ day >= made[MaxKey(blobs)] + RotateAfter => due
      BY <2>7 DEF NextDay, keyStore
    <3>2. Len(made) >= 1
      <4>1. PICK j \in up : TRUE
        BY <3>1
      <4>2. j \in subscribed
        BY <2>2, NightFacts DEF Night, NightParts, LoadedKeys
      <4> QED  BY <2>3, <4>2, NightFacts, TakesSome
    <3>3. day >= made[Len(made)] + RotateAfter => due
      BY <3>1, <3>2, NightFacts
    <3>4. RotationInv'
      BY <1>0, <2>2, <3>1 DEF Night, NightParts, RotationInv, Waiting, Loading,
         NeedsInitialisation
    <3>5. CalendarInv'
      <4>1. Len(made) \in DOMAIN made
        BY <3>2, NightFacts
      <4>2. day \in Nat /\ made[Len(made)] \in Nat /\ \A k \in mature : made[k] \in Nat
        BY <4>1, NightFacts DEF Night, BaseInv, TypeOK
      <4>3. CalendarInv
        BY DEF Night, NightParts
      <4>4. \A k \in mature' : made'[k] < day'
        BY <1>0, <2>4, <3>1, <4>2, <4>3 DEF CalendarInv
      <4>5. day <= made[Len(made)] + RotateAfter
        BY <2>2, <3>1, <3>2, <4>2, <4>3, ReloadConstants DEF CalendarInv
      <4>6. /\ day' <= made[Len(made)] + RotateAfter + 1
            /\ day' = made[Len(made)] + RotateAfter + 1 => due' /\ jobDue'
        BY <3>1, <3>3, <4>2, <4>5, ReloadConstants
      <4> QED  BY <1>0, <3>2, <4>3, <4>4, <4>6 DEF CalendarInv
    <3> QED  BY <2>5, <3>4, <3>5 DEF NightParts
  <2> QED  BY <1>2, <2>6, <2>7
<1> QED  BY <1>1, <1>2

LEMMA NightStep == BaseInv /\ NightInv /\ [Next]_vars => NightInv'
<1> SUFFICES ASSUME BaseInv, NightInv, [Next]_vars, RotatedByNight' PROVE NightParts'
  BY DEF NightInv, NightParts
<1>1. UNCHANGED scenario
  BY SameScenario
<1>2. Night
  BY <1>1 DEF Night, NightInv, NightParts, RotatedByNight, scenario
<1>3. ASSUME NEW i \in Instances, Work(i) \/ Start(i) \/ Edit(i) \/ RunJob(i)
      PROVE  NightParts'
  BY <1>2, <1>3, NightLoads, NightCommands, NightPublish DEF Work
<1>4. ASSUME NEW i \in Instances, NEW s \in {1, 2}
      PROVE  ~Stop(i) /\ ~LoadFails(i, s)
  BY <1>2, NightFacts DEF Stop, LoadFails
<1>5. ~RotateFails
  BY <1>2, NightFacts DEF RotateFails
<1>6. CASE Rotate \/ (\E k \in DOMAIN made : Mature(k)) \/ BecomeDue \/ NextDay
  BY <1>2, <1>6, NightRotate, NightTime DEF Rotate
<1>7. CASE UNCHANGED vars
  <2>1. /\ UNCHANGED <<timer, tx, up, subscribed, held, load, day, jobDue, job>>
        /\ UNCHANGED <<made, blobs, mature, due, creating>>
    BY <1>7 DEF vars, database, memory, clock, keyStore
  <2>2. LoadedKeys'
    BY <1>2, <2>1 DEF Night, NightParts, LoadedKeys, HeldInv, WillLoad, Loading
  <2>3. RotationInv'
    BY <1>2, <2>1 DEF Night, NightParts, RotationInv, Waiting, Loading, NeedsInitialisation
  <2>4. CalendarInv'
    BY <1>2, <2>1 DEF Night, NightParts, CalendarInv
  <2> QED  BY <2>2, <2>3, <2>4 DEF NightParts
<1> QED  BY <1>3, <1>4, <1>5, <1>6, <1>7 DEF Next

-----------------------------------------------------------------------------
(* The theorems. *)

LEMMA InitInv == Init => IInv
<1> SUFFICES ASSUME Init PROVE IInv
  OBVIOUS
<1>1. BaseInv
  BY InitBase
<1>2. /\ tx = {} /\ timer = {} /\ up = {} /\ subscribed = {} /\ job = {} /\ day = 0
      /\ jobDue = FALSE /\ due = FALSE /\ creating = FALSE
      /\ made = <<>> /\ blobs = {} /\ mature = {} /\ Len(made) = 0
      /\ \A i \in Instances : held[i].keys = <<>>
      /\ \A i \in Instances, s \in {1, 2} : load[i][s].keys = <<>> /\ load[i][s].stage = "none"
  BY DEF Init, Nothing, NoLoad
<1>3. NightParts
  <2>1. LoadedKeys
    BY <1>2 DEF LoadedKeys
  <2>2. Last(0, 3) = {}
    BY LastBounds
  <2>3. RotationInv
    BY <1>2, <2>2 DEF RotationInv, Waiting
  <2>4. CalendarInv
    BY <1>2 DEF CalendarInv
  <2> QED  BY <2>1, <2>3, <2>4 DEF NightParts
<1>4. FreshInv
  BY <1>2 DEF FreshInv
<1> QED  BY <1>1, <1>3, <1>4 DEF IInv, NightInv, NightParts

LEMMA IInvAlways == Spec => []IInv
<1>1. IInv /\ [Next]_vars => IInv'
  BY BaseStep, NightStep, FreshStep DEF IInv
<1> QED  BY InitInv, <1>1, PTL DEF Spec

\* The types of the variables, in every scenario: there are never more than three keys,
\* whoever rotates them, when, and whatever fails or stops meanwhile.
THEOREM TypeCorrect == Spec => []TypeOK
<1>1. IInv => TypeOK
  BY DEF IInv, BaseInv
<1> QED  BY <1>1, IInvAlways, PTL

\* An instance that has nothing left to do works with the committed data, however the
\* commands of any number of instances fall together with the loads.
THEOREM QuietIsFresh == Spec => []FreshWhenQuiet
<1>1. IInv => FreshWhenQuiet
  <2> SUFFICES ASSUME IInv, Fresh, Settled, NEW i \in subscribed PROVE held[i].data = committed
    BY DEF FreshWhenQuiet, Fresh
  <2>1. i \in up /\ i \in Instances
    BY DEF IInv, BaseInv, TypeOK
  <2>2. timer = {} /\ load[i][1].stage = "none"
    BY <2>1 DEF Settled, Loading
  <2> QED  BY <2>2 DEF IInv, FreshInv
<1> QED  BY <1>1, IInvAlways, PTL

\* When the night's job alone rotates, the key that any instance signs with is stored
\* and published by every instance, before, during and after a rotation.
THEOREM InUseIsPublished == Spec => []KeyInUsePublished
<1>1. IInv => KeyInUsePublished
  <2> SUFFICES ASSUME IInv, RotatedByNight, NEW i \in Instances, NEW j \in Instances,
                      held[i].keys # <<>>, held[j].keys # <<>>
               PROVE  InUse(i) \in Published(j) \cap blobs
    BY DEF KeyInUsePublished
  <2> DEFINE n == Len(made)
             k == InUse(i)
  <2>1. Night
    BY DEF IInv, NightInv, Night, NightParts
  <2>2. HeldInv(i) /\ HeldInv(j)
    BY <2>1 DEF Night, NightParts, LoadedKeys
  <2>3. n \in Nat /\ day \in Nat /\ (n >= 2 /\ made[n] = day => n \notin mature)
    BY <2>1, NightFacts DEF Night, NightParts, CalendarInv
  <2>4. Published(j) = Elements(held[j].keys)
    BY DEF Published, Elements
  <2>5. /\ n >= 1 /\ k \in 1..n
        /\ \/ k \in {n - 1, n} /\ (k = n => n = 1 \/ n \in mature)
           \/ k \in {n - 2, n - 1} /\ ~due
    <3>1. CASE Takes(held[i].keys, n, mature)
      BY <2>3, <3>1, TakesSome DEF Takes, InUse
    <3>2. CASE n >= 2 /\ Takes(held[i].keys, n - 1, mature) /\ ~due
      <4>1. n - 1 \in Nat
        BY <2>3, <3>2
      <4>2. k \in 1..(n - 1)
        BY <3>2, <4>1, TakesSome DEF InUse
      <4> QED  BY <2>3, <3>2, <4>2 DEF Takes, InUse
    <3> QED  BY <2>2, <3>1, <3>2 DEF HeldInv
  <2>6. k \in Published(j)
    <3>1. CASE Takes(held[j].keys, n, mature)
      BY <2>3, <2>4, <2>5, <3>1 DEF Takes, Last
    <3>2. CASE n >= 2 /\ Takes(held[j].keys, n - 1, mature) /\ made[n] = day
      BY <2>3, <2>4, <2>5, <3>2 DEF Takes, Last
    <3> QED  BY <2>2, <3>1, <3>2 DEF HeldInv
  <2>7. k \in blobs
    <3>1. creating => due /\ blobs = Last(n, 2)
      BY <2>1, <2>5, NightFacts DEF Night, NightParts, RotationInv
    <3>2. ~creating => blobs = Last(n, 3)
      BY <2>1 DEF Night, NightParts, RotationInv
    <3>3. CASE creating
      BY <2>3, <2>5, <3>1, <3>3 DEF Last
    <3>4. CASE ~creating
      BY <2>3, <2>5, <3>2, <3>4 DEF Last
    <3> QED  BY <3>3, <3>4
  <2> QED  BY <2>6, <2>7
<1> QED  BY <1>1, IInvAlways, PTL

\* No instance signs with a key for longer than two rotations take, although the job
\* compares the keys with those of the instance that runs it only.
THEOREM InUseIsReplaced == Spec => []KeyInUseNotOld
<1>1. IInv => KeyInUseNotOld
  <2> SUFFICES ASSUME IInv, RotatedByNight, Settled, ~jobDue, NEW i \in Instances,
                      held[i].keys # <<>>
               PROVE  day - made[InUse(i)] <= 2 * (RotateAfter + 1)
    BY DEF KeyInUseNotOld
  <2> DEFINE n == Len(made)
             k == InUse(i)
  <2>1. Night
    BY DEF IInv, NightInv, Night, NightParts
  <2>2. timer = {} /\ job = {} /\ ~Loading(i)
    BY <2>1, NightFacts DEF Settled
  <2>3. Takes(held[i].keys, n, mature)
    BY <2>1, <2>2 DEF Night, NightParts, LoadedKeys, HeldInv, WillLoad
  <2>4. n \in Nat /\ k \in 1..n /\ k \in {n - 1, n}
    BY <2>1, <2>3, NightFacts, TakesSome DEF Takes, InUse
  <2>5. day \in Nat /\ made[n] \in Nat /\ made[k] \in Nat
    BY <2>1, <2>4, NightFacts
  <2>6. CalendarInv
    BY <2>1 DEF Night, NightParts
  <2>7. day <= made[n] + RotateAfter
    BY <2>2, <2>4, <2>5, <2>6, ReloadConstants DEF CalendarInv
  <2>8. made[n] <= made[k] + RotateAfter + 1
    BY <2>4, <2>5, <2>6, ReloadConstants DEF CalendarInv
  <2> QED  BY <2>5, <2>7, <2>8, ReloadConstants
<1> QED  BY <1>1, IInvAlways, PTL

\* The stored keys are the last ones made, and at most three, between the delete and
\* the create of a rotation, after a failure of either, and whoever rotates.
THEOREM KeysAreNewest == Spec => []KeysInv
<1>1. IInv => KeysInv
  BY DEF IInv, BaseInv
<1> QED  BY <1>1, IInvAlways, PTL

=============================================================================
