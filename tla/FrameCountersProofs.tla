------------------------ MODULE FrameCountersProofs ------------------------
(* Theorems about FrameCounters, for every number of callers, interval, queue capacity and *)
(* margin that satisfies the assumptions: how far the client's copy of a counter lags, and  *)
(* that no counter is used twice.                                                           *)
EXTENDS FrameCounters, FiniteSetTheorems, TLAPS

-----------------------------------------------------------------------------
(* Arithmetic with a symbolic interval *)

LEMMA Distributes == \A a, b \in Nat : a * (b + 1) = a * b + a /\ a * b \in Nat
  OBVIOUS

LEMMA Monotone == \A a, b, c \in Nat : b <= c => a * b <= a * c
  OBVIOUS

LEMMA Division ==
    \A n \in Nat, k \in Nat \ {0} :
       n \div k \in Nat /\ n % k \in 0 .. k - 1 /\ n = k * (n \div k) + (n % k)
  OBVIOUS

\* should_persist is due every Interval frames: between two multiples the remainder counts up.
LEMMA Remainder ==
    ASSUME NEW n \in Nat, NEW k \in Nat \ {0}
    PROVE  /\ n % k \in 0 .. k - 1 /\ n % k <= n
           /\ (n + 1) % k # 0 => (n + 1) % k = (n % k) + 1
  <1> DEFINE q == n \div k
             r == n % k
             p == (n + 1) \div k
             s == (n + 1) % k
  <1>1. q \in Nat /\ r \in 0 .. k - 1 /\ n = k * q + r /\ k * q \in Nat
    BY Division, Distributes
  <1>0. n + 1 \in Nat
    OBVIOUS
  <1>2. p \in Nat /\ s \in 0 .. k - 1 /\ n + 1 = k * p + s /\ k * p \in Nat
    BY <1>0, Division, Distributes
  <1> HIDE DEF q, r, p, s
  <1>3. ASSUME s # 0 PROVE s = r + 1
    <2>1. k * p + (s - 1) = k * q + r
      BY <1>1, <1>2
    <2>2. CASE p <= q - 1
      <3>1. k * (p + 1) <= k * q /\ k * (p + 1) = k * p + k
        BY <2>2, <1>1, <1>2, Monotone, Distributes
      <3> QED BY <3>1, <2>1, <1>1, <1>2, <1>3
    <2>3. CASE q <= p - 1
      <3>1. k * (q + 1) <= k * p /\ k * (q + 1) = k * q + k
        BY <2>3, <1>1, <1>2, Monotone, Distributes
      <3> QED BY <3>1, <2>1, <1>1, <1>2, <1>3
    <2>4. CASE p = q
      BY <2>1, <2>4, <1>1, <1>2
    <2> QED BY <2>2, <2>3, <2>4, <1>1, <1>2
  <1> QED BY <1>1, <1>3 DEF r, s

-----------------------------------------------------------------------------
(* The inductive invariant.  p is the last update of each stream that was notified, or what the *)
(* stack was configured with: nothing in the state keeps it once the queue has dropped it.      *)

Event  == [kind : Streams \cup {"other"}, value : Nat]
Caller == [at : {"idle", "read", "load", "store", "push"}, read : Nat]

TypeOK ==
    /\ counter \in [Streams -> Nat] /\ stored \in [Streams -> Nat] /\ unheard \in [Streams -> Nat]
    /\ lastPersisted \in Nat /\ silent \in 0 .. MaxSilent
    /\ queue \in Seq(Event)
    /\ caller \in [Callers -> Caller]
    /\ air \in [Streams -> [frames : Nat, last : Nat]]

\* No frame carries a counter above the current one.
NeverAhead == \A s \in Streams : air[s].last <= counter[s]

Lag == [s \in Streams |-> IF s = "nwk" THEN Interval ELSE ApsLag]

\* The client has stored p, or as many updates are missing as it has not heard of.
Stored(p) ==
    \A s \in Streams :
       /\ p[s] <= counter[s] /\ p[s] <= stored[s] + Lag[s] * unheard[s]
       /\ \A i \in LastTold(s) : queue[i].value = p[s]

\* No multiple of the interval lies between the last update and the counter.
NwkNotified(p) == counter["nwk"] - (counter["nwk"] % Interval) <= p["nwk"]

\* The callers between their look at the counter and their update, and those yet to look.
Acting  == {c \in Callers : caller[c].at \in {"load", "store", "push"}}
Looking == {c \in Callers : caller[c].at = "read"}
Pushing == {c \in Callers : caller[c].at \in {"store", "push"}}

Overtaken == \A c \in Acting : /\ caller[c].read <= counter["aps"]
                               /\ counter["aps"] <= caller[c].read + MaxOvertaken

\* last_persisted_aps_counter has been notified, or its caller is about to, or a caller with a
\* counter read at about the same time overtook it.
Persisted(p) ==
    /\ lastPersisted <= counter["aps"]
    /\ \/ \E c \in Callers : caller[c].at = "push" /\ caller[c].read = lastPersisted
       \/ lastPersisted <= p["aps"] + MaxOvertaken

\* While callers act, one of them read a counter not far from the last update.
ActingSoon(p) ==
    Acting # {} => \E c \in Acting : caller[c].read <= p["aps"] + AtRest + Unseen

\* The frames nobody acts on are few: the silent ones and those of the callers yet to look.
UnseenFew(p) ==
    \/ Pushing # {}
    \/ \E c \in Acting : counter["aps"] <= caller[c].read + silent + Cardinality(Looking)
    \/ counter["aps"] <= p["aps"] + AtRest + silent + Cardinality(Looking)

Follows(p) == Stored(p) /\ NwkNotified(p) /\ Persisted(p) /\ ActingSoon(p) /\ UnseenFew(p)

CountersInv ==
    /\ TypeOK /\ NeverAhead /\ Overtaken
    /\ \E p \in [Streams -> Nat] : Follows(p)

-----------------------------------------------------------------------------
(* What the invariant says of the lag *)

LEMMA Constants ==
    /\ Interval \in Nat \ {0} /\ MaxSilent \in Nat /\ MaxOvertaken \in Nat /\ Cap \in Nat \ {0}
    /\ Margin["nwk"] \in Nat /\ Margin["aps"] \in Nat
    /\ MaxUnheard["nwk"] \in Nat /\ MaxUnheard["aps"] \in Nat
    /\ IsFiniteSet(Callers) /\ Cardinality(Callers) \in Nat
    /\ AtRest \in Nat /\ Unseen \in Nat /\ ApsLag \in Nat
    /\ AtRest >= (Interval - 1) + MaxOvertaken /\ AtRest >= MaxOvertaken + MaxOvertaken
    /\ Unseen >= MaxSilent + Cardinality(Callers) /\ Unseen >= MaxOvertaken
    /\ ApsLag = AtRest + Unseen + MaxOvertaken
    /\ Lag["nwk"] = Interval /\ Lag["aps"] = ApsLag
  <1>1. IsFiniteSet(Callers) /\ Cardinality(Callers) \in Nat
    BY CountersAssumption, FS_CardinalityType
  <1> QED BY <1>1, CountersAssumption DEF AtRest, Unseen, ApsLag, Larger, Lag, Streams

LEMMA LookingFew ==
    /\ IsFiniteSet(Looking) /\ Cardinality(Looking) \in Nat
    /\ Cardinality(Looking) <= Cardinality(Callers)
  BY Constants, FS_Subset, FS_CardinalityType DEF Looking

LEMMA NwkLag ==
    ASSUME TypeOK, NEW p \in [Streams -> Nat], Stored(p), NwkNotified(p)
    PROVE  counter["nwk"] < stored["nwk"] + Interval * (unheard["nwk"] + 1)
  <1>1. /\ counter["nwk"] \in Nat /\ stored["nwk"] \in Nat /\ unheard["nwk"] \in Nat
        /\ p["nwk"] \in Nat
    BY DEF TypeOK, Streams
  <1>2. counter["nwk"] % Interval \in 0 .. Interval - 1
    BY <1>1, Constants, Remainder
  <1>3. p["nwk"] <= stored["nwk"] + Interval * unheard["nwk"]
    BY Constants DEF Stored, Streams
  <1>4. /\ Interval * (unheard["nwk"] + 1) = Interval * unheard["nwk"] + Interval
        /\ Interval * unheard["nwk"] \in Nat
    BY <1>1, Constants, Distributes
  <1> QED BY <1>1, <1>2, <1>3, <1>4, Constants DEF NwkNotified

LEMMA ApsAhead ==
    ASSUME TypeOK, Overtaken, NEW p \in [Streams -> Nat], ActingSoon(p), UnseenFew(p)
    PROVE  counter["aps"] <= p["aps"] + ApsLag
  <1>1. /\ counter["aps"] \in Nat /\ p["aps"] \in Nat /\ silent \in 0 .. MaxSilent
        /\ \A c \in Callers : caller[c].read \in Nat
    BY DEF TypeOK, Streams, Caller
  <1>2. CASE Acting = {}
    BY <1>1, <1>2, Constants, LookingFew DEF UnseenFew, Pushing, Acting
  <1>3. CASE Acting # {}
    BY <1>1, <1>3, Constants DEF ActingSoon, Overtaken, Acting
  <1> QED BY <1>2, <1>3

LEMMA MarginCovers ==
    ASSUME TypeOK, Overtaken, NEW p \in [Streams -> Nat], Follows(p),
           \A s \in Streams : unheard[s] <= MaxUnheard[s]
    PROVE  \A s \in Streams : counter[s] <= stored[s] + Margin[s]
  <1> DEFINE un == unheard["nwk"] + 1
             mn == MaxUnheard["nwk"] + 1
             ua == unheard["aps"] + 1
             ma == MaxUnheard["aps"] + 1
  <1>1. \A s \in Streams : /\ counter[s] \in Nat /\ stored[s] \in Nat /\ unheard[s] \in Nat
                            /\ p[s] \in Nat /\ unheard[s] <= MaxUnheard[s]
    BY DEF TypeOK
  <1>2. "nwk" \in Streams /\ "aps" \in Streams
    BY DEF Streams
  <1>3. un \in Nat /\ mn \in Nat /\ un <= mn /\ ua \in Nat /\ ma \in Nat /\ ua <= ma
    BY <1>1, <1>2, Constants
  <1>4. counter["nwk"] <= stored["nwk"] + Margin["nwk"]
    <2>1. counter["nwk"] < stored["nwk"] + Interval * un
      BY NwkLag DEF Follows
    <2>2. Interval * un <= Interval * mn /\ Margin["nwk"] >= Interval * mn - 1
      BY <1>3, Constants, Monotone, MarginAssumption
    <2>3. Interval * un \in Nat /\ Interval * mn \in Nat
      BY <1>3, Constants
    <2> QED BY <2>1, <2>2, <2>3, <1>1, <1>2, Constants
  <1>5. counter["aps"] <= stored["aps"] + Margin["aps"]
    <2>1. p["aps"] <= stored["aps"] + ApsLag * unheard["aps"] /\ counter["aps"] <= p["aps"] + ApsLag
      BY <1>2, ApsAhead, Constants DEF Follows, Stored
    <2>2. ApsLag * ua <= ApsLag * ma /\ Margin["aps"] >= ApsLag * ma
      BY <1>3, Constants, Monotone, MarginAssumption
    <2>3. ApsLag * ua = ApsLag * unheard["aps"] + ApsLag /\ ApsLag * unheard["aps"] \in Nat
      BY <1>1, <1>2, Constants, Distributes
    <2>4. ApsLag * ua \in Nat /\ ApsLag * ma \in Nat
      BY <1>3, Constants
    <2> QED BY <2>1, <2>2, <2>3, <2>4, <1>1, <1>2, Constants
  <1> QED BY <1>4, <1>5 DEF Streams

-----------------------------------------------------------------------------
(* The notification queue *)

\* The last update of a stream after an event is queued: the event, or what it was before, unless
\* the queue was full and it was the oldest.
LEMMA PushedTold ==
    ASSUME TypeOK, NEW e \in Event, queue' = Pushed(e)
    PROVE  /\ queue' \in Seq(Event)
           /\ \A s \in Streams : \A j \in LastTold(s)' :
                 IF e.kind = s THEN queue'[j] = e ELSE \E i \in LastTold(s) : queue'[j] = queue[i]
  <1> DEFINE m == Larger(1, Len(queue) - Cap + 2)
             kept == SubSeq(queue, m, Len(queue))
  <1>1. queue \in Seq(Event) /\ Len(queue) \in Nat
    BY DEF TypeOK
  <1>2. m \in Nat /\ 1 <= m /\ m <= Len(queue) + 1
    BY <1>1, Constants DEF Larger
  <1>3. queue' = Append(kept, e)
    BY DEF Pushed
  <1> HIDE DEF m
  <1>4. /\ kept \in Seq(Event) /\ Len(kept) = Len(queue) - m + 1
        /\ \A i \in 1 .. Len(kept) : kept[i] = queue[m - 1 + i]
    BY <1>1, <1>2
  <1> HIDE DEF kept
  <1>5. /\ queue' \in Seq(Event) /\ Len(queue') = Len(kept) + 1 /\ queue'[Len(kept) + 1] = e
        /\ \A i \in 1 .. Len(kept) : queue'[i] = kept[i]
    BY <1>3, <1>4
  <1>6. ASSUME NEW s \in Streams, NEW j \in LastTold(s)'
        PROVE  IF e.kind = s THEN queue'[j] = e ELSE \E i \in LastTold(s) : queue'[j] = queue[i]
    <2>1. /\ j \in 1 .. Len(queue') /\ queue'[j].kind = s
          /\ \A k \in j + 1 .. Len(queue') : queue'[k].kind # s
      BY DEF LastTold
    <2>2. CASE e.kind = s
      BY <2>1, <2>2, <1>4, <1>5
    <2>3. CASE e.kind # s
      <3> DEFINE i == m - 1 + j
      <3>1. j \in 1 .. Len(kept)
        BY <2>1, <2>3, <1>4, <1>5
      <3>2. i \in 1 .. Len(queue) /\ queue'[j] = queue[i]
        BY <3>1, <1>1, <1>2, <1>4, <1>5
      <3>3. ASSUME NEW k \in i + 1 .. Len(queue) PROVE queue[k].kind # s
        <4>1. k - m + 1 \in j + 1 .. Len(kept) /\ m - 1 + (k - m + 1) = k /\ j + 1 \in Nat
          BY <3>1, <1>1, <1>2, <1>4
        <4>2. queue'[k - m + 1] = queue[k] /\ k - m + 1 \in j + 1 .. Len(queue')
          BY <4>1, <1>4, <1>5, <3>1
        <4> QED BY <4>2, <2>1
      <3>4. i \in LastTold(s)
        BY <3>2, <3>3, <2>1 DEF LastTold
      <3> QED BY <3>2, <3>4, <2>3
    <2> QED BY <2>2, <2>3
  <1> QED BY <1>5, <1>6

LEMMA EventTypes ==
    /\ Other \in Event /\ \A s \in Streams, v \in Nat : Update(s, v) \in Event
    /\ \A s \in Streams : Other.kind # s
    /\ \A s, t \in Streams, v \in Nat : (Update(s, v).kind = t) = (s = t) /\ Update(s, v).value = v
  BY DEF Other, Update, Event, Streams

-----------------------------------------------------------------------------
(* Steps that leave the link-key counter and its callers alone *)

Link == <<counter["aps"], lastPersisted, caller, silent>>

LEMMA LinkUnchanged ==
    ASSUME Overtaken, UNCHANGED Link,
           NEW p \in [Streams -> Nat], Persisted(p), ActingSoon(p), UnseenFew(p),
           NEW q \in [Streams -> Nat], q["aps"] = p["aps"]
    PROVE  Overtaken' /\ Persisted(q)' /\ ActingSoon(q)' /\ UnseenFew(q)'
  <1>1. /\ counter'["aps"] = counter["aps"] /\ lastPersisted' = lastPersisted
        /\ caller' = caller /\ silent' = silent
    BY DEF Link
  <1>2. Acting' = Acting /\ Looking' = Looking /\ Pushing' = Pushing
    BY <1>1 DEF Acting, Looking, Pushing
  <1>3. Overtaken'
    BY <1>1, <1>2 DEF Overtaken
  <1>4. Persisted(q)'
    BY <1>1 DEF Persisted
  <1>5. ActingSoon(q)'
    BY <1>1, <1>2 DEF ActingSoon, AtRest, Unseen
  <1>6. UnseenFew(q)'
    BY <1>1, <1>2 DEF UnseenFew, AtRest
  <1> QED BY <1>3, <1>4, <1>5, <1>6

LEMMA InitCounters == Init => CountersInv
  <1> SUFFICES ASSUME Init PROVE CountersInv
    OBVIOUS
  <1> DEFINE p == [s \in Streams |-> 0]
  <1>1. p \in [Streams -> Nat] /\ p["nwk"] = 0 /\ p["aps"] = 0
    BY DEF Streams
  <1>2. TypeOK
    BY Constants DEF Init, TypeOK, Streams, Idle, Caller
  <1>3. Acting = {} /\ NeverAhead /\ Overtaken
    BY Constants DEF Init, Acting, Idle, NeverAhead, Overtaken, Streams
  <1>4. Stored(p)
    <2>1. \A s \in Streams : Lag[s] * 0 = 0
      BY Constants DEF Streams
    <2> QED BY <2>1 DEF Stored, Init, LastTold, Streams
  <1>5. NwkNotified(p)
    <2>1. 0 % Interval \in 0 .. Interval - 1
      BY Constants, Remainder
    <2> QED BY <2>1, <1>1, Constants DEF Init, NwkNotified, Streams
  <1>6. Persisted(p)
    BY <1>1, Constants DEF Init, Persisted, Streams
  <1>7. ActingSoon(p) /\ UnseenFew(p)
    BY <1>1, <1>3, Constants, LookingFew DEF Init, ActingSoon, UnseenFew, Streams
  <1> QED BY <1>1, <1>2, <1>3, <1>4, <1>5, <1>6, <1>7 DEF CountersInv, Follows

LEMMA PushOtherStep ==
    ASSUME CountersInv, PushOther PROVE CountersInv'
  <1>1. PICK p \in [Streams -> Nat] : Follows(p)
    BY DEF CountersInv
  <1>2. /\ TypeOK /\ NeverAhead /\ Overtaken
        /\ UNCHANGED <<counter, lastPersisted, caller, stored, air, unheard, silent>>
        /\ queue' = Pushed(Other)
    BY DEF CountersInv, PushOther
  <1>3. queue' \in Seq(Event) /\ \A s \in Streams : \A j \in LastTold(s)' :
                                   \E i \in LastTold(s) : queue'[j] = queue[i]
    BY <1>2, PushedTold, EventTypes
  <1>4. TypeOK' /\ NeverAhead'
    BY <1>2, <1>3 DEF TypeOK, NeverAhead
  <1>5. Overtaken' /\ Persisted(p)' /\ ActingSoon(p)' /\ UnseenFew(p)'
    BY <1>1, <1>2, LinkUnchanged DEF Link, Follows
  <1>6. Stored(p)' /\ NwkNotified(p)'
    BY <1>1, <1>2, <1>3 DEF Follows, Stored, NwkNotified
  <1> QED BY <1>4, <1>5, <1>6 DEF CountersInv, Follows, Streams

LEMMA NoneUnheard ==
    ASSUME TypeOK PROVE \A s \in Streams : Lag[s] \in Nat /\ Lag[s] * 0 = 0
  BY Constants DEF Streams

LEMMA DrainStep ==
    ASSUME CountersInv, Drain PROVE CountersInv'
  <1>1. PICK p \in [Streams -> Nat] : Follows(p)
    BY DEF CountersInv
  <1>2. /\ TypeOK /\ NeverAhead /\ Overtaken
        /\ UNCHANGED <<counter, lastPersisted, caller, air, silent>>
        /\ queue' = << >>
    BY DEF CountersInv, Drain
  <1>3. ASSUME NEW s \in Streams
        PROVE  IF LastTold(s) = {} THEN stored'[s] = stored[s] /\ unheard'[s] = unheard[s]
                                   ELSE stored'[s] = p[s] /\ unheard'[s] = 0
    <2>1. CASE LastTold(s) = {}
      BY <2>1 DEF Drain
    <2>2. CASE LastTold(s) # {}
      <3>1. (CHOOSE i \in LastTold(s) : TRUE) \in LastTold(s)
        BY <2>2
      <3>2. queue[CHOOSE i \in LastTold(s) : TRUE].value = p[s]
        BY <3>1, <1>1 DEF Follows, Stored
      <3> QED BY <2>2, <3>2 DEF Drain
    <2> QED BY <2>1, <2>2
  <1>4. TypeOK'
    <2>1. ASSUME NEW s \in Streams PROVE stored'[s] \in Nat /\ unheard'[s] \in Nat
      <3>1. stored[s] \in Nat /\ unheard[s] \in Nat /\ p[s] \in Nat
        BY <1>2 DEF TypeOK
      <3> QED BY <3>1, <1>3
    <2>2. stored' \in [Streams -> Nat] /\ unheard' \in [Streams -> Nat]
      BY <2>1 DEF Drain
    <2> QED BY <1>2, <2>2 DEF TypeOK
  <1>5. NeverAhead'
    BY <1>2 DEF NeverAhead
  <1>6. Overtaken' /\ Persisted(p)' /\ ActingSoon(p)' /\ UnseenFew(p)'
    BY <1>1, <1>2, LinkUnchanged DEF Link, Follows
  <1>7. Stored(p)'
    <2>1. \A s \in Streams : LastTold(s)' = {}
      BY <1>2 DEF LastTold
    <2>2. \A s \in Streams : p[s] <= stored'[s] + Lag[s] * unheard'[s]
      <3> SUFFICES ASSUME NEW s \in Streams PROVE p[s] <= stored'[s] + Lag[s] * unheard'[s]
        OBVIOUS
      <3>1. p[s] <= stored[s] + Lag[s] * unheard[s] /\ p[s] \in Nat /\ Lag[s] * 0 = 0
        BY <1>1, <1>2, NoneUnheard DEF Follows, Stored
      <3>2. CASE LastTold(s) = {}
        BY <3>1, <3>2, <1>3
      <3>3. CASE LastTold(s) # {}
        BY <3>1, <3>3, <1>3
      <3> QED BY <3>2, <3>3
    <2> QED BY <2>1, <2>2, <1>1, <1>2 DEF Follows, Stored, Lag
  <1>8. NwkNotified(p)'
    BY <1>1, <1>2 DEF Follows, NwkNotified
  <1> QED BY <1>4, <1>5, <1>6, <1>7, <1>8 DEF CountersInv, Follows, Streams

LEMMA ReadNetworkInfoStep ==
    ASSUME CountersInv, ReadNetworkInfo PROVE CountersInv'
  <1>1. PICK p \in [Streams -> Nat] : Follows(p)
    BY DEF CountersInv
  <1>2. /\ TypeOK /\ NeverAhead /\ Overtaken
        /\ UNCHANGED <<counter, lastPersisted, queue, caller, air, silent>>
        /\ stored' = counter /\ unheard' = [s \in Streams |-> 0]
    BY DEF CountersInv, ReadNetworkInfo, stack
  <1>3. TypeOK' /\ NeverAhead'
    BY <1>2 DEF TypeOK, NeverAhead
  <1>4. Overtaken' /\ Persisted(p)' /\ ActingSoon(p)' /\ UnseenFew(p)'
    BY <1>1, <1>2, LinkUnchanged DEF Link, Follows
  <1>5. Stored(p)'
    <2>1. \A s \in Streams : /\ LastTold(s)' = LastTold(s) /\ counter[s] \in Nat /\ p[s] \in Nat
                              /\ p[s] <= counter[s] /\ \A i \in LastTold(s) : queue[i].value = p[s]
      BY <1>1, <1>2 DEF LastTold, Follows, Stored, TypeOK
    <2>2. \A s \in Streams : stored'[s] = counter[s] /\ Lag[s] * unheard'[s] = 0
      BY <1>2, NoneUnheard
    <2>3. \A s \in Streams : p[s] <= stored'[s] + Lag[s] * unheard'[s]
      BY <2>1, <2>2
    <2> QED BY <1>2, <2>1, <2>3 DEF Stored, Lag
  <1>6. NwkNotified(p)'
    BY <1>1, <1>2 DEF Follows, NwkNotified
  <1> QED BY <1>3, <1>4, <1>5, <1>6 DEF CountersInv, Follows, Streams

-----------------------------------------------------------------------------
(* Securing a frame *)

LEMMA AdvanceTypes ==
    ASSUME TypeOK, NeverAhead, NEW s \in Streams, Advance(s)
    PROVE  /\ counter' = [counter EXCEPT ![s] = @ + 1] /\ counter' \in [Streams -> Nat]
           /\ air' \in [Streams -> [frames : Nat, last : Nat]] /\ NeverAhead'
  <1>1. counter' = [counter EXCEPT ![s] = @ + 1] /\ counter' \in [Streams -> Nat]
    BY DEF Advance, TypeOK
  <1>2. /\ air' = [air EXCEPT ![s] = [frames |-> air[s].frames + 1, last |-> counter[s] + 1]]
        /\ air' \in [Streams -> [frames : Nat, last : Nat]]
    BY DEF Advance, TypeOK
  <1>3. NeverAhead'
    BY <1>1, <1>2 DEF NeverAhead, TypeOK
  <1> QED BY <1>1, <1>2, <1>3

LEMMA SecureNwkStep ==
    ASSUME CountersInv, SecureNwk PROVE CountersInv'
  <1>1. PICK p \in [Streams -> Nat] : Follows(p)
    BY DEF CountersInv
  <1>2. /\ TypeOK /\ NeverAhead /\ Overtaken /\ Advance("nwk")
        /\ UNCHANGED <<lastPersisted, caller, stored, silent>>
    BY DEF CountersInv, SecureNwk
  <1>n. PICK n \in Nat : n = counter["nwk"]
    BY <1>2 DEF Streams, TypeOK
  <1>3. "nwk" \in Streams /\ n \in Nat /\ n + 1 \in Nat /\ p["nwk"] \in Nat
    BY DEF Streams
  <1>4. /\ counter' = [counter EXCEPT !["nwk"] = n + 1] /\ counter' \in [Streams -> Nat]
        /\ air' \in [Streams -> [frames : Nat, last : Nat]] /\ NeverAhead'
    BY <1>2, <1>3, <1>n, AdvanceTypes
  <1>5. counter'["nwk"] = n + 1 /\ counter'["aps"] = counter["aps"]
    BY <1>2, <1>4 DEF TypeOK, Streams
  <1>6. UNCHANGED Link
    BY <1>2, <1>5 DEF Link
  <1>7. CASE (n + 1) % Interval = 0
    <2>1. /\ queue' = Pushed(Update("nwk", n + 1))
          /\ unheard' = [unheard EXCEPT !["nwk"] = @ + 1] /\ unheard' \in [Streams -> Nat]
      <3>1. Notify("nwk", n + 1)
        BY <1>5, <1>7 DEF SecureNwk, ShouldPersist
      <3> QED BY <3>1, <1>2, <1>3 DEF Notify, TypeOK
    <2>2. /\ queue' \in Seq(Event)
          /\ \A j \in LastTold("nwk")' : queue'[j].value = n + 1
          /\ \A j \in LastTold("aps")' : \E i \in LastTold("aps") : queue'[j] = queue[i]
      BY <1>2, <1>3, <2>1, PushedTold, EventTypes DEF Streams
    <2>3. TypeOK'
      BY <1>2, <1>4, <2>1, <2>2 DEF TypeOK
    <2>4. PICK q \in [Streams -> Nat] : q["nwk"] = n + 1 /\ q["aps"] = p["aps"]
      <3>1. [p EXCEPT !["nwk"] = n + 1] \in [Streams -> Nat]
        BY <1>3
      <3> QED BY <3>1 DEF Streams
    <2>5. Overtaken' /\ Persisted(q)' /\ ActingSoon(q)' /\ UnseenFew(q)'
      BY <1>1, <1>2, <1>6, <2>4, LinkUnchanged DEF Follows
    <2>6. Stored(q)'
      <3>1. n + 1 <= stored["nwk"] + Interval * (unheard["nwk"] + 1)
        <4>1. n < stored["nwk"] + Interval * (unheard["nwk"] + 1)
          BY <1>1, <1>2, <1>n, NwkLag DEF Follows
        <4>2. stored["nwk"] \in Nat /\ unheard["nwk"] + 1 \in Nat
          BY <1>2, <1>3 DEF TypeOK
        <4>3. Interval * (unheard["nwk"] + 1) \in Nat
          BY <4>2, Constants
        <4> QED BY <4>1, <4>2, <4>3, <1>3
      <3>2. /\ stored'["nwk"] = stored["nwk"] /\ unheard'["nwk"] = unheard["nwk"] + 1
            /\ stored'["aps"] = stored["aps"] /\ unheard'["aps"] = unheard["aps"]
        BY <1>2, <2>1 DEF TypeOK, Streams
      <3>3. /\ q["nwk"] <= counter'["nwk"] /\ q["nwk"] <= stored'["nwk"] + Lag["nwk"] * unheard'["nwk"]
            /\ \A i \in LastTold("nwk")' : queue'[i].value = q["nwk"]
        BY <3>1, <3>2, <2>2, <2>4, <1>3, <1>5, Constants
      <3>4. /\ q["aps"] <= counter'["aps"] /\ q["aps"] <= stored'["aps"] + Lag["aps"] * unheard'["aps"]
            /\ \A i \in LastTold("aps")' : queue'[i].value = q["aps"]
        BY <3>2, <2>2, <2>4, <1>1, <1>5 DEF Follows, Stored, Streams
      <3> QED BY <3>3, <3>4 DEF Stored, Lag, Streams
    <2>7. NwkNotified(q)'
      BY <1>3, <1>5, <1>7, <2>4 DEF NwkNotified
    <2> QED BY <2>3, <2>4, <2>5, <2>6, <2>7, <1>4 DEF CountersInv, Follows, Streams
  <1>8. CASE (n + 1) % Interval # 0
    <2>1. UNCHANGED <<queue, unheard>>
      BY <1>5, <1>8 DEF SecureNwk, ShouldPersist
    <2>2. TypeOK'
      BY <1>2, <1>4, <2>1 DEF TypeOK
    <2>3. Overtaken' /\ Persisted(p)' /\ ActingSoon(p)' /\ UnseenFew(p)'
      BY <1>1, <1>2, <1>6, LinkUnchanged DEF Follows
    <2>4. Stored(p)'
      <3>1. ASSUME NEW s \in Streams
            PROVE  counter[s] <= counter'[s] /\ counter[s] \in Nat /\ counter'[s] \in Nat
        <4>1. counter[s] \in Nat /\ counter'[s] = IF s = "nwk" THEN n + 1 ELSE counter[s]
          BY <1>2, <1>4 DEF TypeOK
        <4> QED BY <4>1, <1>n
      <3>2. \A s \in Streams : LastTold(s)' = LastTold(s) /\ p[s] \in Nat
        BY <2>1 DEF LastTold
      <3>3. \A s \in Streams : p[s] <= counter'[s]
        BY <3>1, <3>2, <1>1 DEF Follows, Stored
      <3> QED BY <3>2, <3>3, <1>1, <1>2, <2>1 DEF Follows, Stored, Lag
    <2>5. NwkNotified(p)'
      <3>0. Interval \in Nat \ {0}
        BY Constants
      <3>1. (n + 1) % Interval = (n % Interval) + 1 /\ n % Interval \in Nat
        <4>1. n % Interval \in 0 .. Interval - 1
          BY <3>0, Remainder
        <4>2. (n + 1) % Interval = (n % Interval) + 1
          BY <3>0, <1>8, Remainder
        <4> QED BY <4>1, <4>2, <3>0
      <3>2. n - (n % Interval) <= p["nwk"]
        BY <1>1, <1>n DEF Follows, NwkNotified
      <3>3. (n + 1) - ((n + 1) % Interval) <= p["nwk"]
        BY <3>1, <3>2, <1>3
      <3> QED BY <3>3, <1>5 DEF NwkNotified
    <2> QED BY <2>2, <2>3, <2>4, <2>5, <1>4 DEF CountersInv, Follows, Streams
  <1> QED BY <1>7, <1>8

\* What a step under link keys that notifies nothing leaves alone.
LEMMA NothingNotified ==
    ASSUME TypeOK, UNCHANGED <<queue, stored, unheard>>,
           counter'["nwk"] = counter["nwk"], counter'["aps"] \in {counter["aps"], counter["aps"] + 1},
           NEW p \in [Streams -> Nat], Stored(p), NwkNotified(p)
    PROVE  Stored(p)' /\ NwkNotified(p)'
  <1>1. \A s \in Streams : /\ p[s] <= counter[s] /\ p[s] \in Nat /\ counter[s] \in Nat
                            /\ counter'[s] \in {counter[s], counter[s] + 1}
    BY DEF TypeOK, Stored, Streams
  <1>2. \A s \in Streams : LastTold(s)' = LastTold(s) /\ p[s] <= counter'[s]
    BY <1>1 DEF LastTold
  <1>3. Stored(p)'
    BY <1>2 DEF Stored, Lag
  <1>4. NwkNotified(p)'
    BY DEF NwkNotified
  <1> QED BY <1>3, <1>4

LEMMA ReadTypes ==
    ASSUME TypeOK, NEW p \in [Streams -> Nat]
    PROVE  /\ counter["aps"] \in Nat /\ counter["nwk"] \in Nat /\ p["aps"] \in Nat
           /\ silent \in 0 .. MaxSilent /\ silent \in Nat /\ lastPersisted \in Nat
           /\ \A c \in Callers : caller[c].read \in Nat
  BY Constants DEF TypeOK, Streams, Caller

\* Securing a frame while every caller is timely, by a command or by a caller that has yet to look.
LEMMA AdvanceLink ==
    ASSUME TypeOK, NeverAhead, Overtaken, Timely, Advance("aps"),
           UNCHANGED <<lastPersisted, queue, stored, unheard>>,
           caller' \in [Callers -> Caller], silent' \in 0 .. MaxSilent,
           \A c \in Callers : /\ caller'[c].read = caller[c].read
                               /\ \/ caller'[c].at = caller[c].at
                                  \/ caller[c].at = "idle" /\ caller'[c].at = "read",
           silent' + Cardinality(Looking') = silent + Cardinality(Looking) + 1,
           Cardinality(Looking') \in Nat,
           NEW p \in [Streams -> Nat], Follows(p)
    PROVE  CountersInv'
  <1>1. "aps" \in Streams
    BY DEF Streams
  <1>2. /\ counter' = [counter EXCEPT !["aps"] = @ + 1] /\ counter' \in [Streams -> Nat]
        /\ air' \in [Streams -> [frames : Nat, last : Nat]] /\ NeverAhead'
    BY <1>1, AdvanceTypes
  <1>3. counter'["aps"] = counter["aps"] + 1 /\ counter'["nwk"] = counter["nwk"]
    BY <1>1, <1>2 DEF TypeOK, Streams
  <1>4. TypeOK'
    BY <1>2 DEF TypeOK
  <1>5. Stored(p)' /\ NwkNotified(p)'
    BY <1>3, NothingNotified DEF Follows
  <1>6. Acting' = Acting /\ Pushing' = Pushing
    BY DEF Acting, Pushing
  <1>7. Overtaken'
    <2> SUFFICES ASSUME NEW c \in Acting
                 PROVE  caller'[c].read <= counter'["aps"] /\ counter'["aps"] <= caller'[c].read + MaxOvertaken
      BY <1>6 DEF Overtaken
    <2>1. /\ c \in Callers /\ caller'[c].read = caller[c].read
          /\ counter["aps"] - caller[c].read < MaxOvertaken /\ caller[c].read <= counter["aps"]
      BY DEF Acting, Timely, Overtaken
    <2> QED BY <2>1, <1>3, ReadTypes, Constants
  <1>8. Persisted(p)'
    <2>1. lastPersisted' <= counter'["aps"]
      BY <1>3, ReadTypes DEF Follows, Persisted
    <2> QED BY <2>1 DEF Follows, Persisted
  <1>9. ActingSoon(p)'
    <2>1. \A c \in Acting : caller'[c].read = caller[c].read
      BY DEF Acting
    <2> QED BY <1>6, <2>1 DEF Follows, ActingSoon, AtRest, Unseen
  <1>10. UnseenFew(p)'
    <2>1. CASE Pushing # {}
      BY <2>1, <1>6 DEF UnseenFew
    <2>2. ASSUME NEW c \in Acting, counter["aps"] <= caller[c].read + silent + Cardinality(Looking)
          PROVE  UnseenFew(p)'
      <3>1. caller[c].read \in Nat /\ caller'[c].read = caller[c].read
        BY ReadTypes DEF Acting
      <3>2. counter'["aps"] <= caller'[c].read + silent' + Cardinality(Looking')
        BY <2>2, <3>1, <1>3, ReadTypes, LookingFew, Constants
      <3> QED BY <3>2, <1>6 DEF UnseenFew
    <2>3. CASE counter["aps"] <= p["aps"] + AtRest + silent + Cardinality(Looking)
      <3>1. counter'["aps"] <= p["aps"] + AtRest + silent' + Cardinality(Looking')
        BY <2>3, <1>3, ReadTypes, LookingFew, Constants
      <3> QED BY <3>1 DEF UnseenFew, AtRest
    <2> QED BY <2>1, <2>2, <2>3 DEF Follows, UnseenFew
  <1> QED BY <1>2, <1>4, <1>5, <1>7, <1>8, <1>9, <1>10 DEF CountersInv, Follows, Streams

LEMMA SecureCommandStep ==
    ASSUME CountersInv, SecureCommand PROVE CountersInv'
  <1>1. PICK p \in [Streams -> Nat] : Follows(p)
    BY DEF CountersInv
  <1>2. /\ TypeOK /\ NeverAhead /\ Overtaken /\ Timely /\ Advance("aps")
        /\ UNCHANGED <<lastPersisted, queue, caller, stored, unheard>>
        /\ silent' = silent + 1 /\ silent < MaxSilent
    BY DEF CountersInv, SecureCommand
  <1>3. Looking' = Looking
    BY <1>2 DEF Looking
  <1>4. caller' \in [Callers -> Caller] /\ silent' \in 0 .. MaxSilent /\ silent \in Nat
    BY <1>2, Constants DEF TypeOK
  <1>5. /\ silent' + Cardinality(Looking') = silent + Cardinality(Looking) + 1
        /\ Cardinality(Looking') \in Nat
    BY <1>2, <1>3, <1>4, LookingFew
  <1> QED BY <1>1, <1>2, <1>4, <1>5, AdvanceLink

LEMMA SecureDataStep ==
    ASSUME CountersInv, NEW c \in Callers, SecureData(c) PROVE CountersInv'
  <1>1. PICK p \in [Streams -> Nat] : Follows(p)
    BY DEF CountersInv
  <1>2. /\ TypeOK /\ NeverAhead /\ Overtaken /\ Timely /\ Advance("aps")
        /\ UNCHANGED <<lastPersisted, queue, stored, unheard, silent>>
        /\ caller[c].at = "idle" /\ caller' = [caller EXCEPT ![c].at = "read"]
    BY DEF CountersInv, SecureData
  <1>3. /\ caller' \in [Callers -> Caller] /\ silent' \in 0 .. MaxSilent
        /\ \A d \in Callers : /\ caller'[d].read = caller[d].read
                               /\ caller'[d].at = IF d = c THEN "read" ELSE caller[d].at
    BY <1>2 DEF TypeOK, Caller
  <1>4. Looking' = Looking \cup {c} /\ c \notin Looking
    BY <1>2, <1>3 DEF Looking
  <1>5. /\ Cardinality(Looking') = Cardinality(Looking) + 1
        /\ Cardinality(Looking') \in Nat
    BY <1>4, LookingFew, FS_AddElement
  <1>6. silent' + Cardinality(Looking') = silent + Cardinality(Looking) + 1
    BY <1>2, <1>5, LookingFew, ReadTypes
  <1>7. \A d \in Callers : /\ caller'[d].read = caller[d].read
                            /\ \/ caller'[d].at = caller[d].at
                               \/ caller[d].at = "idle" /\ caller'[d].at = "read"
    BY <1>2, <1>3
  <1> QED BY <1>1, <1>2, <1>3, <1>5, <1>6, <1>7, AdvanceLink

-----------------------------------------------------------------------------
(* maybe_notify_aps_frame_counter *)

LEMMA ReadCounterStep ==
    ASSUME CountersInv, NEW c \in Callers, ReadCounter(c) PROVE CountersInv'
  <1>1. PICK p \in [Streams -> Nat] : Follows(p)
    BY DEF CountersInv
  <1>2. /\ TypeOK /\ NeverAhead /\ Overtaken /\ caller[c].at = "read"
        /\ caller' = [caller EXCEPT ![c] = [at |-> "load", read |-> counter["aps"]]] /\ silent' = 0
        /\ UNCHANGED <<counter, lastPersisted, queue, stored, air, unheard>>
    BY DEF CountersInv, ReadCounter
  <1>3. /\ caller' \in [Callers -> Caller]
        /\ \A d \in Callers :
              caller'[d] = IF d = c THEN [at |-> "load", read |-> counter["aps"]] ELSE caller[d]
    BY <1>2, ReadTypes DEF TypeOK, Caller
  <1>4. TypeOK' /\ NeverAhead' /\ Stored(p)' /\ NwkNotified(p)'
    BY <1>1, <1>2, <1>3, Constants, NothingNotified DEF TypeOK, NeverAhead, Follows
  <1>5. /\ Acting' = Acting \cup {c} /\ c \notin Acting /\ Pushing' = Pushing
        /\ Looking' = Looking \ {c}
    BY <1>2, <1>3 DEF Acting, Pushing, Looking
  <1>6. Overtaken'
    BY <1>2, <1>3, <1>5, ReadTypes, Constants DEF Overtaken, Acting
  <1>7. Persisted(p)'
    BY <1>1, <1>2, <1>3 DEF Follows, Persisted
  <1>8. ActingSoon(p)'
    <2>1. CASE Acting = {}
      <3>1. Pushing = {}
        BY <2>1 DEF Acting, Pushing
      <3>2. counter["aps"] <= p["aps"] + AtRest + silent + Cardinality(Looking)
        BY <2>1, <3>1, <1>1 DEF Follows, UnseenFew
      <3>3. caller'[c].read <= p["aps"] + AtRest + Unseen
        BY <3>2, <1>2, <1>3, ReadTypes, LookingFew, Constants
      <3> QED BY <3>3, <1>5 DEF ActingSoon, AtRest, Unseen
    <2>2. CASE Acting # {}
      <3>1. PICK d \in Acting : caller[d].read <= p["aps"] + AtRest + Unseen
        BY <2>2, <1>1 DEF Follows, ActingSoon
      <3>2. d \in Acting' /\ caller'[d].read = caller[d].read
        BY <1>3, <1>5 DEF Acting
      <3> QED BY <3>1, <3>2 DEF ActingSoon, AtRest, Unseen
    <2> QED BY <2>1, <2>2
  <1>9. UnseenFew(p)'
    <2>1. Cardinality(Looking') \in Nat
      BY <1>5, LookingFew, FS_Subset, FS_CardinalityType
    <2>2. c \in Acting' /\ counter'["aps"] <= caller'[c].read + silent' + Cardinality(Looking')
      BY <2>1, <1>2, <1>3, <1>5, ReadTypes
    <2> QED BY <2>2 DEF UnseenFew
  <1> QED BY <1>4, <1>6, <1>7, <1>8, <1>9 DEF CountersInv, Follows, Streams

\* A caller whose counter is due goes on to store it, then to notify it.
LEMMA LoadDueStep ==
    ASSUME CountersInv, NEW c \in Callers, LoadLast(c), Due(caller[c].read, lastPersisted)
    PROVE  CountersInv'
  <1>1. PICK p \in [Streams -> Nat] : Follows(p)
    BY DEF CountersInv
  <1>2. /\ TypeOK /\ NeverAhead /\ Overtaken /\ caller[c].at = "load"
        /\ caller' = [caller EXCEPT ![c].at = "store"]
        /\ UNCHANGED <<counter, lastPersisted, queue, stored, air, unheard, silent>>
    BY DEF CountersInv, LoadLast
  <1>3. /\ caller' \in [Callers -> Caller]
        /\ \A d \in Callers : /\ caller'[d].read = caller[d].read
                               /\ caller'[d].at = IF d = c THEN "store" ELSE caller[d].at
    BY <1>2 DEF TypeOK, Caller
  <1>4. TypeOK' /\ NeverAhead' /\ Stored(p)' /\ NwkNotified(p)'
    BY <1>1, <1>2, <1>3, Constants, NothingNotified DEF TypeOK, NeverAhead, Follows
  <1>5. Acting' = Acting /\ c \in Pushing'
    BY <1>2, <1>3 DEF Acting, Pushing
  <1>6. Overtaken'
    BY <1>2, <1>3, <1>5 DEF Overtaken, Acting
  <1>7. Persisted(p)'
    BY <1>1, <1>2, <1>3 DEF Follows, Persisted
  <1>8. ActingSoon(p)'
    BY <1>1, <1>3, <1>5 DEF Follows, ActingSoon, Acting, AtRest, Unseen
  <1>9. UnseenFew(p)'
    BY <1>5 DEF UnseenFew
  <1> QED BY <1>4, <1>6, <1>7, <1>8, <1>9 DEF CountersInv, Follows, Streams

\* A caller whose counter is not due leaves it to the update that made it so.
LEMMA LoadNotDueStep ==
    ASSUME CountersInv, NEW c \in Callers, LoadLast(c), ~ Due(caller[c].read, lastPersisted)
    PROVE  CountersInv'
  <1>1. PICK p \in [Streams -> Nat] : Follows(p)
    BY DEF CountersInv
  <1>2. /\ TypeOK /\ NeverAhead /\ Overtaken /\ caller[c].at = "load"
        /\ caller' = [caller EXCEPT ![c] = Idle]
        /\ UNCHANGED <<counter, lastPersisted, queue, stored, air, unheard, silent>>
    BY DEF CountersInv, LoadLast
  <1>3. /\ caller' \in [Callers -> Caller]
        /\ \A d \in Callers : caller'[d] = IF d = c THEN Idle ELSE caller[d]
    BY <1>2 DEF TypeOK, Caller, Idle
  <1>4. TypeOK' /\ NeverAhead' /\ Stored(p)' /\ NwkNotified(p)'
    BY <1>1, <1>2, <1>3, Constants, NothingNotified DEF TypeOK, NeverAhead, Follows
  <1>5. /\ Acting' = Acting \ {c} /\ c \in Acting /\ Pushing' = Pushing /\ Looking' = Looking
        /\ c \notin Pushing
    BY <1>2, <1>3 DEF Acting, Pushing, Looking, Idle
  <1>6. Overtaken'
    BY <1>2, <1>3, <1>5 DEF Overtaken, Acting
  <1>7. Persisted(p)'
    BY <1>1, <1>2, <1>3 DEF Follows, Persisted
  <1>8. /\ lastPersisted <= caller[c].read /\ caller[c].read <= lastPersisted + (Interval - 1)
        /\ counter["aps"] <= caller[c].read + MaxOvertaken /\ caller[c].read \in Nat
    BY <1>2, <1>5, ReadTypes, Constants DEF Due, Overtaken
  <1>9. CASE \E d \in Callers : caller[d].at = "push" /\ caller[d].read = lastPersisted
    <2>1. PICK d \in Callers : caller[d].at = "push" /\ caller[d].read = lastPersisted
      BY <1>9
    <2>2. d # c /\ d \in Pushing' /\ d \in Acting' /\ caller'[d].read = lastPersisted
      BY <2>1, <1>2, <1>3 DEF Pushing, Acting
    <2>3. ActingSoon(p)'
      <3>1. PICK w \in Acting : caller[w].read <= p["aps"] + AtRest + Unseen
        BY <1>1, <1>5 DEF Follows, ActingSoon
      <3>2. CASE w = c
        <4>1. caller'[d].read <= p["aps"] + AtRest + Unseen
          BY <3>1, <3>2, <1>2, <1>8, <2>2, ReadTypes, Constants
        <4> QED BY <4>1, <2>2 DEF ActingSoon, AtRest, Unseen
      <3>3. CASE w # c
        <4>1. w \in Acting' /\ caller'[w].read = caller[w].read
          BY <3>3, <1>3, <1>5 DEF Acting
        <4> QED BY <4>1, <3>1 DEF ActingSoon, AtRest, Unseen
      <3> QED BY <3>2, <3>3
    <2>4. UnseenFew(p)'
      BY <2>2 DEF UnseenFew
    <2> QED BY <2>3, <2>4, <1>4, <1>6, <1>7 DEF CountersInv, Follows, Streams
  <1>10. CASE lastPersisted <= p["aps"] + MaxOvertaken
    <2>1. /\ caller[c].read <= p["aps"] + AtRest
          /\ counter["aps"] <= p["aps"] + AtRest + Unseen
      BY <1>8, <1>10, <1>2, ReadTypes, Constants
    <2>2. ActingSoon(p)'
      <3>1. \A d \in Acting' : d \in Callers /\ caller'[d].read <= counter["aps"] /\ caller'[d].read \in Nat
        BY <1>2, <1>3, <1>5, ReadTypes DEF Overtaken, Acting
      <3>2. \A d \in Acting' : caller'[d].read <= p["aps"] + AtRest + Unseen
        BY <3>1, <2>1, <1>2, ReadTypes, Constants
      <3> QED BY <3>2 DEF ActingSoon, AtRest, Unseen
    <2>3. UnseenFew(p)'
      <3>1. CASE Pushing # {}
        BY <3>1, <1>5 DEF UnseenFew
      <3>2. ASSUME NEW w \in Acting, counter["aps"] <= caller[w].read + silent + Cardinality(Looking)
            PROVE  UnseenFew(p)'
        <4>1. CASE w = c
          <5>1. counter'["aps"] <= p["aps"] + AtRest + silent' + Cardinality(Looking')
            BY <4>1, <3>2, <2>1, <1>2, <1>5, <1>8, ReadTypes, LookingFew, Constants
          <5> QED BY <5>1 DEF UnseenFew, AtRest
        <4>2. CASE w # c
          <5>1. w \in Acting' /\ caller'[w].read = caller[w].read
            BY <4>2, <1>3, <1>5 DEF Acting
          <5> QED BY <5>1, <3>2, <1>2, <1>5 DEF UnseenFew
        <4> QED BY <4>1, <4>2
      <3>3. CASE counter["aps"] <= p["aps"] + AtRest + silent + Cardinality(Looking)
        BY <3>3, <1>2, <1>5 DEF UnseenFew, AtRest
      <3> QED BY <3>1, <3>2, <3>3, <1>1 DEF Follows, UnseenFew
    <2> QED BY <2>2, <2>3, <1>4, <1>6, <1>7 DEF CountersInv, Follows, Streams
  <1> QED BY <1>9, <1>10, <1>1 DEF Follows, Persisted

LEMMA StoreLastStep ==
    ASSUME CountersInv, NEW c \in Callers, StoreLast(c) PROVE CountersInv'
  <1>1. PICK p \in [Streams -> Nat] : Follows(p)
    BY DEF CountersInv
  <1>2. /\ TypeOK /\ NeverAhead /\ Overtaken /\ caller[c].at = "store"
        /\ caller' = [caller EXCEPT ![c].at = "push"] /\ lastPersisted' = caller[c].read
        /\ UNCHANGED <<counter, queue, stored, air, unheard, silent>>
    BY DEF CountersInv, StoreLast
  <1>3. /\ caller' \in [Callers -> Caller]
        /\ \A d \in Callers : /\ caller'[d].read = caller[d].read
                               /\ caller'[d].at = IF d = c THEN "push" ELSE caller[d].at
    BY <1>2 DEF TypeOK, Caller
  <1>4. TypeOK' /\ NeverAhead' /\ Stored(p)' /\ NwkNotified(p)'
    BY <1>1, <1>2, <1>3, ReadTypes, NothingNotified DEF TypeOK, NeverAhead, Follows
  <1>5. Acting' = Acting /\ c \in Acting /\ c \in Pushing'
    BY <1>2, <1>3 DEF Acting, Pushing
  <1>6. Overtaken'
    BY <1>2, <1>3, <1>5 DEF Overtaken, Acting
  <1>7. Persisted(p)'
    BY <1>2, <1>3, <1>5 DEF Persisted, Overtaken
  <1>8. ActingSoon(p)'
    BY <1>1, <1>3, <1>5 DEF Follows, ActingSoon, Acting, AtRest, Unseen
  <1>9. UnseenFew(p)'
    BY <1>5 DEF UnseenFew
  <1> QED BY <1>4, <1>6, <1>7, <1>8, <1>9 DEF CountersInv, Follows, Streams

LEMMA PushUpdateStep ==
    ASSUME CountersInv, NEW c \in Callers, PushUpdate(c) PROVE CountersInv'
  <1>1. PICK p \in [Streams -> Nat] : Follows(p)
    BY DEF CountersInv
  <1>2. /\ TypeOK /\ NeverAhead /\ Overtaken /\ caller[c].at = "push"
        /\ Notify("aps", caller[c].read) /\ caller' = [caller EXCEPT ![c] = Idle]
        /\ UNCHANGED <<counter, lastPersisted, stored, air, silent>>
    BY DEF CountersInv, PushUpdate
  <1>3. /\ caller' \in [Callers -> Caller]
        /\ \A d \in Callers : caller'[d] = IF d = c THEN Idle ELSE caller[d]
    BY <1>2 DEF TypeOK, Caller, Idle
  <1>4. PICK r \in Nat : r = caller[c].read
    BY <1>2, ReadTypes
  <1>5. c \in Acting /\ r <= counter["aps"] /\ counter["aps"] <= r + MaxOvertaken
    BY <1>2, <1>4 DEF Acting, Overtaken
  <1>6. PICK q \in [Streams -> Nat] : q["aps"] = r /\ q["nwk"] = p["nwk"]
    <2>1. [p EXCEPT !["aps"] = r] \in [Streams -> Nat]
      OBVIOUS
    <2> QED BY <2>1 DEF Streams
  <1>7. /\ queue' = Pushed(Update("aps", r))
        /\ unheard' = [unheard EXCEPT !["aps"] = @ + 1] /\ unheard' \in [Streams -> Nat]
    <2>1. queue' = Pushed(Update("aps", r)) /\ unheard' = [unheard EXCEPT !["aps"] = @ + 1]
      BY <1>2, <1>4 DEF Notify
    <2>2. "aps" \in Streams /\ unheard \in [Streams -> Nat]
      BY <1>2 DEF TypeOK, Streams
    <2> QED BY <2>1, <2>2
  <1>8. /\ queue' \in Seq(Event)
        /\ \A j \in LastTold("aps")' : queue'[j].value = r
        /\ \A j \in LastTold("nwk")' : \E i \in LastTold("nwk") : queue'[j] = queue[i]
    BY <1>2, <1>7, PushedTold, EventTypes DEF Streams
  <1>9. TypeOK' /\ NeverAhead'
    BY <1>2, <1>3, <1>7, <1>8 DEF TypeOK, NeverAhead
  <1>10. Acting' \subseteq Acting /\ \A d \in Acting' : caller'[d] = caller[d]
    BY <1>3 DEF Acting, Idle
  <1>11. Overtaken'
    BY <1>2, <1>10 DEF Overtaken
  <1>12. Persisted(q)'
    BY <1>1, <1>2, <1>5, <1>6, ReadTypes, Constants DEF Follows, Persisted
  <1>13. ActingSoon(q)'
    <2>1. \A d \in Acting' : d \in Callers /\ caller'[d].read \in Nat /\ caller'[d].read <= counter["aps"]
      BY <1>2, <1>10, ReadTypes DEF Acting, Overtaken
    <2>2. \A d \in Acting' : caller'[d].read <= q["aps"] + AtRest + Unseen
      BY <2>1, <1>2, <1>5, <1>6, ReadTypes, Constants
    <2> QED BY <2>2 DEF ActingSoon, AtRest, Unseen
  <1>14. UnseenFew(q)'
    <2>1. Cardinality(Looking') \in Nat
      BY Constants, FS_Subset, FS_CardinalityType DEF Looking
    <2>2. counter'["aps"] <= q["aps"] + AtRest + silent' + Cardinality(Looking')
      BY <2>1, <1>2, <1>5, <1>6, ReadTypes, Constants
    <2> QED BY <2>2 DEF UnseenFew, AtRest
  <1>15. Stored(q)'
    <2>1. /\ stored'["nwk"] = stored["nwk"] /\ unheard'["nwk"] = unheard["nwk"]
          /\ stored'["aps"] = stored["aps"] /\ unheard'["aps"] = unheard["aps"] + 1
          /\ stored["aps"] \in Nat /\ unheard["aps"] \in Nat /\ unheard["aps"] + 1 \in Nat
      BY <1>2, <1>7 DEF TypeOK, Streams
    <2>2. r <= stored["aps"] + ApsLag * (unheard["aps"] + 1)
      <3>1. p["aps"] <= stored["aps"] + ApsLag * unheard["aps"] /\ counter["aps"] <= p["aps"] + ApsLag
        BY <1>1, <1>2, ApsAhead, Constants DEF Follows, Stored, Streams
      <3>2. ApsLag * (unheard["aps"] + 1) = ApsLag * unheard["aps"] + ApsLag /\ ApsLag * unheard["aps"] \in Nat
        BY <2>1, Constants, Distributes
      <3> QED BY <3>1, <3>2, <2>1, <1>2, <1>5, ReadTypes, Constants
    <2>3. /\ q["aps"] <= counter'["aps"] /\ q["aps"] <= stored'["aps"] + Lag["aps"] * unheard'["aps"]
          /\ \A i \in LastTold("aps")' : queue'[i].value = q["aps"]
      BY <2>1, <2>2, <1>2, <1>5, <1>6, <1>8, Constants
    <2>4. /\ q["nwk"] <= counter'["nwk"] /\ q["nwk"] <= stored'["nwk"] + Lag["nwk"] * unheard'["nwk"]
          /\ \A i \in LastTold("nwk")' : queue'[i].value = q["nwk"]
      BY <2>1, <1>1, <1>2, <1>6, <1>8 DEF Follows, Stored, Streams
    <2> QED BY <2>3, <2>4 DEF Stored, Lag, Streams
  <1>16. NwkNotified(q)'
    BY <1>1, <1>2, <1>6 DEF Follows, NwkNotified
  <1> QED BY <1>9, <1>11, <1>12, <1>13, <1>14, <1>15, <1>16 DEF CountersInv, Follows, Streams

-----------------------------------------------------------------------------
(* Restart *)

LEMMA RestartStep ==
    ASSUME CountersInv, Restart PROVE CountersInv'
  <1>1. PICK p \in [Streams -> Nat] : Follows(p)
    BY DEF CountersInv
  <1>2. /\ TypeOK /\ NeverAhead /\ Overtaken
        /\ \A s \in Streams : unheard[s] <= MaxUnheard[s]
        /\ counter' = Restored /\ stored' = [s \in Streams |-> stored[s] + Margin[s]]
        /\ lastPersisted' = 0 /\ queue' = << >> /\ caller' = [d \in Callers |-> Idle]
        /\ unheard' = [s \in Streams |-> 0] /\ silent' = 0 /\ air' = air
    BY DEF CountersInv, Restart
  <1>3. \A s \in Streams : /\ stored[s] \in Nat /\ Margin[s] \in Nat /\ counter[s] \in Nat
                            /\ air[s].last \in Nat /\ air[s].last <= counter[s]
    BY <1>2, CountersAssumption DEF TypeOK, NeverAhead, Streams
  <1>4. PICK q \in [Streams -> Nat] : \A s \in Streams : q[s] = stored[s] + Margin[s]
    <2>1. [s \in Streams |-> stored[s] + Margin[s]] \in [Streams -> Nat]
      BY <1>3
    <2> QED BY <2>1
  <1>5. \A s \in Streams : stored'[s] = q[s] /\ counter'[s] = q[s] /\ unheard'[s] = 0
    BY <1>2, <1>3, <1>4 DEF Restored, Larger
  <1>6. \A s \in Streams : counter[s] <= stored[s] + Margin[s]
    BY <1>1, <1>2, MarginCovers
  <1>7. NeverAhead'
    BY <1>2, <1>3, <1>4, <1>5, <1>6 DEF NeverAhead
  <1>8. TypeOK'
    <2>1. counter' \in [Streams -> Nat] /\ stored' \in [Streams -> Nat]
      BY <1>2, <1>3, <1>4, <1>5 DEF Restored
    <2> QED BY <2>1, <1>2, Constants DEF TypeOK, Idle, Caller
  <1>9. Acting' = {} /\ Overtaken'
    BY <1>2 DEF Acting, Overtaken, Idle
  <1>10. Stored(q)'
    <2>1. \A s \in Streams : LastTold(s)' = {} /\ Lag[s] * unheard'[s] = 0 /\ q[s] \in Nat
      BY <1>2, <1>5, NoneUnheard DEF LastTold
    <2>2. \A s \in Streams : q[s] <= counter'[s] /\ q[s] <= stored'[s] + Lag[s] * unheard'[s]
      BY <2>1, <1>5
    <2> QED BY <2>1, <2>2 DEF Stored, Lag
  <1>11. NwkNotified(q)'
    <2>1. q["nwk"] \in Nat /\ counter'["nwk"] = q["nwk"] /\ Interval \in Nat \ {0}
      BY <1>5, Constants DEF Streams
    <2>2. q["nwk"] % Interval \in 0 .. Interval - 1
      BY <2>1, Remainder
    <2>3. q["nwk"] - (q["nwk"] % Interval) <= q["nwk"]
      BY <2>1, <2>2
    <2> QED BY <2>1, <2>3 DEF NwkNotified
  <1>12. q["aps"] \in Nat /\ counter'["aps"] = q["aps"]
    BY <1>5 DEF Streams
  <1>13. Persisted(q)'
    BY <1>2, <1>12, Constants DEF Persisted
  <1>14. ActingSoon(q)'
    BY <1>9 DEF ActingSoon
  <1>15. UnseenFew(q)'
    <2>1. Cardinality(Looking') \in Nat
      BY Constants, FS_Subset, FS_CardinalityType DEF Looking
    <2>2. counter'["aps"] <= q["aps"] + AtRest + silent' + Cardinality(Looking')
      BY <2>1, <1>2, <1>12, Constants
    <2> QED BY <2>2 DEF UnseenFew, AtRest
  <1> QED BY <1>7, <1>8, <1>9, <1>10, <1>11, <1>13, <1>14, <1>15 DEF CountersInv, Follows, Streams

-----------------------------------------------------------------------------
(* The theorems *)

LEMMA StutterStep ==
    ASSUME CountersInv, UNCHANGED vars PROVE CountersInv'
  <1>1. PICK p \in [Streams -> Nat] : Follows(p)
    BY DEF CountersInv
  <1>2. /\ TypeOK /\ NeverAhead /\ Overtaken
        /\ UNCHANGED <<counter, lastPersisted, queue, caller, stored, air, unheard, silent>>
    BY DEF CountersInv, vars, stack
  <1>3. TypeOK' /\ NeverAhead' /\ Stored(p)' /\ NwkNotified(p)'
    BY <1>1, <1>2, NothingNotified DEF TypeOK, NeverAhead, Follows
  <1>4. Overtaken' /\ Persisted(p)' /\ ActingSoon(p)' /\ UnseenFew(p)'
    BY <1>1, <1>2, LinkUnchanged DEF Link, Follows
  <1> QED BY <1>3, <1>4 DEF CountersInv, Follows, Streams

LEMMA CountersStep == CountersInv /\ [Next]_vars => CountersInv'
  <1> SUFFICES ASSUME CountersInv, [Next]_vars PROVE CountersInv'
    OBVIOUS
  <1>1. CASE SecureNwk \/ SecureCommand \/ PushOther \/ Drain \/ ReadNetworkInfo \/ Restart
    BY <1>1, SecureNwkStep, SecureCommandStep, PushOtherStep, DrainStep, ReadNetworkInfoStep, RestartStep
  <1>2. ASSUME NEW c \in Callers, CallerStep(c) PROVE CountersInv'
    BY <1>2, SecureDataStep, ReadCounterStep, LoadDueStep, LoadNotDueStep, StoreLastStep, PushUpdateStep
    DEF CallerStep
  <1>3. CASE UNCHANGED vars
    BY <1>3, StutterStep
  <1> QED BY <1>1, <1>2, <1>3 DEF Next

LEMMA CountersInvariant == Spec => []CountersInv
  BY InitCounters, CountersStep, PTL DEF Spec

LEMMA LagOfInvariant == CountersInv => NwkLagBounded
  BY NwkLag DEF CountersInv, Follows, NwkLagBounded

\* For every interval, queue capacity and number of missed updates, the client's copy of the
\* network-key counter lags by at most the updates it has yet to store and one more interval,
\* whatever the queue dropped (should_persist, push_notification, next_notifications).
THEOREM LagIsBounded == Spec => []NwkLagBounded
  BY CountersInvariant, LagOfInvariant, PTL

LEMMA FreshInit == Init => Promise!Init
  BY DEF Init, Promise!Init, Streams

\* A step that secures a frame of stream s, as the devices see it.
LEMMA FreshAdvance ==
    ASSUME TypeOK, NeverAhead, NEW s \in Streams, Advance(s)
    PROVE  Promise!Next
  <1> DEFINE ether == [t \in Streams |-> [frames |-> air[t].frames, highest |-> air[t].last]]
  <1>1. /\ air' = [air EXCEPT ![s] = [frames |-> air[s].frames + 1, last |-> counter[s] + 1]]
        /\ air \in [Streams -> [frames : Nat, last : Nat]]
        /\ counter[s] \in Nat /\ air[s].last \in Nat /\ air[s].last <= counter[s]
    BY DEF Advance, TypeOK, NeverAhead
  <1>2. \A t \in Streams : air'[t] = IF t = s THEN [frames |-> air[s].frames + 1, last |-> counter[s] + 1]
                                     ELSE air[t]
    BY <1>1
  <1>3. counter[s] + 1 > air[s].last /\ air'[s].last = counter[s] + 1 /\ air'[s].frames = air[s].frames + 1
    BY <1>1, <1>2
  <1>4. ether'[s].highest > ether[s].highest
    BY <1>3
  <1>5. ether' = [ether EXCEPT ![s] = [frames |-> ether[s].frames + 1, highest |-> ether'[s].highest]]
    BY <1>1, <1>2, <1>3
  <1>6. Promise!Secure(s)
    BY <1>4, <1>5 DEF Promise!Secure
  <1> QED BY <1>6 DEF Promise!Next

LEMMA FreshStep ==
    CountersInv /\ [Next]_vars
      => [Promise!Next]_([s \in Streams |-> [frames |-> air[s].frames, highest |-> air[s].last]])
  <1> SUFFICES ASSUME CountersInv, [Next]_vars
               PROVE  \/ Promise!Next
                      \/ UNCHANGED [s \in Streams |-> [frames |-> air[s].frames, highest |-> air[s].last]]
    OBVIOUS
  <1>1. ASSUME UNCHANGED air
        PROVE  UNCHANGED [s \in Streams |-> [frames |-> air[s].frames, highest |-> air[s].last]]
    BY <1>1 DEF Streams
  <1>2. ASSUME NEW s \in Streams, Advance(s) PROVE Promise!Next
    BY <1>2, FreshAdvance DEF CountersInv
  <1>3. CASE SecureNwk
    BY <1>2, <1>3 DEF SecureNwk, Streams
  <1>4. CASE SecureCommand
    BY <1>2, <1>4 DEF SecureCommand, Streams
  <1>5. CASE PushOther \/ Drain \/ ReadNetworkInfo \/ Restart
    BY <1>1, <1>5 DEF PushOther, Drain, ReadNetworkInfo, Restart
  <1>6. ASSUME NEW c \in Callers, SecureData(c) PROVE Promise!Next
    BY <1>2, <1>6 DEF SecureData, Streams
  <1>7. ASSUME NEW c \in Callers, ReadCounter(c) \/ LoadLast(c) \/ StoreLast(c) \/ PushUpdate(c)
        PROVE  UNCHANGED air
    BY <1>7 DEF ReadCounter, LoadLast, StoreLast, PushUpdate
  <1>8. CASE UNCHANGED vars
    BY <1>1, <1>8 DEF vars
  <1> QED BY <1>1, <1>3, <1>4, <1>5, <1>6, <1>7, <1>8 DEF Next, CallerStep

\* For every margin that covers what the client can miss: through any number of restarts, at any
\* point between a caller's look and its update, no counter is used twice.
THEOREM CountersStayFresh == Spec => FreshAfterRestart
  <1>1. Spec => []CountersInv
    BY CountersInvariant
  <1> QED BY <1>1, FreshInit, FreshStep, PTL DEF Spec, FreshAfterRestart, Promise!Spec

=============================================================================
