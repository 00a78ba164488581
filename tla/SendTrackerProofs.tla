------------------------- MODULE SendTrackerProofs -------------------------
(* Theorems about SendTracker, for any number of requests, sends and frames. *)
EXTENDS SendTracker, SequenceTheorems, TLAPS

\* Every tracked send has the tracker's wake on its slot.
EntriesWatched == \A r \in DOMAIN entries : entries[r].send \in watched

LEMMA InitOK == Init => TypeOK /\ EntriesWatched /\ NoConfirmForgotten
  <1> SUFFICES ASSUME Init PROVE TypeOK /\ EntriesWatched /\ NoConfirmForgotten
    OBVIOUS
  <1>1. Sends = {} /\ DOMAIN entries = {}
    BY DEF Init, Sends
  <1>2. TrackerOK
    BY <1>1 DEF Init, TrackerOK, Stack!Init
  <1>3. FramesOK
    BY <1>1 DEF Init, FramesOK
  <1> QED BY <1>1, <1>2, <1>3 DEF TypeOK, EntriesWatched, NoConfirmForgotten

-----------------------------------------------------------------------------
(* Types *)

LEMMA IssueType ==
    ASSUME TypeOK, NEW r \in RequestIds, NEW kind \in Requested, Issue(r, kind)
    PROVE  TypeOK'
  <1>1. nextId \in Nat /\ Sends' = Sends \cup {nextId} /\ nextId \notin Sends
    BY DEF Issue, Sends, TypeOK, TrackerOK
  <1>2. slots' \in [Sends' -> [handedOff : Verdict, delivered : Verdict]]
    <2>1. Stack!Open \in [handedOff : Verdict, delivered : Verdict]
      BY DEF Stack!Open, Verdict, NotYet
    <2> QED BY <1>1, <2>1 DEF Issue, Stack!Admit, TypeOK, TrackerOK
  <1>3. issued' \in [Sends' -> [request : RequestIds, kind : Kinds,
                                at : {"admitted", "inserted", "tracked"}]]
    BY <1>1, TrackerAssumption DEF Issue, Put, TypeOK, TrackerOK
  <1>4. received' \in [Sends' -> Seq(ConfirmFrame)]
    <2>1. <<>> \in Seq(ConfirmFrame)
      OBVIOUS
    <2> QED BY <1>1, <2>1 DEF Issue, Put, TypeOK, FramesOK
  <1>5. entries' \in [DOMAIN entries' -> Entry']
    BY <1>1 DEF Issue, TypeOK, TrackerOK, Entry
  <1>6. TrackerOK'
    BY <1>1, <1>2, <1>3, <1>5 DEF Issue, TypeOK, TrackerOK
  <1>7. FramesOK'
    BY <1>1, <1>4 DEF Issue, TypeOK, FramesOK
  <1> QED BY <1>6, <1>7 DEF TypeOK

LEMMA HandlesType ==
    ASSUME TypeOK, NEW i \in Sends, Handles(i)
    PROVE  TypeOK'
  <1>1. Sends' = Sends
    BY DEF Handles, Insert, SelfNotify, Sends
  <1>2. FramesOK'
    BY <1>1 DEF Handles, Insert, SelfNotify, TypeOK, FramesOK
  <1>3. issued[i].request \in RequestIds /\ issued[i].kind \in Kinds
    BY DEF TypeOK, TrackerOK
  <1>4. issued' \in [Sends -> [request : RequestIds, kind : Kinds,
                               at : {"admitted", "inserted", "tracked"}]]
    BY DEF Handles, Insert, SelfNotify, TypeOK, TrackerOK
  <1>5. CASE Insert(i)
    <2>1. DOMAIN entries' = DOMAIN entries \cup {issued[i].request}
      BY <1>5 DEF Insert, Put
    <2>2. entries' \in [DOMAIN entries' -> Entry]
      BY <1>3, <1>5, <2>1 DEF Insert, Put, TypeOK, TrackerOK, Entry
    <2>3. TrackerOK'
      BY <1>1, <1>3, <1>4, <1>5, <2>1, <2>2 DEF Insert, TypeOK, TrackerOK, Entry
    <2> QED BY <1>2, <2>3 DEF TypeOK
  <1>6. CASE SelfNotify(i)
    BY <1>1, <1>2, <1>4, <1>6 DEF SelfNotify, TypeOK, TrackerOK, Entry
  <1> QED BY <1>5, <1>6 DEF Handles

\* The stack's writes, cancellations included.
LEMMA WritesType ==
    ASSUME TypeOK, NEW i \in Sends, NEW stage \in {"handedOff", "delivered"},
           slots' \in [Sends -> [handedOff : Verdict, delivered : Verdict]],
           Wrote(i, stage), cancelled' \subseteq Sends
    PROVE  TypeOK'
  <1>1. Sends' = Sends
    BY DEF Wrote, Sends
  <1>2. TrackerOK'
    BY <1>1 DEF Wrote, TypeOK, TrackerOK, Entry
  <1>3. FramesOK'
    BY <1>1 DEF Wrote, TypeOK, FramesOK
  <1> QED BY <1>2, <1>3 DEF TypeOK

LEMMA SettleType ==
    ASSUME TypeOK, NEW i \in Sends, NEW result \in Stack!Results, Stack!Settle(i, result)
    PROVE  slots' \in [Sends -> [handedOff : Verdict, delivered : Verdict]]
  <1>1. result \in Verdict
    BY DEF Verdict
  <1>2. slots[i] \in [handedOff : Verdict, delivered : Verdict]
    BY DEF TypeOK, TrackerOK
  <1>3. /\ slots'[i].handedOff \in Verdict /\ slots'[i].delivered \in Verdict
        /\ slots'[i] = [handedOff |-> slots'[i].handedOff, delivered |-> slots'[i].delivered]
    BY <1>1, <1>2 DEF Stack!Settle, TypeOK, TrackerOK
  <1> QED BY <1>3 DEF Stack!Settle, TypeOK, TrackerOK

LEMMA HandOffType ==
    ASSUME TypeOK, NEW i \in Sends, Stack!HandOff(i)
    PROVE  slots' \in [Sends -> [handedOff : Verdict, delivered : Verdict]]
  <1>1. "Ok" \in Verdict
    BY DEF Verdict, Stack!Results
  <1> QED BY <1>1 DEF Stack!HandOff, TypeOK, TrackerOK

LEMMA ResolvesType ==
    ASSUME TypeOK, NEW i \in Sends, Resolves(i)
    PROVE  TypeOK'
  <1>1. CASE HandsOff(i)
    BY <1>1, HandOffType, WritesType DEF HandsOff, TypeOK, TrackerOK
  <1>2. ASSUME NEW result \in Outcomes, Settles(i, result)
        PROVE  TypeOK'
    <2>1. result \in Stack!Results
      BY TrackerAssumption
    <2> QED BY <1>2, <2>1, SettleType, WritesType DEF Settles, TypeOK, TrackerOK
  <1> QED BY <1>1, <1>2 DEF Resolves

LEMMA CancelType ==
    ASSUME TypeOK, NEW r \in RequestIds, CancelRequest(r)
    PROVE  TypeOK'
  <1>1. entries[r].send \in Sends
    BY DEF CancelRequest, TypeOK, TrackerOK, Entry
  <1>2. "Cancelled" \in Stack!Results
    BY DEF Stack!Results, Stack!Failures
  <1> QED BY <1>1, <1>2, SettleType, WritesType DEF CancelRequest, TypeOK, TrackerOK

LEMMA NotifiesType ==
    ASSUME TypeOK, NEW n \in notifying, Notifies(n)
    PROVE  TypeOK'
  BY DEF Notifies, client, TypeOK, TrackerOK, FramesOK, Sends, Entry

-----------------------------------------------------------------------------
(* The reactor *)

\* What holds of the elements of two sequences holds of their concatenation's.
LEMMA ConcatKeeps ==
    ASSUME NEW S, NEW a \in Seq(S), NEW b \in Seq(S), NEW x,
           \A k \in 1 .. Len(a) : a[k].send = x, \A k \in 1 .. Len(b) : b[k].send = x
    PROVE  a \o b \in Seq(S) /\ \A k \in 1 .. Len(a \o b) : (a \o b)[k].send = x
  <1>1. a \o b \in Seq(S) /\ Len(a \o b) = Len(a) + Len(b)
    OBVIOUS
  <1>2. ASSUME NEW k \in 1 .. Len(a \o b)
        PROVE  (a \o b)[k].send = x
    <2>1. CASE k <= Len(a)
      BY <1>1, <1>2, <2>1
    <2>2. CASE k > Len(a)
      <3>1. (a \o b)[k] = b[k - Len(a)] /\ k - Len(a) \in 1 .. Len(b)
        BY <1>1, <1>2, <2>2
      <3> QED BY <3>1
    <2> QED BY <1>1, <1>2, <2>1, <2>2
  <1> QED BY <1>1, <1>2

\* One frame.
LEMMA Single ==
    ASSUME NEW S, NEW c \in S, NEW x, c.send = x
    PROVE  <<c>> \in Seq(S) /\ \A k \in 1 .. Len(<<c>>) : <<c>>[k].send = x
  OBVIOUS

\* A sweep owes confirms of the entry's own send, with a verdict.
LEMMA OwesType ==
    ASSUME TrackerOK, NEW e \in Entry
    PROVE  /\ Owes(e) \in Seq(ConfirmFrame)
           /\ \A k \in 1 .. Len(Owes(e)) : Owes(e)[k].send \in Sends /\ Owes(e)[k].send = e.send
  <1>1. slots[e.send] \in [handedOff : Verdict, delivered : Verdict] /\ e.send \in Nat /\ e.send \in Sends
    BY DEF TrackerOK, Entry, Sends
  <1>2. FinalFrame(e.kind) \in {"SendConfirm", "ApsAckConfirm", "BroadcastConfirm"}
    BY DEF Entry, Kinds, FinalFrame
  <1>3. HandoffFrames(e) = <<>> \/ \E c \in ConfirmFrame : c.send = e.send /\ HandoffFrames(e) = <<c>>
    BY <1>1 DEF HandoffFrames, Confirm, ConfirmFrame, Verdict
  <1>4. FinalFrames(e) = <<>> \/ \E c \in ConfirmFrame : c.send = e.send /\ FinalFrames(e) = <<c>>
    BY <1>1, <1>2 DEF FinalFrames, Confirm, ConfirmFrame, Verdict
  <1>5. /\ HandoffFrames(e) \in Seq(ConfirmFrame)
        /\ \A k \in 1 .. Len(HandoffFrames(e)) : HandoffFrames(e)[k].send = e.send
    <2>1. CASE HandoffFrames(e) = <<>>
      BY <2>1
    <2>2. ASSUME NEW c \in ConfirmFrame, c.send = e.send, HandoffFrames(e) = <<c>>
          PROVE  /\ HandoffFrames(e) \in Seq(ConfirmFrame)
                 /\ \A k \in 1 .. Len(HandoffFrames(e)) : HandoffFrames(e)[k].send = e.send
      <3>1. <<c>> \in Seq(ConfirmFrame) /\ \A k \in 1 .. Len(<<c>>) : <<c>>[k].send = e.send
        BY <2>2, Single
      <3> QED BY <2>2, <3>1
    <2> QED BY <1>3, <2>1, <2>2
  <1>6. /\ FinalFrames(e) \in Seq(ConfirmFrame)
        /\ \A k \in 1 .. Len(FinalFrames(e)) : FinalFrames(e)[k].send = e.send
    <2>1. CASE FinalFrames(e) = <<>>
      BY <2>1
    <2>2. ASSUME NEW c \in ConfirmFrame, c.send = e.send, FinalFrames(e) = <<c>>
          PROVE  /\ FinalFrames(e) \in Seq(ConfirmFrame)
                 /\ \A k \in 1 .. Len(FinalFrames(e)) : FinalFrames(e)[k].send = e.send
      <3>1. <<c>> \in Seq(ConfirmFrame) /\ \A k \in 1 .. Len(<<c>>) : <<c>>[k].send = e.send
        BY <2>2, Single
      <3> QED BY <2>2, <3>1
    <2> QED BY <1>4, <2>1, <2>2
  <1> QED BY <1>1, <1>5, <1>6, ConcatKeeps DEF Owes

LEMMA SweepType ==
    ASSUME TypeOK, Sweep
    PROVE  TypeOK'
  <1>1. Sends' = Sends
    BY DEF Sweep, client, Sends
  <1>2. \A r \in DOMAIN entries : entries[r] \in Entry
    BY DEF TypeOK, TrackerOK
  <1>3. entries' \in [DOMAIN entries' -> Entry]
    BY <1>2 DEF Sweep, Entry, SendConfirmedNow
  <1>4. TrackerOK'
    BY <1>1, <1>3 DEF Sweep, client, TypeOK, TrackerOK, Entry
  <1>5. \A r \in RequestIds : /\ outbox'[r] \in Seq(ConfirmFrame)
                             /\ \A k \in 1 .. Len(outbox'[r]) : outbox'[r][k].send \in Sends
    <2> TAKE r \in RequestIds
    <2>1. CASE r \in DOMAIN entries
      BY <1>2, <2>1, OwesType DEF Sweep, TypeOK
    <2>2. CASE r \notin DOMAIN entries
      <3>1. outbox'[r] = <<>>
        BY <2>2 DEF Sweep
      <3> QED BY <3>1
    <2> QED BY <2>1, <2>2
  <1>6. FramesOK'
    BY <1>1, <1>5 DEF Sweep, client, TypeOK, FramesOK
  <1> QED BY <1>4, <1>6 DEF TypeOK

LEMMA EmitType ==
    ASSUME TypeOK, NEW r \in RequestIds, Emit(r)
    PROVE  TypeOK'
  <1>1. Sends' = Sends
    BY DEF Emit, client, Sends
  <1>2. TrackerOK'
    BY <1>1 DEF Emit, client, TypeOK, TrackerOK, Entry
  <1> DEFINE q == outbox[r]
             room == IF Len(outbound) < Depth THEN outbound ELSE Tail(outbound)
  <1>3. q \in Seq(ConfirmFrame) /\ q # <<>> /\ outbound \in Seq(ConfirmFrame)
    BY DEF Emit, TypeOK, FramesOK
  <1>4. Len(outbound) >= Depth => outbound # <<>>
    BY <1>3, TrackerAssumption
  <1>5. /\ room \in Seq(ConfirmFrame)
        /\ \A k \in 1 .. Len(room) : room[k].send \in Sends
    BY <1>3, <1>4, TrackerAssumption DEF TypeOK, FramesOK
  <1>6. Head(q) \in ConfirmFrame /\ Head(q).send \in Sends
    BY <1>3 DEF TypeOK, FramesOK
  <1>7. Tail(q) \in Seq(ConfirmFrame) /\ \A k \in 1 .. Len(Tail(q)) : Tail(q)[k].send \in Sends
    BY <1>3 DEF TypeOK, FramesOK
  <1>8. outbound' = Append(room, Head(q)) /\ outbox' = [outbox EXCEPT ![r] = Tail(q)]
    BY DEF Emit, Pushed
  <1>9. /\ outbound' \in Seq(ConfirmFrame)
        /\ \A k \in 1 .. Len(outbound') : outbound'[k].send \in Sends
    BY <1>5, <1>6, <1>8
  <1>10. /\ outbox' \in [RequestIds -> Seq(ConfirmFrame)]
         /\ \A s \in RequestIds : \A k \in 1 .. Len(outbox'[s]) : outbox'[s][k].send \in Sends
    BY <1>7, <1>8 DEF TypeOK, FramesOK
  <1>11. received' = received
    BY DEF Emit, client
  <1>12. FramesOK'
    BY <1>1, <1>9, <1>10, <1>11 DEF TypeOK, FramesOK
  <1> QED BY <1>2, <1>12 DEF TypeOK

LEMMA DeliversType ==
    ASSUME TypeOK, Delivers
    PROVE  TypeOK'
  <1>1. Sends' = Sends
    BY DEF Delivers, Sends
  <1>2. TrackerOK'
    BY <1>1 DEF Delivers, TypeOK, TrackerOK, Entry
  <1>3. outbound \in Seq(ConfirmFrame) /\ outbound # <<>>
    BY DEF Delivers, TypeOK, FramesOK
  <1>4. Head(outbound) \in ConfirmFrame /\ Head(outbound).send \in Sends
    BY <1>3 DEF TypeOK, FramesOK
  <1>5. /\ Tail(outbound) \in Seq(ConfirmFrame)
        /\ \A k \in 1 .. Len(Tail(outbound)) : Tail(outbound)[k].send \in Sends
    BY <1>3 DEF TypeOK, FramesOK
  <1>6. received' \in [Sends -> Seq(ConfirmFrame)]
    BY <1>4 DEF Delivers, TypeOK, FramesOK
  <1>7. FramesOK'
    BY <1>1, <1>5, <1>6 DEF Delivers, TypeOK, FramesOK
  <1> QED BY <1>2, <1>7 DEF TypeOK

LEMMA RestType ==
    ASSUME TypeOK, Wakes \/ Rests
    PROVE  TypeOK'
  BY DEF Wakes, Rests, client, TypeOK, TrackerOK, FramesOK, Sends, Entry

LEMMA TypeStep == TypeOK /\ [Next]_vars => TypeOK'
  <1> SUFFICES ASSUME TypeOK, [Next]_vars PROVE TypeOK'
    OBVIOUS
  <1>1. CASE UNCHANGED vars
    BY <1>1 DEF vars, TypeOK, TrackerOK, FramesOK, Sends, Entry
  <1>2. CASE Reacts
    BY <1>2, SweepType, EmitType, RestType DEF Reacts
  <1> QED
    BY <1>1, <1>2, IssueType, HandlesType, ResolvesType, NotifiesType, CancelType, DeliversType
       DEF Next

-----------------------------------------------------------------------------
(* No wake is lost *)

\* What sweep does to an entry leaves it owing nothing.
LEMMA SweptOwesNothing ==
    ASSUME NEW e \in Entry, ~Done(e)
    PROVE  Owes([e EXCEPT !.sendConfirmed = SendConfirmedNow(e)]) = <<>>
  <1> DEFINE f == [e EXCEPT !.sendConfirmed = SendConfirmedNow(e)]
  <1>1. f.send = e.send /\ f.kind = e.kind /\ f.sendConfirmed = SendConfirmedNow(e)
    BY DEF Entry
  <1>2. FinalFrames(e) = <<>> /\ ~FailedNow(e)
    BY DEF Done
  <1>3. HandoffFrames(f) = <<>>
    BY <1>1 DEF HandoffFrames, SendConfirmedNow
  <1>4. SendConfirmedNow(f) = SendConfirmedNow(e) /\ ~FailedNow(f)
    BY <1>1, <1>3 DEF SendConfirmedNow, FailedNow
  <1>5. FinalFrames(f) = <<>>
    BY <1>1, <1>2, <1>4 DEF FinalFrames
  <1> QED BY <1>3, <1>5 DEF Owes

LEMMA WakeByIssue ==
    ASSUME TypeOK, EntriesWatched, NoConfirmForgotten,
           NEW r \in RequestIds, NEW kind \in Requested, Issue(r, kind)
    PROVE  EntriesWatched' /\ NoConfirmForgotten'
  <1>1. nextId \in Nat /\ Sends' = Sends \cup {nextId} /\ nextId \notin Sends
    BY DEF Issue, Sends, TypeOK, TrackerOK
  <1>2. \A i \in Sends : issued'[i] = issued[i] /\ slots'[i] = slots[i]
    BY <1>1 DEF Issue, Put, Stack!Admit, TypeOK, TrackerOK
  <1>3. \A s \in DOMAIN entries : entries[s].send \in Sends
    BY DEF TypeOK, TrackerOK, Entry
  <1>4. entries' = entries /\ watched' = watched
    BY DEF Issue
  <1>5. \A s \in DOMAIN entries : Owes(entries[s])' = Owes(entries[s])
    BY <1>2, <1>3, <1>4 DEF Owes, HandoffFrames, FinalFrames, FailedNow, SendConfirmedNow
  <1> QED BY <1>1, <1>2, <1>4, <1>5 DEF Issue, EntriesWatched, NoConfirmForgotten

\* A verdict written to a watched slot leaves its writer to notify.
LEMMA WakeByWrite ==
    ASSUME TypeOK, EntriesWatched, NoConfirmForgotten,
           NEW i \in Sends, NEW stage, Wrote(i, stage),
           \A j \in Sends \ {i} : slots'[j] = slots[j]
    PROVE  EntriesWatched' /\ NoConfirmForgotten'
  <1>1. EntriesWatched' /\ Sends' = Sends
    BY DEF Wrote, EntriesWatched, Sends
  <1>2. CASE i \in watched
    BY <1>1, <1>2 DEF Wrote, NoConfirmForgotten
  <1>3. CASE i \notin watched
    <2>1. \A s \in DOMAIN entries : entries[s].send \in Sends \ {i}
      BY <1>3 DEF EntriesWatched, TypeOK, TrackerOK, Entry
    <2>2. entries' = entries
      BY DEF Wrote
    <2>3. \A s \in DOMAIN entries : Owes(entries[s])' = Owes(entries[s])
      BY <2>1, <2>2 DEF Owes, HandoffFrames, FinalFrames, FailedNow, SendConfirmedNow
    <2> QED BY <1>1, <1>3, <2>2, <2>3 DEF Wrote, NoConfirmForgotten
  <1> QED BY <1>2, <1>3

\* After a sweep no entry owes a frame.
LEMMA WakeBySweep ==
    ASSUME TypeOK, EntriesWatched, Sweep
    PROVE  EntriesWatched' /\ NoConfirmForgotten'
  <1>1. slots' = slots /\ watched' = watched
    BY DEF Sweep
  <1>2. ASSUME NEW s \in DOMAIN entries'
        PROVE  entries'[s].send \in watched' /\ (Owes(entries[s]))' = <<>>
    <2> DEFINE f == [entries[s] EXCEPT !.sendConfirmed = SendConfirmedNow(entries[s])]
    <2>1. s \in DOMAIN entries /\ ~Done(entries[s]) /\ entries[s] \in Entry /\ entries'[s] = f
      BY <1>2 DEF Sweep, TypeOK, TrackerOK
    <2>2. f.send = entries[s].send
      BY <2>1 DEF Entry
    <2>3. Owes(f) = <<>>
      BY <2>1, SweptOwesNothing
    <2> HIDE DEF f
    <2>4. (Owes(entries[s]))' = Owes(f)
      BY <1>1, <2>1 DEF Owes, HandoffFrames, FinalFrames, FailedNow, SendConfirmedNow
    <2> QED BY <1>1, <2>1, <2>2, <2>3, <2>4 DEF EntriesWatched
  <1> QED BY <1>2 DEF EntriesWatched, NoConfirmForgotten

\* The steps that leave the slots and the table alone, or bring a wake.
LEMMA WakeByOthers ==
    ASSUME TypeOK, EntriesWatched, NoConfirmForgotten,
           \/ \E i \in Sends : Handles(i)
           \/ \E n \in notifying : Notifies(n)
           \/ Wakes \/ Rests \/ Delivers
           \/ \E r \in RequestIds : Emit(r)
           \/ UNCHANGED vars
    PROVE  EntriesWatched' /\ NoConfirmForgotten'
  <1>1. ASSUME NEW i \in Sends, Insert(i)
        PROVE  EntriesWatched' /\ NoConfirmForgotten'
    <2>1. i \in Sends' /\ issued'[i].at = "inserted"
      BY <1>1 DEF Insert, Sends, TypeOK, TrackerOK
    <2>2. EntriesWatched'
      BY <1>1 DEF Insert, Put, EntriesWatched
    <2> QED BY <2>1, <2>2 DEF NoConfirmForgotten
  <1>2. ASSUME NEW i \in Sends, SelfNotify(i)
        PROVE  EntriesWatched' /\ NoConfirmForgotten'
    BY <1>2 DEF SelfNotify, EntriesWatched, NoConfirmForgotten
  <1>3. ASSUME NEW n \in notifying, Notifies(n)
        PROVE  EntriesWatched' /\ NoConfirmForgotten'
    BY <1>3 DEF Notifies, EntriesWatched, NoConfirmForgotten
  <1>4. CASE Wakes
    BY <1>4 DEF Wakes, EntriesWatched, NoConfirmForgotten
  <1>5. CASE Rests \/ Delivers \/ (\E r \in RequestIds : Emit(r)) \/ UNCHANGED vars
    <2>1. UNCHANGED <<slots, nextId, issued, watched, notifying, entries, permit>>
      BY <1>5 DEF Rests, Delivers, Emit, client, vars
    <2>2. (sweeper' = "woken") <=> (sweeper = "woken")
      BY <1>5 DEF Rests, Delivers, Emit, vars
    <2>3. \A s \in DOMAIN entries : Owes(entries[s])' = Owes(entries[s])
      BY <2>1 DEF Owes, HandoffFrames, FinalFrames, FailedNow, SendConfirmedNow
    <2> QED BY <2>1, <2>2, <2>3 DEF EntriesWatched, NoConfirmForgotten, Sends
  <1> QED BY <1>1, <1>2, <1>3, <1>4, <1>5 DEF Handles

LEMMA WakeStep ==
    TypeOK /\ EntriesWatched /\ NoConfirmForgotten /\ [Next]_vars
      => EntriesWatched' /\ NoConfirmForgotten'
  <1> SUFFICES ASSUME TypeOK, EntriesWatched, NoConfirmForgotten, [Next]_vars
               PROVE  EntriesWatched' /\ NoConfirmForgotten'
    OBVIOUS
  <1>1. ASSUME NEW i \in Sends, Resolves(i)
        PROVE  EntriesWatched' /\ NoConfirmForgotten'
    <2>1. CASE HandsOff(i)
      BY <2>1, WakeByWrite DEF HandsOff, Stack!HandOff, TypeOK, TrackerOK
    <2>2. ASSUME NEW result \in Outcomes, Settles(i, result)
          PROVE  EntriesWatched' /\ NoConfirmForgotten'
      BY <2>2, WakeByWrite DEF Settles, Stack!Settle, TypeOK, TrackerOK
    <2> QED BY <1>1, <2>1, <2>2 DEF Resolves
  <1>2. ASSUME NEW r \in RequestIds, CancelRequest(r)
        PROVE  EntriesWatched' /\ NoConfirmForgotten'
    <2>1. entries[r].send \in Sends
      BY <1>2 DEF CancelRequest, TypeOK, TrackerOK, Entry
    <2> QED BY <1>2, <2>1, WakeByWrite DEF CancelRequest, Stack!Settle, TypeOK, TrackerOK
  <1>3. CASE Reacts
    BY <1>3, WakeBySweep, WakeByOthers DEF Reacts
  <1> QED BY <1>1, <1>2, <1>3, WakeByIssue, WakeByOthers DEF Next

-----------------------------------------------------------------------------
(* The transcript of a send *)

\* The frames Q are the frames P with one frame put in after the first m; one of a send
\* other than i.
Inserts(P, Q, m) ==
    /\ m \in 0 .. Len(P) /\ Len(Q) = Len(P) + 1
    /\ \A p \in 1 .. m : Q[p] = P[p]
    /\ \A p \in m + 1 .. Len(P) : Q[p + 1] = P[p]
Skips(P, Q, m, i) == Inserts(P, Q, m) /\ Q[m + 1].send # i

\* Every frame of s is a confirm of send i.
AllOf(i, s) == \A k \in DOMAIN s : s[k].send = i

\* A frame that is dropped leaves the others in order.
LEMMA DropKeepsOrder ==
    ASSUME NEW S, NEW P \in Seq(S), NEW Q \in Seq(S), NEW m, NEW i, NEW s,
           Inserts(P, Q, m), Draws(Q, i, s)
    PROVE  Draws(P, i, s)
  <1> DEFINE Up(p) == IF p <= m THEN p ELSE p + 1
  <1>1. /\ m \in Nat /\ m <= Len(P) /\ Len(Q) = Len(P) + 1 /\ Len(P) \in Nat
        /\ DOMAIN P = 1 .. Len(P) /\ DOMAIN Q = 1 .. Len(Q)
    BY DEF Inserts
  <1>2. \A p \in DOMAIN P : Up(p) \in DOMAIN Q /\ Q[Up(p)] = P[p]
    BY <1>1 DEF Inserts
  <1>3. \A p1, p2 \in DOMAIN P : p1 < p2 => Up(p1) < Up(p2)
    BY <1>1
  <1> HIDE DEF Up
  <1>4. ASSUME NEW p \in DOMAIN P, P[p].send = i
        PROVE  \E k \in DOMAIN s : P[p] = s[k]
    BY <1>2, <1>4 DEF Draws
  <1>5. ASSUME NEW p1 \in DOMAIN P, NEW p2 \in DOMAIN P, NEW k1 \in DOMAIN s, NEW k2 \in DOMAIN s,
               P[p1] = s[k1], P[p2] = s[k2], p1 < p2
        PROVE  k1 < k2
    <2>1. /\ Up(p1) \in DOMAIN Q /\ Up(p2) \in DOMAIN Q /\ Up(p1) < Up(p2)
          /\ Q[Up(p1)] = s[k1] /\ Q[Up(p2)] = s[k2]
      BY <1>2, <1>3, <1>5
    <2> QED BY <2>1 DEF Draws
  <1> QED BY <1>4, <1>5 DEF Draws

\* Frames of other sends, wherever they are, do not matter to a transcript.
LEMMA SkipsTranscript ==
    ASSUME NEW S, NEW P \in Seq(S), NEW Q \in Seq(S), NEW m, NEW i, NEW s,
           Skips(P, Q, m, i), AllOf(i, s)
    PROVE  (Draws(P, i, s) <=> Draws(Q, i, s)) /\ (Lists(P, i, s) <=> Lists(Q, i, s))
  <1> DEFINE Up(p) == IF p <= m THEN p ELSE p + 1
             Down(q) == IF q <= m THEN q ELSE q - 1
  <1>1. /\ m \in Nat /\ m <= Len(P) /\ Len(Q) = Len(P) + 1 /\ Len(P) \in Nat
        /\ DOMAIN P = 1 .. Len(P) /\ DOMAIN Q = 1 .. Len(Q)
    BY DEF Skips, Inserts
  <1>2. \A p \in DOMAIN P : Up(p) \in DOMAIN Q /\ Q[Up(p)] = P[p]
    BY <1>1 DEF Skips, Inserts
  <1>3. \A q \in DOMAIN Q \ {m + 1} : Down(q) \in DOMAIN P /\ P[Down(q)] = Q[q]
    <2> TAKE q \in DOMAIN Q \ {m + 1}
    <2>1. CASE q <= m
      BY <1>1, <2>1 DEF Skips, Inserts
    <2>2. CASE ~(q <= m)
      <3>1. q - 1 \in m + 1 .. Len(P) /\ (q - 1) + 1 = q /\ q - 1 \in DOMAIN P
        BY <1>1, <2>2
      <3> QED BY <2>2, <3>1 DEF Skips, Inserts
    <2> QED BY <2>1, <2>2
  <1>4. \A p1, p2 \in DOMAIN P : p1 < p2 => Up(p1) < Up(p2)
    BY <1>1
  <1>5. \A q1, q2 \in DOMAIN Q \ {m + 1} : q1 < q2 => Down(q1) < Down(q2)
    BY <1>1
  <1>6. Q[m + 1].send # i /\ \A k \in DOMAIN s : Q[m + 1] # s[k]
    BY DEF Skips, AllOf
  <1> HIDE DEF Up, Down
  <1>7. Draws(P, i, s) => Draws(Q, i, s)
    <2> SUFFICES ASSUME Draws(P, i, s) PROVE Draws(Q, i, s)
      OBVIOUS
    <2>1. ASSUME NEW q \in DOMAIN Q, Q[q].send = i
          PROVE  \E k \in DOMAIN s : Q[q] = s[k]
      BY <1>3, <1>6, <2>1 DEF Draws
    <2>2. ASSUME NEW q1 \in DOMAIN Q, NEW q2 \in DOMAIN Q, NEW k1 \in DOMAIN s, NEW k2 \in DOMAIN s,
                 Q[q1] = s[k1], Q[q2] = s[k2], q1 < q2
          PROVE  k1 < k2
      <3>1. q1 # m + 1 /\ q2 # m + 1
        BY <1>6, <2>2
      <3>2. /\ Down(q1) \in DOMAIN P /\ Down(q2) \in DOMAIN P /\ Down(q1) < Down(q2)
            /\ P[Down(q1)] = s[k1] /\ P[Down(q2)] = s[k2]
        BY <1>3, <1>5, <2>2, <3>1
      <3> QED BY <3>2 DEF Draws
    <2> QED BY <2>1, <2>2 DEF Draws
  <1>8. Draws(Q, i, s) => Draws(P, i, s)
    BY DropKeepsOrder DEF Skips
  <1>9. (\A k \in DOMAIN s : \E p \in DOMAIN P : P[p] = s[k])
        <=> (\A k \in DOMAIN s : \E p \in DOMAIN Q : Q[p] = s[k])
    BY <1>2, <1>3, <1>6
  <1> QED BY <1>7, <1>8, <1>9 DEF Lists

\* The next confirm extends a transcript.
LEMMA NextConfirm ==
    ASSUME NEW S, NEW P \in Seq(S), NEW s \in Seq(S), NEW c \in S, NEW i, c.send = i,
           \A k \in DOMAIN s : s[k] # c
    PROVE  /\ Draws(P, i, s) => Draws(Append(P, c), i, Append(s, c))
           /\ Lists(P, i, s) => Lists(Append(P, c), i, Append(s, c))
  <1> DEFINE Q == Append(P, c)
             t == Append(s, c)
  <1>1. /\ Len(P) \in Nat /\ DOMAIN P = 1 .. Len(P) /\ DOMAIN Q = 1 .. Len(P) + 1
        /\ Q[Len(P) + 1] = c /\ \A p \in DOMAIN P : p \in DOMAIN Q /\ Q[p] = P[p]
    OBVIOUS
  <1>2. /\ Len(s) \in Nat /\ DOMAIN s = 1 .. Len(s) /\ DOMAIN t = 1 .. Len(s) + 1
        /\ t[Len(s) + 1] = c /\ \A k \in DOMAIN s : k \in DOMAIN t /\ t[k] = s[k]
    OBVIOUS
  <1> HIDE DEF Q, t
  <1>3. Draws(P, i, s) => Draws(Q, i, t)
    <2> SUFFICES ASSUME Draws(P, i, s) PROVE Draws(Q, i, t)
      OBVIOUS
    <2>1. \A q \in DOMAIN Q : q # Len(P) + 1 => q \in DOMAIN P /\ Q[q] # c
      <3> SUFFICES ASSUME NEW q \in DOMAIN Q, q # Len(P) + 1 PROVE q \in DOMAIN P /\ Q[q] # c
        OBVIOUS
      <3>1. q \in DOMAIN P /\ Q[q] = P[q]
        BY <1>1
      <3> QED BY <3>1 DEF Draws
    <2>2. ASSUME NEW q \in DOMAIN Q, Q[q].send = i
          PROVE  \E k \in DOMAIN t : Q[q] = t[k]
      <3>1. CASE q = Len(P) + 1
        <4>1. Len(s) + 1 \in DOMAIN t
          BY <1>2
        <4> QED BY <1>1, <1>2, <3>1, <4>1
      <3>2. CASE q # Len(P) + 1
        <4>1. q \in DOMAIN P /\ P[q] = Q[q]
          BY <1>1, <2>1, <3>2
        <4>2. PICK k \in DOMAIN s : P[q] = s[k]
          BY <2>2, <4>1 DEF Draws
        <4> QED BY <1>2, <4>1, <4>2
      <3> QED BY <3>1, <3>2
    <2>3. ASSUME NEW q1 \in DOMAIN Q, NEW q2 \in DOMAIN Q, NEW k1 \in DOMAIN t, NEW k2 \in DOMAIN t,
                 Q[q1] = t[k1], Q[q2] = t[k2], q1 < q2
          PROVE  k1 < k2
      <3>1. q1 \in DOMAIN P /\ Q[q1] # c /\ Q[q1] = P[q1]
        BY <1>1, <2>1, <2>3
      <3>2. k1 \in DOMAIN s /\ P[q1] = s[k1]
        <4>1. t[k1] # c
          BY <2>3, <3>1
        <4>2. k1 # Len(s) + 1
          BY <1>2, <4>1
        <4>3. k1 \in DOMAIN s /\ t[k1] = s[k1]
          BY <1>2, <4>2
        <4> QED BY <2>3, <3>1, <4>3
      <3>3. CASE k2 = Len(s) + 1
        BY <1>2, <3>2, <3>3
      <3>4. CASE k2 # Len(s) + 1
        <4>1. k2 \in DOMAIN s /\ t[k2] = s[k2] /\ s[k2] # c
          BY <1>2, <3>4
        <4>2. q2 \in DOMAIN P /\ P[q2] = s[k2]
          BY <1>1, <2>1, <2>3, <4>1
        <4> QED BY <2>3, <3>1, <3>2, <4>1, <4>2 DEF Draws
      <3> QED BY <3>3, <3>4
    <2> QED BY <2>2, <2>3 DEF Draws
  <1>4. (\A k \in DOMAIN s : \E p \in DOMAIN P : P[p] = s[k])
        => (\A k \in DOMAIN t : \E p \in DOMAIN Q : Q[p] = t[k])
    <2> SUFFICES ASSUME \A k \in DOMAIN s : \E p \in DOMAIN P : P[p] = s[k], NEW k \in DOMAIN t
                 PROVE  \E p \in DOMAIN Q : Q[p] = t[k]
      OBVIOUS
    <2>1. CASE k = Len(s) + 1
      <3>1. Len(P) + 1 \in DOMAIN Q
        BY <1>1
      <3> QED BY <1>1, <1>2, <2>1, <3>1
    <2>2. CASE k # Len(s) + 1
      <3>1. k \in DOMAIN s /\ t[k] = s[k]
        BY <1>2, <2>2
      <3> QED BY <1>1, <3>1
    <2> QED BY <2>1, <2>2
  <1> QED BY <1>3, <1>4 DEF Lists, Q, t

\* Where the frames of three queues in a row are.
LEMMA Concat3 ==
    ASSUME NEW S, NEW a \in Seq(S), NEW b \in Seq(S), NEW c \in Seq(S)
    PROVE  /\ a \o b \o c \in Seq(S)
           /\ Len(a \o b \o c) = Len(a) + Len(b) + Len(c)
           /\ \A p \in 1 .. Len(a) : (a \o b \o c)[p] = a[p]
           /\ \A p \in Len(a) + 1 .. Len(a) + Len(b) : (a \o b \o c)[p] = b[p - Len(a)]
           /\ \A p \in Len(a) + Len(b) + 1 .. Len(a) + Len(b) + Len(c) :
                 (a \o b \o c)[p] = c[p - Len(a) - Len(b)]
  <1>1. /\ a \o b \in Seq(S) /\ Len(a \o b) = Len(a) + Len(b)
        /\ Len(a) \in Nat /\ Len(b) \in Nat /\ Len(c) \in Nat
    OBVIOUS
  <1>2. \A p \in 1 .. Len(a) : (a \o b)[p] = a[p]
    OBVIOUS
  <1>3. \A p \in Len(a) + 1 .. Len(a) + Len(b) : (a \o b)[p] = b[p - Len(a)]
    OBVIOUS
  <1>4. PICK d \in Seq(S) : d = a \o b
    BY <1>1
  <1>5. /\ d \o c \in Seq(S) /\ Len(d \o c) = Len(d) + Len(c)
        /\ \A p \in 1 .. Len(d) : (d \o c)[p] = d[p]
        /\ \A p \in Len(d) + 1 .. Len(d) + Len(c) : (d \o c)[p] = c[p - Len(d)]
    OBVIOUS
  <1>6. \A p \in 1 .. Len(a) : (d \o c)[p] = a[p]
    BY <1>1, <1>2, <1>4, <1>5
  <1>7. \A p \in Len(a) + 1 .. Len(a) + Len(b) : (d \o c)[p] = b[p - Len(a)]
    BY <1>1, <1>3, <1>4, <1>5
  <1>8. \A p \in Len(a) + Len(b) + 1 .. Len(a) + Len(b) + Len(c) :
           (d \o c)[p] = c[p - Len(a) - Len(b)]
    BY <1>1, <1>4, <1>5
  <1> QED BY <1>1, <1>4, <1>5, <1>6, <1>7, <1>8

\* The writer takes a frame, of another send perhaps.
LEMMA DeliverySkips ==
    ASSUME NEW S, NEW a \in Seq(S), NEW b \in Seq(S), NEW c \in Seq(S), NEW i,
           b # <<>>
    PROVE  /\ Inserts(a \o Tail(b) \o c, a \o b \o c, Len(a))
           /\ Head(b).send # i => Skips(a \o Tail(b) \o c, a \o b \o c, Len(a), i)
  <1>1. /\ Tail(b) \in Seq(S) /\ Len(Tail(b)) = Len(b) - 1 /\ Len(b) \in Nat \ {0}
        /\ Len(a) \in Nat /\ Len(c) \in Nat /\ b[1] = Head(b)
        /\ \A k \in 1 .. Len(b) - 1 : Tail(b)[k] = b[k + 1]
    OBVIOUS
  <1> DEFINE P == a \o Tail(b) \o c
             Q == a \o b \o c
  <1>2. /\ Len(P) = Len(a) + (Len(b) - 1) + Len(c)
        /\ \A p \in 1 .. Len(a) : P[p] = a[p]
        /\ \A p \in Len(a) + 1 .. Len(a) + (Len(b) - 1) : P[p] = Tail(b)[p - Len(a)]
        /\ \A p \in Len(a) + (Len(b) - 1) + 1 .. Len(a) + (Len(b) - 1) + Len(c) :
              P[p] = c[p - Len(a) - (Len(b) - 1)]
    BY <1>1, Concat3
  <1>3. /\ Len(Q) = Len(a) + Len(b) + Len(c)
        /\ \A p \in 1 .. Len(a) : Q[p] = a[p]
        /\ \A p \in Len(a) + 1 .. Len(a) + Len(b) : Q[p] = b[p - Len(a)]
        /\ \A p \in Len(a) + Len(b) + 1 .. Len(a) + Len(b) + Len(c) : Q[p] = c[p - Len(a) - Len(b)]
    BY <1>1, Concat3
  <1> HIDE DEF P, Q
  <1>4. Q[Len(a) + 1] = b[1]
    <2>1. Len(a) + 1 \in Len(a) + 1 .. Len(a) + Len(b) /\ Len(a) + 1 - Len(a) = 1
      BY <1>1
    <2> QED BY <1>3, <2>1
  <1>5. ASSUME NEW p \in Len(a) + 1 .. Len(P) PROVE Q[p + 1] = P[p]
    <2>1. CASE p <= Len(a) + (Len(b) - 1)
      <3>1. P[p] = b[(p - Len(a)) + 1]
        BY <1>1, <1>2, <1>5, <2>1
      <3>2. Q[p + 1] = b[(p + 1) - Len(a)]
        BY <1>1, <1>3, <1>5, <2>1
      <3> QED BY <1>1, <1>5, <3>1, <3>2
    <2>2. CASE p > Len(a) + (Len(b) - 1)
      <3>1. P[p] = c[p - Len(a) - (Len(b) - 1)]
        BY <1>1, <1>2, <1>5, <2>2
      <3>2. Q[p + 1] = c[(p + 1) - Len(a) - Len(b)]
        BY <1>1, <1>2, <1>3, <1>5, <2>2
      <3> QED BY <1>1, <1>5, <3>1, <3>2
    <2> QED BY <1>1, <1>2, <1>5, <2>1, <2>2
  <1>6. Inserts(P, Q, Len(a)) /\ (Head(b).send # i => Skips(P, Q, Len(a), i))
    BY <1>1, <1>2, <1>3, <1>4, <1>5 DEF Inserts, Skips
  <1> QED BY <1>6 DEF P, Q

\* The reactor queues a frame of another send.
LEMMA EmissionSkips ==
    ASSUME NEW S, NEW a \in Seq(S), NEW b \in Seq(S), NEW c \in Seq(S), NEW f \in S, NEW i,
           f.send # i
    PROVE  Skips(a \o b \o c, a \o Append(b, f) \o c, Len(a) + Len(b), i)
  <1>1. /\ Append(b, f) \in Seq(S) /\ Len(Append(b, f)) = Len(b) + 1 /\ Len(b) \in Nat
        /\ Len(a) \in Nat /\ Len(c) \in Nat
        /\ \A k \in 1 .. Len(b) : Append(b, f)[k] = b[k]
        /\ Append(b, f)[Len(b) + 1] = f
    OBVIOUS
  <1> DEFINE P == a \o b \o c
             Q == a \o Append(b, f) \o c
  <1>2. /\ Len(P) = Len(a) + Len(b) + Len(c)
        /\ \A p \in 1 .. Len(a) : P[p] = a[p]
        /\ \A p \in Len(a) + 1 .. Len(a) + Len(b) : P[p] = b[p - Len(a)]
        /\ \A p \in Len(a) + Len(b) + 1 .. Len(a) + Len(b) + Len(c) : P[p] = c[p - Len(a) - Len(b)]
    BY <1>1, Concat3
  <1>3. /\ Len(Q) = Len(a) + (Len(b) + 1) + Len(c)
        /\ \A p \in 1 .. Len(a) : Q[p] = a[p]
        /\ \A p \in Len(a) + 1 .. Len(a) + (Len(b) + 1) : Q[p] = Append(b, f)[p - Len(a)]
        /\ \A p \in Len(a) + (Len(b) + 1) + 1 .. Len(a) + (Len(b) + 1) + Len(c) :
              Q[p] = c[p - Len(a) - (Len(b) + 1)]
    <2>1. PICK g \in Seq(S) : g = Append(b, f) /\ Len(g) = Len(b) + 1
      BY <1>1
    <2>2. /\ Len(a \o g \o c) = Len(a) + Len(g) + Len(c)
          /\ \A p \in 1 .. Len(a) : (a \o g \o c)[p] = a[p]
          /\ \A p \in Len(a) + 1 .. Len(a) + Len(g) : (a \o g \o c)[p] = g[p - Len(a)]
          /\ \A p \in Len(a) + Len(g) + 1 .. Len(a) + Len(g) + Len(c) :
                (a \o g \o c)[p] = c[p - Len(a) - Len(g)]
      BY Concat3
    <2> QED BY <2>1, <2>2
  <1> HIDE DEF P, Q
  <1>4. Q[Len(a) + Len(b) + 1] = f
    <2>1. /\ Len(a) + Len(b) + 1 \in Len(a) + 1 .. Len(a) + (Len(b) + 1)
          /\ Len(a) + Len(b) + 1 - Len(a) = Len(b) + 1
      BY <1>1
    <2> QED BY <1>1, <1>3, <2>1
  <1>5. ASSUME NEW p \in Len(a) + Len(b) + 1 .. Len(P) PROVE Q[p + 1] = P[p]
    <2>1. P[p] = c[p - Len(a) - Len(b)]
      BY <1>1, <1>2, <1>5
    <2>2. Q[p + 1] = c[(p + 1) - Len(a) - (Len(b) + 1)]
      <3>1. p + 1 \in Len(a) + (Len(b) + 1) + 1 .. Len(a) + (Len(b) + 1) + Len(c)
        BY <1>1, <1>2, <1>5
      <3> QED BY <1>3, <3>1
    <2> QED BY <1>1, <1>5, <2>1, <2>2
  <1>6. ASSUME NEW p \in 1 .. Len(a) + Len(b) PROVE Q[p] = P[p]
    <2>1. CASE p <= Len(a)
      BY <1>1, <1>2, <1>3, <1>6, <2>1
    <2>2. CASE p > Len(a)
      <3>1. P[p] = b[p - Len(a)] /\ p - Len(a) \in 1 .. Len(b)
        BY <1>1, <1>2, <1>6, <2>2
      <3>2. Q[p] = Append(b, f)[p - Len(a)]
        BY <1>1, <1>3, <1>6, <2>2
      <3> QED BY <1>1, <3>1, <3>2
    <2> QED BY <1>1, <1>6, <2>1, <2>2
  <1>7. Skips(P, Q, Len(a) + Len(b), i)
    BY <1>1, <1>2, <1>3, <1>4, <1>5, <1>6 DEF Inserts, Skips
  <1> QED BY <1>7 DEF P, Q

\* A frame moved from the head of one queue to the end of the one before it stays in place.
LEMMA Shifted ==
    ASSUME NEW S, NEW a \in Seq(S), NEW b \in Seq(S), b # <<>>
    PROVE  Append(a, Head(b)) \o Tail(b) = a \o b
  <1>1. /\ Append(a, Head(b)) \o Tail(b) \in Seq(S) /\ a \o b \in Seq(S)
        /\ Len(b) \in Nat \ {0} /\ Len(a) \in Nat
        /\ Len(Append(a, Head(b)) \o Tail(b)) = Len(a) + Len(b)
        /\ Len(a \o b) = Len(a) + Len(b)
    OBVIOUS
  <1>2. ASSUME NEW p \in 1 .. Len(a) + Len(b)
        PROVE  (Append(a, Head(b)) \o Tail(b))[p] = (a \o b)[p]
    <2>1. CASE p <= Len(a) + 1
      BY <1>1, <1>2, <2>1
    <2>2. CASE p > Len(a) + 1
      <3>1. (a \o b)[p] = b[p - Len(a)]
        BY <1>1, <1>2, <2>2
      <3>2. (Append(a, Head(b)) \o Tail(b))[p] = Tail(b)[p - (Len(a) + 1)]
        BY <1>1, <1>2, <2>2
      <3>3. p - (Len(a) + 1) \in 1 .. Len(b) - 1 /\ (p - (Len(a) + 1)) + 1 = p - Len(a)
        BY <1>1, <1>2, <2>2
      <3>4. \A k \in 1 .. Len(b) - 1 : Tail(b)[k] = b[k + 1]
        OBVIOUS
      <3> QED BY <3>1, <3>2, <3>3, <3>4
    <2> QED BY <1>1, <1>2, <2>1, <2>2
  <1> QED BY <1>1, <1>2, SeqEqual

-----------------------------------------------------------------------------
(* The ledger: what each send's client was told so far *)

Tracked(i) == issued[i].request \in DOMAIN entries /\ entries[issued[i].request].send = i
Live(i) == issued[i].at = "admitted" \/ Tracked(i)

\* The confirms swept for a send: none before it is tracked, those its entry remembers
\* while it is, all it was ever entitled to afterwards.
Said(i) ==
    IF issued[i].at = "admitted" THEN <<>>
    ELSE IF ~Tracked(i) THEN Entitled(i)
    ELSE IF entries[issued[i].request].sendConfirmed THEN <<Confirm(i, "SendConfirm", "Ok")>>
    ELSE <<>>

\* The frames on their way are the confirms said, but for those a full queue dropped.
LedgerOf(i) ==
    /\ Draws(OnTheWay(i), i, Said(i))
    /\ DropOldest \/ Lists(OnTheWay(i), i, Said(i))
Ledger == \A i \in Sends : LedgerOf(i)

\* The contract of the slots, as the tracker relies on it.
VerdictsInOrder ==
    \A i \in Sends :
       /\ slots[i].handedOff = NotYet => slots[i].delivered = NotYet
       /\ slots[i].handedOff \notin {NotYet, "Ok"} => slots[i].delivered = slots[i].handedOff

\* An entry is that of a send of its request; it remembers only a handoff that succeeded.
EntryHome(r) ==
    LET e == entries[r] IN
    /\ issued[e.send].request = r /\ issued[e.send].kind = e.kind /\ issued[e.send].at # "admitted"
    /\ e.sendConfirmed => e.kind = "UnicastApsAck" /\ slots[e.send].handedOff = "Ok"
EntriesHome == \A r \in DOMAIN entries : EntryHome(r)

\* A send whose handler has not got to the tracker finds no entry under its request id; a
\* send that left the tracker has its final verdict.
UntrackedDone ==
    \A i \in Sends :
       /\ issued[i].at = "admitted" => issued[i].request \notin DOMAIN entries
       /\ ~Live(i) => slots[i].delivered # NotYet

\* Of two sends under one request id, one got all its confirms.
OneLive ==
    \A i, j \in Sends :
       i # j /\ issued[i].request = issued[j].request
       => Complete(issued[i].kind, received[i]) \/ Complete(issued[j].kind, received[j])

\* The client's frames of a send, and a request's swept frames, are its own.
FramesHome ==
    /\ \A i \in Sends : AllOf(i, received[i])
    /\ \A r \in RequestIds : \A k \in DOMAIN outbox[r] : issued[outbox[r][k].send].request = r
    /\ sweeper # "emitting" => \A r \in RequestIds : outbox[r] = <<>>

LedgerInv ==
    VerdictsInOrder /\ EntriesHome /\ UntrackedDone /\ OneLive /\ FramesHome /\ Ledger

LEMMA EntitledType ==
    ASSUME TypeOK, NEW i \in Sends
    PROVE  Entitled(i) \in Seq(ConfirmFrame) /\ AllOf(i, Entitled(i))
  <1>1. /\ slots[i] \in [handedOff : Verdict, delivered : Verdict] /\ i \in Nat
        /\ issued[i].kind \in Kinds
    BY DEF TypeOK, TrackerOK, Sends
  <1> DEFINE h == Confirm(i, "SendConfirm", slots[i].handedOff)
             a == Confirm(i, "ApsAckConfirm", slots[i].delivered)
             f == Confirm(i, FinalFrame(issued[i].kind), slots[i].delivered)
  <1>2. slots[i].handedOff # NotYet => h \in ConfirmFrame /\ h.send = i
    BY <1>1 DEF Confirm, ConfirmFrame, Verdict
  <1>3. slots[i].delivered # NotYet => a \in ConfirmFrame /\ a.send = i
    BY <1>1 DEF Confirm, ConfirmFrame, Verdict
  <1>4. slots[i].delivered # NotYet => f \in ConfirmFrame /\ f.send = i
    BY <1>1 DEF Confirm, ConfirmFrame, Verdict, Kinds, FinalFrame
  <1>5. Entitled(i) = IF issued[i].kind = "UnicastApsAck"
                      THEN (IF slots[i].handedOff = NotYet THEN <<>> ELSE <<h>>)
                           \o (IF slots[i].delivered = NotYet \/ slots[i].handedOff # "Ok" THEN <<>>
                               ELSE <<a>>)
                      ELSE IF slots[i].delivered = NotYet THEN <<>> ELSE <<f>>
    BY DEF Entitled
  <1> HIDE DEF h, a, f
  <1>6. CASE issued[i].kind = "UnicastApsAck"
    <2>1. CASE slots[i].handedOff = NotYet
      <3>1. Entitled(i) = <<>> \o <<>>
        BY <1>5, <1>6, <2>1 DEF NotYet, Stack!NotYet
      <3> QED BY <3>1 DEF AllOf
    <2>2. CASE slots[i].handedOff # NotYet /\ (slots[i].delivered = NotYet \/ slots[i].handedOff # "Ok")
      <3>1. Entitled(i) = <<h>> \o <<>> /\ h \in ConfirmFrame /\ h.send = i
        BY <1>2, <1>5, <1>6, <2>2
      <3> QED BY <3>1 DEF AllOf
    <2>3. CASE slots[i].handedOff # NotYet /\ slots[i].delivered # NotYet /\ slots[i].handedOff = "Ok"
      <3>1. /\ Entitled(i) = <<h>> \o <<a>> /\ h \in ConfirmFrame /\ h.send = i
            /\ a \in ConfirmFrame /\ a.send = i
        BY <1>2, <1>3, <1>5, <1>6, <2>3
      <3>2. /\ <<h>> \in Seq(ConfirmFrame) /\ \A k \in 1 .. Len(<<h>>) : <<h>>[k].send = i
            /\ <<a>> \in Seq(ConfirmFrame) /\ \A k \in 1 .. Len(<<a>>) : <<a>>[k].send = i
        BY <3>1, Single
      <3>3. /\ <<h>> \o <<a>> \in Seq(ConfirmFrame)
            /\ \A k \in 1 .. Len(<<h>> \o <<a>>) : (<<h>> \o <<a>>)[k].send = i
        BY <3>2, ConcatKeeps
      <3>4. DOMAIN Entitled(i) = 1 .. Len(Entitled(i))
        BY <3>1, <3>3
      <3> QED BY <3>1, <3>3, <3>4 DEF AllOf
    <2> QED BY <2>1, <2>2, <2>3
  <1>7. CASE issued[i].kind # "UnicastApsAck"
    <2>1. CASE slots[i].delivered = NotYet
      <3>1. Entitled(i) = <<>>
        BY <1>5, <1>7, <2>1
      <3> QED BY <3>1 DEF AllOf
    <2>2. CASE slots[i].delivered # NotYet
      <3>1. Entitled(i) = <<f>> /\ f \in ConfirmFrame /\ f.send = i
        BY <1>4, <1>5, <1>7, <2>2
      <3> QED BY <3>1 DEF AllOf
    <2> QED BY <2>1, <2>2
  <1> QED BY <1>6, <1>7

LEMMA SaidType ==
    ASSUME TypeOK, NEW i \in Sends
    PROVE  Said(i) \in Seq(ConfirmFrame) /\ AllOf(i, Said(i))
  <1> DEFINE c == Confirm(i, "SendConfirm", "Ok")
  <1>1. c \in ConfirmFrame /\ c.send = i
    BY DEF Confirm, ConfirmFrame, Stack!Results, Sends, TypeOK, TrackerOK
  <1>2. Said(i) \in {<<>>, Entitled(i), <<c>>}
    BY DEF Said
  <1> HIDE DEF c
  <1>3. <<c>> \in Seq(ConfirmFrame) /\ AllOf(i, <<c>>)
    BY <1>1 DEF AllOf
  <1>4. <<>> \in Seq(ConfirmFrame) /\ AllOf(i, <<>>)
    BY DEF AllOf
  <1> QED BY <1>2, <1>3, <1>4, EntitledType

LEMMA WayType ==
    ASSUME TypeOK, NEW i \in Sends
    PROVE  /\ received[i] \in Seq(ConfirmFrame) /\ outbound \in Seq(ConfirmFrame)
           /\ issued[i].request \in RequestIds
           /\ outbox[issued[i].request] \in Seq(ConfirmFrame)
           /\ OnTheWay(i) \in Seq(ConfirmFrame)
           /\ \A p \in 1 .. Len(received[i]) : p \in DOMAIN OnTheWay(i) /\ OnTheWay(i)[p] = received[i][p]
  <1>1. /\ received[i] \in Seq(ConfirmFrame) /\ outbound \in Seq(ConfirmFrame)
        /\ issued[i].request \in RequestIds /\ outbox[issued[i].request] \in Seq(ConfirmFrame)
    BY DEF TypeOK, TrackerOK, FramesOK
  <1>2. PICK a, b, c \in Seq(ConfirmFrame) :
             a = received[i] /\ b = outbound /\ c = outbox[issued[i].request]
    BY <1>1
  <1>3. /\ a \o b \o c \in Seq(ConfirmFrame) /\ Len(a \o b \o c) = Len(a) + Len(b) + Len(c)
        /\ \A p \in 1 .. Len(a) : (a \o b \o c)[p] = a[p]
    BY Concat3
  <1>4. \A p \in 1 .. Len(a) : p \in DOMAIN (a \o b \o c)
    BY <1>3
  <1>5. OnTheWay(i) = a \o b \o c
    BY <1>2 DEF OnTheWay
  <1> QED BY <1>1, <1>2, <1>3, <1>4, <1>5

\* A send in its handler's or the tracker's hands has confirms still to come.
LEMMA LiveIncomplete ==
    ASSUME TypeOK, LedgerInv, NEW i \in Sends, Live(i)
    PROVE  ~Complete(issued[i].kind, received[i])
  <1> DEFINE rec == received[i]
             c == Confirm(i, "SendConfirm", "Ok")
  <1>1. SUFFICES ASSUME Complete(issued[i].kind, rec) PROVE FALSE
    OBVIOUS
  <1>2. rec \in Seq(ConfirmFrame) /\ rec # <<>> /\ Len(rec) \in Nat \ {0}
    BY <1>1, WayType DEF Complete
  <1>3. \A p \in 1 .. Len(rec) :
           /\ p \in DOMAIN OnTheWay(i) /\ OnTheWay(i)[p] = rec[p] /\ OnTheWay(i)[p].send = i
    BY <1>2, WayType DEF LedgerInv, FramesHome, AllOf
  <1>4. Draws(OnTheWay(i), i, Said(i))
    BY DEF LedgerInv, Ledger, LedgerOf
  <1>5. \A p \in 1 .. Len(rec) : \E k \in DOMAIN Said(i) : OnTheWay(i)[p] = Said(i)[k]
    BY <1>3, <1>4 DEF Draws
  <1>6. 1 \in 1 .. Len(rec)
    BY <1>2
  <1>7. Said(i) # <<>>
    BY <1>5, <1>6
  <1>8. /\ Said(i) = <<c>> /\ issued[i].request \in DOMAIN entries
        /\ entries[issued[i].request].send = i /\ entries[issued[i].request].sendConfirmed
    BY <1>7 DEF Live, Tracked, Said
  <1>9. issued[i].kind = "UnicastApsAck"
    BY <1>8 DEF LedgerInv, EntriesHome, EntryHome
  <1>10. DOMAIN Said(i) = {1} /\ Said(i)[1] = c /\ c.status = "Ok"
    BY <1>8 DEF Confirm
  <1> HIDE DEF c
  <1>11. CASE Len(rec) = 1
    <2>1. rec[1] = c
      BY <1>3, <1>5, <1>6, <1>10
    <2> QED BY <1>1, <1>9, <1>10, <1>11, <2>1 DEF Complete
  <1>12. CASE Len(rec) # 1
    <2>1. 2 \in 1 .. Len(rec)
      <3>1. PICK n \in Nat \ {0} : n = Len(rec)
        BY <1>2
      <3>2. n # 1
        BY <1>12, <3>1
      <3>3. 2 \in 1 .. n
        BY <3>2
      <3> QED BY <3>1, <3>3
    <2>2. /\ OnTheWay(i)[1] = Said(i)[1] /\ OnTheWay(i)[2] = Said(i)[1]
          /\ 1 \in DOMAIN OnTheWay(i) /\ 2 \in DOMAIN OnTheWay(i)
      BY <1>3, <1>5, <1>6, <1>10, <2>1
    <2>3. \A p1, p2 \in DOMAIN OnTheWay(i), k1, k2 \in DOMAIN Said(i) :
             OnTheWay(i)[p1] = Said(i)[k1] /\ OnTheWay(i)[p2] = Said(i)[k2] /\ p1 < p2 => k1 < k2
      BY <1>4 DEF Draws
    <2>4. 1 \in DOMAIN Said(i) /\ 1 < 2 /\ ~(1 < 1)
      BY <1>10
    <2> QED BY <2>2, <2>3, <2>4
  <1> QED BY <1>11, <1>12

\* Frames of other sends come and go.
LEMMA LedgerSkips ==
    ASSUME NEW P \in Seq(ConfirmFrame), NEW Q \in Seq(ConfirmFrame), NEW m, NEW i, NEW s,
           Skips(P, Q, m, i) \/ Skips(Q, P, m, i), AllOf(i, s),
           Draws(P, i, s) /\ (DropOldest \/ Lists(P, i, s))
    PROVE  Draws(Q, i, s) /\ (DropOldest \/ Lists(Q, i, s))
  BY SkipsTranscript

LEMMA LedgerSame ==
    ASSUME NEW i, OnTheWay(i)' = OnTheWay(i), Said(i)' = Said(i), LedgerOf(i)
    PROVE  LedgerOf(i)'
  BY DEF LedgerOf

\* What a step that moves no frame and no entry may do to the sends.
Still ==
    /\ Sends' = Sends /\ UNCHANGED <<entries, outbox, outbound, received>>
    /\ \A j \in Sends : /\ issued'[j].request = issued[j].request /\ issued'[j].kind = issued[j].kind
                        /\ issued'[j].at = "admitted" <=> issued[j].at = "admitted"
    /\ \A j \in Sends : \/ slots'[j] = slots[j]
                        \/ Live(j) /\ (slots[j].handedOff = "Ok" => slots'[j].handedOff = "Ok")
    /\ sweeper' # "emitting" => \A r \in RequestIds : outbox[r] = <<>>

LEMMA LedgerByStill ==
    ASSUME TypeOK, LedgerInv, Still, VerdictsInOrder'
    PROVE  LedgerInv'
  <1>1. /\ Sends' = Sends /\ entries' = entries /\ outbox' = outbox /\ outbound' = outbound
        /\ received' = received
    BY DEF Still
  <1>2. \A j \in Sends : /\ issued'[j].request = issued[j].request /\ issued'[j].kind = issued[j].kind
                         /\ issued'[j].at = "admitted" <=> issued[j].at = "admitted"
    BY DEF Still
  <1>3. \A j \in Sends : /\ Tracked(j)' <=> Tracked(j)
                         /\ Live(j)' <=> Live(j)
                         /\ ~Live(j) => slots'[j] = slots[j]
                         /\ OnTheWay(j)' = OnTheWay(j)
    BY <1>1, <1>2 DEF Tracked, Live, OnTheWay, Still
  <1>4. ASSUME NEW j \in Sends PROVE LedgerOf(j)'
    <2>1. ~Live(j) => Entitled(j)' = Entitled(j)
      BY <1>2, <1>3 DEF Entitled
    <2>2. Said(j)' = Said(j)
      BY <1>1, <1>2, <1>3, <2>1 DEF Said, Live
    <2> QED BY <1>3, <2>2, LedgerSame DEF LedgerInv, Ledger
  <1>5. EntriesHome'
    <2>1. \A r \in DOMAIN entries : entries[r].send \in Sends /\ EntryHome(r)
      BY DEF TypeOK, TrackerOK, Entry, LedgerInv, EntriesHome
    <2>2. \A j \in Sends : slots[j].handedOff = "Ok" => slots'[j].handedOff = "Ok"
      BY DEF Still
    <2> QED BY <1>1, <1>2, <2>1, <2>2 DEF EntriesHome, EntryHome
  <1>6. UntrackedDone'
    BY <1>1, <1>2, <1>3 DEF LedgerInv, UntrackedDone
  <1>7. OneLive'
    BY <1>1, <1>2 DEF LedgerInv, OneLive, Complete
  <1>8. FramesHome'
    <2>1. \A r \in RequestIds : \A k \in DOMAIN outbox[r] : outbox[r][k].send \in Sends
      BY DEF TypeOK, FramesOK
    <2> QED BY <1>1, <1>2, <2>1 DEF LedgerInv, FramesHome, AllOf, Still
  <1> QED BY <1>1, <1>4, <1>5, <1>6, <1>7, <1>8 DEF LedgerInv, Ledger

LEMMA LedgerByWrite ==
    ASSUME TypeOK, LedgerInv, NEW i \in Sends, NEW stage, Wrote(i, stage),
           Stack!HandOff(i) \/ \E result \in Stack!Results : Stack!Settle(i, result)
    PROVE  LedgerInv'
  <1>0. Sends' = Sends
    BY DEF Wrote, Sends
  <1>1. slots[i].delivered = NotYet /\ Sends' = Sends
    <2>1. CASE Stack!HandOff(i)
      BY <1>0, <2>1 DEF Stack!HandOff, Stack!Open, NotYet
    <2>2. CASE \E result \in Stack!Results : Stack!Settle(i, result)
      BY <1>0, <2>2 DEF Stack!Settle, NotYet
    <2> QED BY <2>1, <2>2
  <1>2. Live(i)
    BY <1>1 DEF LedgerInv, UntrackedDone
  <1>3. \A j \in Sends \ {i} : slots'[j] = slots[j]
    BY DEF Stack!HandOff, Stack!Settle, TypeOK, TrackerOK
  <1>4. slots[i] \in [handedOff : Verdict, delivered : Verdict] /\ i \in DOMAIN slots
    BY DEF TypeOK, TrackerOK
  <1>5. CASE Stack!HandOff(i)
    <2>1. slots'[i].handedOff = "Ok" /\ slots'[i].delivered = NotYet
      BY <1>4, <1>5 DEF Stack!HandOff, Stack!Open, NotYet
    <2>2. VerdictsInOrder'
      BY <1>1, <1>3, <2>1 DEF LedgerInv, VerdictsInOrder, NotYet, Stack!NotYet
    <2>3. Still
      BY <1>1, <1>2, <1>3, <2>1 DEF Still, Wrote, LedgerInv, FramesHome
    <2> QED BY <2>2, <2>3, LedgerByStill
  <1>6. ASSUME NEW result \in Stack!Results, Stack!Settle(i, result)
        PROVE  LedgerInv'
    <2>1. /\ slots'[i].delivered = result /\ result # NotYet
          /\ slots'[i].handedOff = IF slots[i].handedOff = NotYet THEN result ELSE slots[i].handedOff
      BY <1>4, <1>6 DEF Stack!Settle, NotYet, Stack!NotYet, Stack!Results, Stack!Failures
    <2>2. slots[i].handedOff \in {NotYet, "Ok"}
      BY <1>1 DEF LedgerInv, VerdictsInOrder
    <2>3. VerdictsInOrder'
      BY <1>1, <1>3, <2>1, <2>2 DEF LedgerInv, VerdictsInOrder, NotYet, Stack!NotYet
    <2>4. slots[i].handedOff = "Ok" => slots'[i].handedOff = "Ok"
      BY <2>1 DEF NotYet, Stack!NotYet
    <2>5. Still
      BY <1>1, <1>2, <1>3, <2>4 DEF Still, Wrote, LedgerInv, FramesHome
    <2> QED BY <2>3, <2>5, LedgerByStill
  <1> QED BY <1>5, <1>6

LEMMA LedgerByQuiet ==
    ASSUME TypeOK, LedgerInv,
           \/ \E i \in Sends : SelfNotify(i)
           \/ \E n \in notifying : Notifies(n)
           \/ Wakes \/ Rests \/ UNCHANGED vars
    PROVE  LedgerInv'
  <1>1. /\ slots' = slots /\ Sends' = Sends /\ UNCHANGED <<entries, outbox, outbound, received>>
    BY DEF SelfNotify, Notifies, Wakes, Rests, vars, client, Sends
  <1>2. \A j \in Sends : /\ issued'[j].request = issued[j].request /\ issued'[j].kind = issued[j].kind
                         /\ issued'[j].at = "admitted" <=> issued[j].at = "admitted"
    <2>1. ASSUME NEW i \in Sends, SelfNotify(i), NEW j \in Sends
          PROVE  /\ issued'[j].request = issued[j].request /\ issued'[j].kind = issued[j].kind
                 /\ issued'[j].at = "admitted" <=> issued[j].at = "admitted"
      <3>1. CASE j = i
        BY <2>1, <3>1 DEF SelfNotify, TypeOK, TrackerOK
      <3>2. CASE j # i
        BY <2>1, <3>2 DEF SelfNotify, TypeOK, TrackerOK
      <3> QED BY <3>1, <3>2
    <2>2. CASE issued' = issued
      BY <2>2
    <2> QED BY <2>1, <2>2 DEF Notifies, Wakes, Rests, vars, client
  <1>3. sweeper' # "emitting" => \A r \in RequestIds : outbox[r] = <<>>
    BY DEF SelfNotify, Notifies, Wakes, Rests, vars, LedgerInv, FramesHome
  <1>4. Still
    BY <1>1, <1>2, <1>3 DEF Still
  <1>5. VerdictsInOrder'
    BY <1>1 DEF LedgerInv, VerdictsInOrder
  <1> QED BY <1>4, <1>5, LedgerByStill

LEMMA LedgerByInsert ==
    ASSUME TypeOK, LedgerInv, NEW i \in Sends, Insert(i)
    PROVE  LedgerInv'
  <1>0. PICK r \in RequestIds : r = issued[i].request
    BY DEF TypeOK, TrackerOK
  <1>1. /\ Sends' = Sends /\ slots' = slots /\ issued[i].at = "admitted"
        /\ UNCHANGED <<outbox, outbound, received, sweeper>>
    BY DEF Insert, Sends
  <1>2. /\ issued'[i].at = "inserted" /\ issued'[i].request = r /\ issued'[i].kind = issued[i].kind
        /\ \A j \in Sends \ {i} : issued'[j] = issued[j]
    BY <1>0 DEF Insert, TypeOK, TrackerOK
  <1>3. r \notin DOMAIN entries
    BY <1>0, <1>1 DEF LedgerInv, UntrackedDone
  <1>4. /\ DOMAIN entries' = DOMAIN entries \cup {r}
        /\ entries'[r] = [send |-> i, kind |-> issued[i].kind, sendConfirmed |-> FALSE]
        /\ \A s \in DOMAIN entries : entries'[s] = entries[s]
    BY <1>0, <1>3 DEF Insert, Put
  <1>5. /\ entries'[r].send = i /\ entries'[r].kind = issued[i].kind /\ entries'[r].sendConfirmed = FALSE
    BY <1>4
  <1>6. \A j \in Sends : issued'[j].request = issued[j].request /\ issued'[j].kind = issued[j].kind
    BY <1>0, <1>2
  <1>7. \A j \in Sends : OnTheWay(j)' = OnTheWay(j)
    BY <1>1, <1>6 DEF OnTheWay
  <1>8. Tracked(i)'
    BY <1>2, <1>4, <1>5 DEF Tracked
  <1>9. \A j \in Sends \ {i} : /\ Tracked(j)' <=> Tracked(j)
                               /\ Live(j)' <=> Live(j)
    <2> TAKE j \in Sends \ {i}
    <2>1. CASE issued[j].request = r
      BY <1>2, <1>3, <1>4, <1>5, <2>1 DEF Tracked, Live
    <2>2. CASE issued[j].request # r
      BY <1>2, <1>4, <2>2 DEF Tracked, Live
    <2> QED BY <2>1, <2>2
  <1>10. ASSUME NEW j \in Sends \ {i} PROVE Said(j)' = Said(j)
    <2>1. Entitled(j)' = Entitled(j)
      BY <1>1, <1>6 DEF Entitled
    <2>2. Tracked(j) => entries'[issued[j].request] = entries[issued[j].request]
      BY <1>4 DEF Tracked
    <2> QED BY <1>2, <1>9, <2>1, <2>2 DEF Said
  <1>11. Said(i)' = Said(i)
    <2>1. Said(i) = <<>>
      BY <1>1 DEF Said
    <2>2. Said(i)' = <<>>
      BY <1>2, <1>5, <1>8 DEF Said
    <2> QED BY <2>1, <2>2
  <1>12. Ledger'
    BY <1>1, <1>7, <1>10, <1>11, LedgerSame DEF LedgerInv, Ledger
  <1>13. EntriesHome'
    <2>1. EntryHome(r)'
      BY <1>2, <1>5 DEF EntryHome
    <2>2. ASSUME NEW s \in DOMAIN entries PROVE EntryHome(s)'
      <3>1. entries[s].send \in Sends \ {i} /\ EntryHome(s)
        BY <1>1 DEF TypeOK, TrackerOK, Entry, LedgerInv, EntriesHome, EntryHome
      <3> QED BY <1>1, <1>2, <1>4, <3>1 DEF EntryHome
    <2> QED BY <1>4, <2>1, <2>2 DEF EntriesHome
  <1>14. UntrackedDone'
    <2>1. ASSUME NEW j \in Sends, issued'[j].at = "admitted"
          PROVE  issued'[j].request \notin DOMAIN entries'
      <3>1. j # i /\ issued[j].at = "admitted" /\ issued'[j].request = issued[j].request
        BY <1>2, <2>1
      <3>2. ~Complete(issued[i].kind, received[i]) /\ ~Complete(issued[j].kind, received[j])
        BY <1>1, <3>1, LiveIncomplete DEF Live
      <3>3. issued[j].request # r
        BY <1>0, <3>1, <3>2 DEF LedgerInv, OneLive
      <3> QED BY <1>4, <3>1, <3>3 DEF LedgerInv, UntrackedDone
    <2>2. ASSUME NEW j \in Sends, ~Live(j)'
          PROVE  slots'[j].delivered # NotYet
      BY <1>1, <1>8, <1>9, <2>2 DEF Live, LedgerInv, UntrackedDone
    <2> QED BY <1>1, <2>1, <2>2 DEF UntrackedDone
  <1>15. OneLive'
    BY <1>1, <1>6 DEF LedgerInv, OneLive, Complete
  <1>16. FramesHome'
    <2>1. \A s \in RequestIds : \A k \in DOMAIN outbox[s] : outbox[s][k].send \in Sends
      BY DEF TypeOK, FramesOK
    <2> QED BY <1>1, <1>6, <2>1 DEF LedgerInv, FramesHome, AllOf
  <1>17. VerdictsInOrder'
    BY <1>1 DEF LedgerInv, VerdictsInOrder
  <1> QED BY <1>12, <1>13, <1>14, <1>15, <1>16, <1>17 DEF LedgerInv

LEMMA LedgerByIssue ==
    ASSUME TypeOK, LedgerInv, NEW r \in RequestIds, NEW kind \in Requested, Issue(r, kind)
    PROVE  LedgerInv'
  <1>0. PICK n \in Nat : n = nextId
    BY DEF TypeOK, TrackerOK
  <1>1. Sends' = Sends \cup {n} /\ n \notin Sends
    BY <1>0 DEF Issue, Sends
  <1>2. UNCHANGED <<entries, outbox, outbound, sweeper>>
    BY DEF Issue
  <1>3. \A j \in Sends : issued'[j] = issued[j] /\ slots'[j] = slots[j] /\ received'[j] = received[j]
    BY <1>0, <1>1 DEF Issue, Put, Stack!Admit, TypeOK, TrackerOK, FramesOK
  <1>4. /\ issued'[n].request = r /\ issued'[n].at = "admitted" /\ received'[n] = <<>>
        /\ slots'[n].handedOff = NotYet /\ slots'[n].delivered = NotYet
    BY <1>0, <1>1 DEF Issue, Put, Stack!Admit, Stack!Open, NotYet, TypeOK, TrackerOK, FramesOK
  <1>5. \A j \in Sends : issued[j].request = r => Complete(issued[j].kind, received[j])
    BY DEF Issue
  <1>6. r \notin DOMAIN entries
    <2> SUFFICES ASSUME r \in DOMAIN entries PROVE FALSE
      OBVIOUS
    <2>1. entries[r].send \in Sends /\ EntryHome(r)
      BY DEF TypeOK, TrackerOK, Entry, LedgerInv, EntriesHome
    <2>2. PICK j \in Sends : j = entries[r].send /\ issued[j].request = r
      BY <2>1 DEF EntryHome
    <2>3. Live(j)
      BY <2>2 DEF Live, Tracked
    <2> QED BY <1>5, <2>2, <2>3, LiveIncomplete
  <1>7. ASSUME NEW j \in Sends PROVE LedgerOf(j)' /\ (Live(j)' <=> Live(j))
    <2>1. OnTheWay(j)' = OnTheWay(j)
      BY <1>2, <1>3 DEF OnTheWay
    <2>2. Entitled(j)' = Entitled(j) /\ (Tracked(j)' <=> Tracked(j))
      BY <1>2, <1>3 DEF Entitled, Tracked
    <2>3. Said(j)' = Said(j) /\ (Live(j)' <=> Live(j))
      BY <1>2, <1>3, <2>2 DEF Said, Live
    <2> QED BY <2>1, <2>3, LedgerSame DEF LedgerInv, Ledger
  <1>8. LedgerOf(n)'
    <2>1. Said(n)' = <<>>
      BY <1>4 DEF Said
    <2>2. \A p \in DOMAIN OnTheWay(n)' : OnTheWay(n)'[p].send # n
      <3>1. PICK b \in Seq(ConfirmFrame), c \in Seq(ConfirmFrame) : b = outbound /\ c = outbox[r]
        BY DEF TypeOK, FramesOK
      <3>2. OnTheWay(n)' = <<>> \o b \o c
        BY <1>2, <1>4, <3>1 DEF OnTheWay
      <3>3. (\A k \in 1 .. Len(b) : b[k].send # n) /\ (\A k \in 1 .. Len(c) : c[k].send # n)
        BY <1>1, <3>1 DEF TypeOK, FramesOK
      <3>4. /\ <<>> \o b \o c \in Seq(ConfirmFrame)
            /\ \A p \in 1 .. Len(<<>> \o b \o c) :
                 \/ \E k \in 1 .. Len(b) : (<<>> \o b \o c)[p] = b[k]
                 \/ \E k \in 1 .. Len(c) : (<<>> \o b \o c)[p] = c[k]
        <4>1. <<>> \o b = b
          OBVIOUS
        <4>2. b \o c \in Seq(ConfirmFrame) /\ Len(b \o c) = Len(b) + Len(c)
          OBVIOUS
        <4>3. ASSUME NEW p \in 1 .. Len(b \o c)
              PROVE  \/ \E k \in 1 .. Len(b) : (b \o c)[p] = b[k]
                     \/ \E k \in 1 .. Len(c) : (b \o c)[p] = c[k]
          <5>1. CASE p <= Len(b)
            BY <4>2, <4>3, <5>1
          <5>2. CASE p > Len(b)
            <6>1. p - Len(b) \in 1 .. Len(c) /\ (b \o c)[p] = c[p - Len(b)]
              BY <4>2, <4>3, <5>2
            <6> QED BY <6>1
          <5> QED BY <4>2, <4>3, <5>1, <5>2
        <4> QED BY <4>1, <4>2, <4>3
      <3>5. DOMAIN (<<>> \o b \o c) = 1 .. Len(<<>> \o b \o c)
        BY <3>4
      <3> QED BY <3>2, <3>3, <3>4, <3>5
    <2>3. DOMAIN <<>> = {}
      OBVIOUS
    <2> QED BY <2>1, <2>2, <2>3 DEF LedgerOf, Lists, Draws
  <1>9. EntriesHome'
    <2>1. \A s \in DOMAIN entries : entries[s].send \in Sends /\ EntryHome(s)
      BY DEF TypeOK, TrackerOK, Entry, LedgerInv, EntriesHome
    <2> QED BY <1>2, <1>3, <2>1 DEF EntriesHome, EntryHome
  <1>10. UntrackedDone'
    <2>1. Live(n)'
      BY <1>4 DEF Live
    <2> QED BY <1>1, <1>2, <1>3, <1>4, <1>6, <1>7, <2>1 DEF LedgerInv, UntrackedDone
  <1>11. OneLive'
    BY <1>1, <1>3, <1>4, <1>5 DEF LedgerInv, OneLive, Complete
  <1>12. FramesHome'
    <2>1. \A s \in RequestIds : \A k \in DOMAIN outbox[s] : outbox[s][k].send \in Sends
      BY DEF TypeOK, FramesOK
    <2> QED BY <1>1, <1>2, <1>3, <1>4, <2>1 DEF LedgerInv, FramesHome, AllOf
  <1>13. VerdictsInOrder'
    BY <1>1, <1>3, <1>4 DEF LedgerInv, VerdictsInOrder, NotYet, Stack!NotYet
  <1> QED BY <1>1, <1>7, <1>8, <1>9, <1>10, <1>11, <1>12, <1>13 DEF LedgerInv, Ledger

\* A confirm the writer hands to the client.
LEMMA LedgerByDelivery ==
    ASSUME TypeOK, LedgerInv, Delivers
    PROVE  LedgerInv'
  <1>0. PICK f \in ConfirmFrame, out \in Seq(ConfirmFrame) :
             f = Head(outbound) /\ out = outbound /\ out # <<>> /\ f.send \in Sends
    BY DEF Delivers, TypeOK, FramesOK
  <1>1. /\ Sends' = Sends /\ UNCHANGED <<slots, issued, entries, outbox, sweeper>>
        /\ outbound' = Tail(out)
    BY <1>0 DEF Delivers, Sends
  <1>2. PICK j \in Sends : j = f.send
    BY <1>0
  <1>3. /\ received'[j] = Append(received[j], f)
        /\ \A i \in Sends \ {j} : received'[i] = received[i]
    BY <1>0, <1>2 DEF Delivers, TypeOK, FramesOK
  <1>4. \A i \in Sends : /\ Tracked(i)' <=> Tracked(i)
                         /\ Live(i)' <=> Live(i)
                         /\ Said(i)' = Said(i)
    BY <1>1 DEF Tracked, Live, Said, Entitled
  <1>5. ASSUME NEW i \in Sends PROVE LedgerOf(i)'
    <2>1. PICK rec \in Seq(ConfirmFrame), box \in Seq(ConfirmFrame) :
               rec = received[i] /\ box = outbox[issued[i].request]
      BY WayType
    <2>2. OnTheWay(i) = rec \o out \o box
      BY <1>0, <2>1 DEF OnTheWay
    <2>3. CASE i = j
      <3>1. OnTheWay(i)' = Append(rec, Head(out)) \o Tail(out) \o box
        BY <1>0, <1>1, <1>3, <2>1, <2>3 DEF OnTheWay
      <3>2. OnTheWay(i)' = OnTheWay(i)
        BY <1>0, <2>2, <3>1, Shifted
      <3> QED BY <1>4, <3>2, LedgerSame DEF LedgerInv, Ledger
    <2>4. CASE i # j
      <3>1. OnTheWay(i)' = rec \o Tail(out) \o box
        BY <1>1, <1>3, <2>1, <2>4 DEF OnTheWay
      <3>2. Skips(rec \o Tail(out) \o box, rec \o out \o box, Len(rec), i)
        BY <1>0, <1>2, <2>4, DeliverySkips
      <3>3. Tail(out) \in Seq(ConfirmFrame)
        BY <1>0
      <3>4. rec \o Tail(out) \o box \in Seq(ConfirmFrame) /\ rec \o out \o box \in Seq(ConfirmFrame)
        BY <3>3, Concat3
      <3>5. AllOf(i, Said(i))
        BY SaidType
      <3>6. Draws(OnTheWay(i), i, Said(i)) /\ (DropOldest \/ Lists(OnTheWay(i), i, Said(i)))
        BY DEF LedgerInv, Ledger, LedgerOf
      <3>7. /\ Draws(rec \o Tail(out) \o box, i, Said(i))
            /\ DropOldest \/ Lists(rec \o Tail(out) \o box, i, Said(i))
        BY <2>2, <3>2, <3>4, <3>5, <3>6, LedgerSkips
      <3> QED BY <1>4, <3>1, <3>7 DEF LedgerOf
    <2> QED BY <2>3, <2>4
  <1>6. \A i \in Sends : Complete(issued[i].kind, received[i]) => Complete(issued[i].kind, received'[i])
    <2> SUFFICES ASSUME NEW i \in Sends, Complete(issued[i].kind, received[i])
                 PROVE  Complete(issued[i].kind, received'[i])
      OBVIOUS
    <2>1. CASE i = j
      <3>1. PICK rec \in Seq(ConfirmFrame) : rec = received[i] /\ rec # <<>>
        BY WayType DEF Complete
      <3>2. received'[i] = Append(rec, f) /\ Append(rec, f) # <<>> /\ Len(Append(rec, f)) # 1
        BY <1>3, <2>1, <3>1
      <3> QED BY <3>2 DEF Complete
    <2>2. CASE i # j
      BY <1>3, <2>2
    <2> QED BY <2>1, <2>2
  <1>7. EntriesHome' /\ UntrackedDone' /\ VerdictsInOrder'
    BY <1>1, <1>4 DEF LedgerInv, EntriesHome, EntryHome, UntrackedDone, VerdictsInOrder
  <1>8. OneLive'
    BY <1>1, <1>6 DEF LedgerInv, OneLive
  <1>9. FramesHome'
    <2>1. AllOf(j, received'[j])
      <3>1. PICK rec \in Seq(ConfirmFrame) : rec = received[j]
        BY WayType
      <3>2. AllOf(j, Append(rec, f))
        BY <1>2, <3>1 DEF LedgerInv, FramesHome, AllOf
      <3> QED BY <1>3, <3>1, <3>2
    <2> QED BY <1>1, <1>3, <2>1 DEF LedgerInv, FramesHome
  <1> QED BY <1>1, <1>5, <1>7, <1>8, <1>9 DEF LedgerInv, Ledger

Joined(a, b, c) == a \o b \o c

LEMMA ShiftedDeep ==
    ASSUME NEW S, NEW a \in Seq(S), NEW b \in Seq(S), NEW c \in Seq(S), c # <<>>
    PROVE  Joined(a, Append(b, Head(c)), Tail(c)) = Joined(a, b, c)
  <1>1. PICK f \in S : f = Head(c)
    OBVIOUS
  <1>2. <<f>> \in Seq(S) /\ a \o b \in Seq(S)
    OBVIOUS
  <1>3. Append(b, f) = b \o <<f>> /\ Append(a \o b, f) = (a \o b) \o <<f>>
    BY <1>2, AppendIsConcat
  <1>4. a \o (b \o <<f>>) = (a \o b) \o <<f>>
    BY <1>2, ConcatAssociative
  <1>5. Append(a \o b, Head(c)) \o Tail(c) = (a \o b) \o c
    BY <1>2, Shifted
  <1> QED BY <1>1, <1>3, <1>4, <1>5 DEF Joined

\* A confirm the reactor queues, dropping the oldest frame or not.
LEMMA LedgerByEmit ==
    ASSUME TypeOK, LedgerInv, NEW r \in RequestIds, Emit(r)
    PROVE  LedgerInv'
  <1>0. PICK out \in Seq(ConfirmFrame), q \in Seq(ConfirmFrame), f \in ConfirmFrame :
             /\ out = outbound /\ q = outbox[r] /\ q # <<>> /\ f = Head(q)
             /\ f.send \in Sends /\ issued[f.send].request = r
    <2>1. outbound \in Seq(ConfirmFrame) /\ outbox[r] \in Seq(ConfirmFrame) /\ outbox[r] # <<>>
      BY DEF Emit, TypeOK, FramesOK
    <2>2. /\ Head(outbox[r]) \in ConfirmFrame /\ 1 \in DOMAIN outbox[r] /\ 1 \in 1 .. Len(outbox[r])
          /\ Head(outbox[r]) = outbox[r][1]
      BY <2>1
    <2>3. Head(outbox[r]).send \in Sends /\ issued[Head(outbox[r]).send].request = r
      BY <2>2 DEF TypeOK, FramesOK, LedgerInv, FramesHome
    <2> QED BY <2>1, <2>2, <2>3
  <1>1. PICK room \in Seq(ConfirmFrame) :
             /\ outbound' = Append(room, f)
             /\ room = out \/ (DropOldest /\ out # <<>> /\ room = Tail(out))
    <2>1. outbound' = Append(IF Len(out) < Depth THEN out ELSE Tail(out), f)
          /\ (Len(out) < Depth \/ DropOldest)
      BY <1>0 DEF Emit, Pushed
    <2>2. CASE Len(out) < Depth
      BY <2>1, <2>2
    <2>3. CASE ~(Len(out) < Depth)
      <3>1. out # <<>>
        BY <2>3, TrackerAssumption
      <3>2. Tail(out) \in Seq(ConfirmFrame)
        BY <3>1
      <3> QED BY <2>1, <2>3, <3>1, <3>2
    <2> QED BY <2>2, <2>3
  <1>2. /\ Sends' = Sends /\ UNCHANGED <<slots, issued, entries, received, sweeper>>
        /\ sweeper = "emitting"
        /\ outbox'[r] = Tail(q) /\ \A s \in RequestIds \ {r} : outbox'[s] = outbox[s]
    BY <1>0 DEF Emit, client, Sends, TypeOK, FramesOK
  <1>3. \A i \in Sends : /\ Tracked(i)' <=> Tracked(i)
                         /\ Live(i)' <=> Live(i)
                         /\ Said(i)' = Said(i)
    BY <1>2 DEF Tracked, Live, Said, Entitled
  <1>4. ASSUME NEW i \in Sends PROVE LedgerOf(i)'
    <2>1. PICK rec \in Seq(ConfirmFrame), box \in Seq(ConfirmFrame) :
               rec = received[i] /\ box = outbox[issued[i].request]
      BY WayType
    <2>2. OnTheWay(i) = rec \o out \o box
      BY <1>0, <2>1 DEF OnTheWay
    <2>3. /\ rec \o out \o box \in Seq(ConfirmFrame) /\ rec \o room \o box \in Seq(ConfirmFrame)
          /\ rec \o Append(room, f) \o box \in Seq(ConfirmFrame)
      <3>1. Append(room, f) \in Seq(ConfirmFrame)
        OBVIOUS
      <3> QED BY <3>1, Concat3
    <2>4. Draws(OnTheWay(i), i, Said(i)) /\ (DropOldest \/ Lists(OnTheWay(i), i, Said(i)))
      BY DEF LedgerInv, Ledger, LedgerOf
    <2>5. Draws(rec \o room \o box, i, Said(i)) /\ (DropOldest \/ Lists(rec \o room \o box, i, Said(i)))
      <3>1. CASE room = out
        BY <2>2, <2>4, <3>1
      <3>2. CASE DropOldest /\ out # <<>> /\ room = Tail(out)
        <4>1. Inserts(rec \o Tail(out) \o box, rec \o out \o box, Len(rec))
          BY <3>2, DeliverySkips
        <4> QED BY <2>2, <2>3, <2>4, <3>2, <4>1, DropKeepsOrder
      <3> QED BY <1>1, <3>1, <3>2
    <2>6. CASE issued[i].request = r
      <3>1. OnTheWay(i)' = rec \o Append(room, Head(q)) \o Tail(q) /\ box = q
        BY <1>0, <1>1, <1>2, <2>1, <2>6 DEF OnTheWay
      <3>2. OnTheWay(i)' = rec \o room \o box
        <4>1. Joined(rec, Append(room, Head(q)), Tail(q)) = Joined(rec, room, q)
          BY <1>0, ShiftedDeep
        <4> QED BY <3>1, <4>1 DEF Joined
      <3> QED BY <1>3, <2>5, <3>2 DEF LedgerOf
    <2>7. CASE issued[i].request # r
      <3>1. OnTheWay(i)' = rec \o Append(room, f) \o box
        BY <1>1, <1>2, <2>1, <2>7, WayType DEF OnTheWay
      <3>2. Skips(rec \o room \o box, rec \o Append(room, f) \o box, Len(rec) + Len(room), i)
        BY <1>0, <2>7, EmissionSkips
      <3>3. AllOf(i, Said(i))
        BY SaidType
      <3>4. /\ Draws(rec \o Append(room, f) \o box, i, Said(i))
            /\ DropOldest \/ Lists(rec \o Append(room, f) \o box, i, Said(i))
        BY <2>3, <2>5, <3>2, <3>3, LedgerSkips
      <3> QED BY <1>3, <3>1, <3>4 DEF LedgerOf
    <2> QED BY <2>6, <2>7
  <1>5. EntriesHome' /\ UntrackedDone' /\ VerdictsInOrder' /\ OneLive'
    BY <1>2, <1>3 DEF LedgerInv, EntriesHome, EntryHome, UntrackedDone, VerdictsInOrder, OneLive, Complete
  <1>6. FramesHome'
    <2>1. \A k \in DOMAIN Tail(q) : issued[Tail(q)[k].send].request = r
      <3>1. \A k \in DOMAIN Tail(q) : k + 1 \in DOMAIN q /\ Tail(q)[k] = q[k + 1]
        BY <1>0
      <3> QED BY <1>0, <3>1 DEF LedgerInv, FramesHome
    <2> QED BY <1>2, <2>1 DEF LedgerInv, FramesHome, AllOf
  <1> QED BY <1>2, <1>4, <1>5, <1>6 DEF LedgerInv, Ledger

\* What a sweep of a send's entry says, after what was said before.
Adds(i, old, new, c) ==
    /\ c \in ConfirmFrame /\ c.send = i /\ new = Append(old, c)
    /\ \A k \in DOMAIN old : old[k] # c

LEMMA SweepSays ==
    ASSUME TypeOK, LedgerInv, Sweep, NEW i \in Sends, Tracked(i), issued[i].at # "admitted"
    PROVE  LET e == entries[issued[i].request] IN
           \/ Owes(e) = <<>> /\ Said(i)' = Said(i)
           \/ \E c \in ConfirmFrame : Owes(e) = <<c>> /\ Adds(i, Said(i), Said(i)', c)
           \/ \E c, d \in ConfirmFrame :
                 /\ Owes(e) = <<c>> \o <<d>>
                 /\ Adds(i, Said(i), <<c>>, c) /\ Adds(i, <<c>>, Said(i)', d)
  <1>0. PICK r \in RequestIds, e \in Entry :
             /\ r = issued[i].request /\ r \in DOMAIN entries /\ e = entries[r] /\ e.send = i
             /\ e.kind = issued[i].kind /\ EntryHome(r)
    BY DEF Tracked, TypeOK, TrackerOK, LedgerInv, EntriesHome, EntryHome
  <1> SUFFICES \/ Owes(e) = <<>> /\ Said(i)' = Said(i)
               \/ \E c \in ConfirmFrame : Owes(e) = <<c>> /\ Adds(i, Said(i), Said(i)', c)
               \/ \E c, d \in ConfirmFrame :
                     /\ Owes(e) = <<c>> \o <<d>>
                     /\ Adds(i, Said(i), <<c>>, c) /\ Adds(i, <<c>>, Said(i)', d)
    BY <1>0
  <1>1. /\ slots' = slots /\ issued' = issued
        /\ slots[i] \in [handedOff : Verdict, delivered : Verdict] /\ i \in Nat
        /\ slots[i].handedOff = NotYet => slots[i].delivered = NotYet
    BY DEF Sweep, client, TypeOK, TrackerOK, Sends, LedgerInv, VerdictsInOrder
  <1>2. /\ r \in DOMAIN entries' <=> ~Done(e)
        /\ ~Done(e) => /\ entries'[r].send = i
                       /\ entries'[r].sendConfirmed = SendConfirmedNow(e)
    BY <1>0 DEF Sweep, Entry
  <1>3. /\ e.sendConfirmed \in BOOLEAN
        /\ e.sendConfirmed => e.kind = "UnicastApsAck" /\ slots[i].handedOff = "Ok"
    BY <1>0 DEF Entry, EntryHome
  <1> DEFINE h == Confirm(i, "SendConfirm", slots[i].handedOff)
             a == Confirm(i, "ApsAckConfirm", slots[i].delivered)
             g == Confirm(i, FinalFrame(e.kind), slots[i].delivered)
             ok == Confirm(i, "SendConfirm", "Ok")
  <1>4. /\ slots[i].handedOff # NotYet => h \in ConfirmFrame /\ h.send = i
        /\ slots[i].delivered # NotYet => a \in ConfirmFrame /\ a.send = i
        /\ h # a /\ ok # a /\ (slots[i].handedOff = "Ok" => h = ok)
    BY <1>1 DEF Confirm, ConfirmFrame, Verdict
  <1>5. slots[i].delivered # NotYet => g \in ConfirmFrame /\ g.send = i
    BY <1>0, <1>1 DEF Confirm, ConfirmFrame, Verdict, Entry, Kinds, FinalFrame
  <1>6. /\ HandoffFrames(e) = IF e.kind = "UnicastApsAck" /\ ~e.sendConfirmed /\ slots[i].handedOff # NotYet
                              THEN <<h>> ELSE <<>>
        /\ FinalFrames(e) = IF /\ slots[i].delivered # NotYet
                               /\ e.kind = "UnicastApsAck" => SendConfirmedNow(e) /\ ~FailedNow(e)
                            THEN <<g>> ELSE <<>>
        /\ FailedNow(e) <=> HandoffFrames(e) # <<>> /\ slots[i].handedOff # "Ok"
        /\ e.kind = "UnicastApsAck" => g = a
    BY <1>0 DEF HandoffFrames, FinalFrames, FailedNow, FinalFrame
  <1>7. /\ Said(i) = IF e.sendConfirmed THEN <<ok>> ELSE <<>>
        /\ ~Done(e) => Said(i)' = IF SendConfirmedNow(e) THEN <<ok>> ELSE <<>>
        /\ Done(e) => Said(i)' = Entitled(i)
    <2>1. Entitled(i)' = Entitled(i)
      BY <1>1 DEF Entitled
    <2> QED BY <1>0, <1>1, <1>2, <2>1 DEF Said, Tracked
  <1>8. Entitled(i) = IF e.kind = "UnicastApsAck"
                      THEN (IF slots[i].handedOff = NotYet THEN <<>> ELSE <<h>>)
                           \o (IF slots[i].delivered = NotYet \/ slots[i].handedOff # "Ok" THEN <<>>
                               ELSE <<a>>)
                      ELSE IF slots[i].delivered = NotYet THEN <<>> ELSE <<g>>
    BY <1>0 DEF Entitled
  <1>9. \A c \in ConfirmFrame : /\ <<c>> \in Seq(ConfirmFrame) /\ <<>> \o <<c>> = <<c>>
                                /\ <<c>> \o <<>> = <<c>> /\ <<>> \o <<>> = <<>>
                                /\ Append(<<>>, c) = <<c>> /\ DOMAIN <<c>> = {1} /\ <<c>>[1] = c
    OBVIOUS
  <1>10. \A c, d \in ConfirmFrame : <<c>> \o <<d>> = Append(<<c>>, d)
    BY <1>9, AppendIsConcat
  <1>11. ok \in ConfirmFrame /\ ok.send = i
    BY <1>1 DEF Confirm, ConfirmFrame, Stack!Results
  <1>12. /\ Owes(e) = HandoffFrames(e) \o FinalFrames(e)
         /\ SendConfirmedNow(e) <=> (e.sendConfirmed \/ HandoffFrames(e) # <<>>)
         /\ Done(e) <=> (FailedNow(e) \/ FinalFrames(e) # <<>>)
    BY DEF Owes, SendConfirmedNow, Done
  <1> HIDE DEF h, a, g, ok
  <1>13. /\ <<>> \o <<>> = <<>> /\ DOMAIN <<>> = {} /\ <<h>> # <<>> /\ <<g>> # <<>>
    OBVIOUS
  <1>14. CASE e.kind = "UnicastApsAck" /\ e.sendConfirmed
    <2>1. HandoffFrames(e) = <<>> /\ ~FailedNow(e) /\ SendConfirmedNow(e) /\ Said(i) = <<ok>>
      BY <1>6, <1>7, <1>12, <1>14
    <2>2. CASE slots[i].delivered = NotYet
      <3>1. FinalFrames(e) = <<>>
        BY <1>6, <2>2
      <3>2. Owes(e) = <<>> /\ ~Done(e)
        BY <1>12, <1>13, <2>1, <3>1
      <3> QED BY <1>7, <2>1, <3>2
    <2>3. CASE slots[i].delivered # NotYet
      <3>1. FinalFrames(e) = <<a>> /\ a \in ConfirmFrame /\ a.send = i
        BY <1>4, <1>6, <1>14, <2>1, <2>3
      <3>2. Owes(e) = <<a>> /\ Done(e)
        BY <1>9, <1>12, <1>13, <2>1, <3>1
      <3>3. Said(i)' = <<ok>> \o <<a>>
        BY <1>3, <1>4, <1>7, <1>8, <1>14, <2>3, <3>2 DEF NotYet, Stack!NotYet
      <3>4. Adds(i, Said(i), Said(i)', a)
        BY <1>4, <1>9, <1>10, <1>11, <2>1, <3>1, <3>3 DEF Adds
      <3> QED BY <3>1, <3>2, <3>4
    <2> QED BY <2>2, <2>3
  <1>15. CASE e.kind = "UnicastApsAck" /\ ~e.sendConfirmed /\ slots[i].handedOff = NotYet
    <2>1. HandoffFrames(e) = <<>> /\ FinalFrames(e) = <<>> /\ Said(i) = <<>>
      BY <1>1, <1>6, <1>7, <1>15
    <2>2. Owes(e) = <<>> /\ ~Done(e) /\ ~SendConfirmedNow(e)
      BY <1>6, <1>12, <1>13, <1>15, <2>1
    <2> QED BY <1>7, <2>1, <2>2
  <1>16. CASE e.kind = "UnicastApsAck" /\ ~e.sendConfirmed /\ slots[i].handedOff # NotYet
    <2>1. /\ HandoffFrames(e) = <<h>> /\ SendConfirmedNow(e) /\ Said(i) = <<>>
          /\ h \in ConfirmFrame /\ h.send = i
          /\ FailedNow(e) <=> slots[i].handedOff # "Ok"
      BY <1>4, <1>6, <1>7, <1>12, <1>13, <1>16
    <2>2. Adds(i, Said(i), <<h>>, h)
      BY <1>9, <1>13, <2>1 DEF Adds
    <2>3. CASE slots[i].delivered = NotYet \/ slots[i].handedOff # "Ok"
      <3>1. FinalFrames(e) = <<>>
        BY <1>6, <1>16, <2>1, <2>3
      <3>2. Owes(e) = <<h>>
        BY <1>9, <1>12, <2>1, <3>1
      <3>3. Said(i)' = <<h>>
        <4>1. CASE Done(e)
          <5>1. Said(i)' = <<h>> \o <<>>
            BY <1>7, <1>8, <1>16, <2>3, <4>1
          <5> QED BY <1>9, <2>1, <5>1
        <4>2. CASE ~Done(e)
          <5>1. slots[i].handedOff = "Ok"
            BY <1>12, <2>1, <4>2
          <5> QED BY <1>4, <1>7, <2>1, <4>2, <5>1
        <4> QED BY <4>1, <4>2
      <3> QED BY <2>1, <2>2, <3>2, <3>3
    <2>4. CASE slots[i].delivered # NotYet /\ slots[i].handedOff = "Ok"
      <3>1. FinalFrames(e) = <<a>> /\ a \in ConfirmFrame /\ a.send = i
        BY <1>4, <1>6, <1>16, <2>1, <2>4
      <3>2. Owes(e) = <<h>> \o <<a>> /\ Done(e)
        BY <1>12, <2>1, <3>1
      <3>3. Said(i)' = <<h>> \o <<a>>
        BY <1>7, <1>8, <1>16, <2>4, <3>2
      <3>4. Adds(i, <<h>>, Said(i)', a)
        BY <1>4, <1>9, <1>10, <2>1, <3>1, <3>3 DEF Adds
      <3> QED BY <2>1, <2>2, <3>1, <3>2, <3>4
    <2> QED BY <2>3, <2>4
  <1>17. CASE e.kind # "UnicastApsAck"
    <2>1. HandoffFrames(e) = <<>> /\ ~FailedNow(e) /\ ~SendConfirmedNow(e) /\ Said(i) = <<>>
      BY <1>3, <1>6, <1>7, <1>12, <1>17
    <2>2. CASE slots[i].delivered = NotYet
      <3>1. FinalFrames(e) = <<>>
        BY <1>6, <2>2
      <3>2. Owes(e) = <<>> /\ ~Done(e)
        BY <1>12, <1>13, <2>1, <3>1
      <3> QED BY <1>7, <2>1, <3>2
    <2>3. CASE slots[i].delivered # NotYet
      <3>1. FinalFrames(e) = <<g>> /\ g \in ConfirmFrame /\ g.send = i
        BY <1>5, <1>6, <1>17, <2>3
      <3>2. Owes(e) = <<g>> /\ Done(e)
        BY <1>9, <1>12, <1>13, <2>1, <3>1
      <3>3. Said(i)' = <<g>>
        BY <1>7, <1>8, <1>17, <2>3, <3>2
      <3>4. Adds(i, Said(i), Said(i)', g)
        BY <1>9, <1>13, <2>1, <3>1, <3>3 DEF Adds
      <3> QED BY <3>1, <3>2, <3>4
    <2> QED BY <2>2, <2>3
  <1> QED BY <1>3, <1>14, <1>15, <1>16, <1>17

\* What one more confirm, of this send or another, does to a transcript.
LEMMA AppendsNext ==
    ASSUME NEW P \in Seq(ConfirmFrame), NEW i, NEW old \in Seq(ConfirmFrame), NEW new, NEW c,
           Adds(i, old, new, c), Draws(P, i, old) /\ (DropOldest \/ Lists(P, i, old))
    PROVE  /\ Append(P, c) \in Seq(ConfirmFrame) /\ new \in Seq(ConfirmFrame)
           /\ Draws(Append(P, c), i, new) /\ (DropOldest \/ Lists(Append(P, c), i, new))
  BY NextConfirm DEF Adds

LEMMA AppendsForeign ==
    ASSUME NEW P \in Seq(ConfirmFrame), NEW i, NEW s \in Seq(ConfirmFrame), NEW c \in ConfirmFrame,
           AllOf(i, s), c.send # i, Draws(P, i, s) /\ (DropOldest \/ Lists(P, i, s))
    PROVE  /\ Append(P, c) \in Seq(ConfirmFrame)
           /\ Draws(Append(P, c), i, s) /\ (DropOldest \/ Lists(Append(P, c), i, s))
  <1>1. Append(P, c) \in Seq(ConfirmFrame)
    OBVIOUS
  <1>2. Skips(P, Append(P, c), Len(P), i)
    BY DEF Skips, Inserts
  <1> QED BY <1>1, <1>2, LedgerSkips

\* An entry owes at most two frames.
LEMMA OwesShape ==
    ASSUME TrackerOK, NEW e \in Entry
    PROVE  \/ Owes(e) = <<>>
           \/ \E c \in ConfirmFrame : c.send = e.send /\ Owes(e) = <<c>>
           \/ \E c, d \in ConfirmFrame :
                 c.send = e.send /\ d.send = e.send /\ Owes(e) = <<c>> \o <<d>>
  <1>1. slots[e.send] \in [handedOff : Verdict, delivered : Verdict] /\ e.send \in Nat
    BY DEF TrackerOK, Entry, Sends
  <1>2. FinalFrame(e.kind) \in {"SendConfirm", "ApsAckConfirm", "BroadcastConfirm"}
    BY DEF Entry, Kinds, FinalFrame
  <1>3. HandoffFrames(e) = <<>> \/ \E c \in ConfirmFrame : c.send = e.send /\ HandoffFrames(e) = <<c>>
    BY <1>1 DEF HandoffFrames, Confirm, ConfirmFrame, Verdict
  <1>4. FinalFrames(e) = <<>> \/ \E c \in ConfirmFrame : c.send = e.send /\ FinalFrames(e) = <<c>>
    BY <1>1, <1>2 DEF FinalFrames, Confirm, ConfirmFrame, Verdict
  <1>5. \A c \in ConfirmFrame : <<>> \o <<c>> = <<c>> /\ <<c>> \o <<>> = <<c>> /\ <<>> \o <<>> = <<>>
    OBVIOUS
  <1>6. <<>> \o <<>> = <<>>
    OBVIOUS
  <1> QED BY <1>3, <1>4, <1>5, <1>6 DEF Owes

LEMMA LedgerBySweep ==
    ASSUME TypeOK, LedgerInv, Sweep
    PROVE  LedgerInv'
  <1>1. Sends' = Sends /\ UNCHANGED <<slots, issued, outbound, received>> /\ sweeper' = "emitting"
    BY DEF Sweep, client, Sends
  <1>2. \A r \in RequestIds : outbox[r] = <<>>
    BY DEF Sweep, LedgerInv, FramesHome
  <1>3. \A r \in DOMAIN entries : entries[r] \in Entry /\ EntryHome(r) /\ r \in RequestIds
    BY DEF TypeOK, TrackerOK, LedgerInv, EntriesHome
  <1>4. \A r \in DOMAIN entries' :
           /\ r \in DOMAIN entries /\ ~Done(entries[r])
           /\ entries'[r].send = entries[r].send /\ entries'[r].kind = entries[r].kind
           /\ entries'[r].sendConfirmed = SendConfirmedNow(entries[r])
    BY <1>3 DEF Sweep, Entry
  <1>5. \A r \in DOMAIN entries : ~Done(entries[r]) => r \in DOMAIN entries'
    BY DEF Sweep
  <1>6. ASSUME NEW i \in Sends PROVE LedgerOf(i)'
    <2>1. PICK r \in RequestIds : r = issued[i].request
      BY WayType
    <2>2. PICK rec \in Seq(ConfirmFrame), out \in Seq(ConfirmFrame) :
               rec = received[i] /\ out = outbound
      BY WayType
    <2>3. PICK P \in Seq(ConfirmFrame) : P = rec \o out
      <3>1. rec \o out \in Seq(ConfirmFrame)
        OBVIOUS
      <3> QED BY <3>1
    <2>4. OnTheWay(i) = P
      <3>1. OnTheWay(i) = P \o <<>>
        BY <1>2, <2>1, <2>2, <2>3 DEF OnTheWay
      <3> QED BY <3>1
    <2>5. OnTheWay(i)' = P \o outbox'[r]
      BY <1>1, <2>1, <2>2, <2>3 DEF OnTheWay
    <2>6. /\ Draws(P, i, Said(i)) /\ (DropOldest \/ Lists(P, i, Said(i)))
          /\ Said(i) \in Seq(ConfirmFrame) /\ AllOf(i, Said(i))
      BY <2>4, SaidType DEF LedgerInv, Ledger, LedgerOf
    <2>7. P \o <<>> = P
      OBVIOUS
    <2>8. \A c \in ConfirmFrame : P \o <<c>> = Append(P, c)
      BY AppendIsConcat
    <2>9. \A c, d \in ConfirmFrame : P \o (<<c>> \o <<d>>) = Append(Append(P, c), d)
      <3> SUFFICES ASSUME NEW c \in ConfirmFrame, NEW d \in ConfirmFrame
                   PROVE  P \o (<<c>> \o <<d>>) = Append(Append(P, c), d)
        OBVIOUS
      <3>1. <<c>> \in Seq(ConfirmFrame) /\ <<d>> \in Seq(ConfirmFrame) /\ Append(P, c) \in Seq(ConfirmFrame)
        OBVIOUS
      <3>2. (P \o <<c>>) \o <<d>> = P \o (<<c>> \o <<d>>)
        BY <3>1, ConcatAssociative
      <3>3. P \o <<c>> = Append(P, c) /\ Append(P, c) \o <<d>> = Append(Append(P, c), d)
        BY <3>1, AppendIsConcat
      <3> QED BY <3>2, <3>3
    <2>10. Entitled(i)' = Entitled(i)
      BY <1>1 DEF Entitled
    <2>11. CASE r \notin DOMAIN entries
      <3>1. outbox'[r] = <<>>
        BY <2>11 DEF Sweep
      <3>2. Said(i)' = Said(i)
        BY <1>1, <1>4, <2>1, <2>10, <2>11 DEF Said, Tracked
      <3> QED BY <2>4, <2>5, <2>6, <2>7, <3>1, <3>2 DEF LedgerOf
    <2>12. CASE r \in DOMAIN entries /\ entries[r].send # i
      <3>1. outbox'[r] = Owes(entries[r])
        BY <2>12 DEF Sweep
      <3>2. Said(i)' = Said(i)
        BY <1>1, <1>4, <2>1, <2>10, <2>12 DEF Said, Tracked
      <3>3. /\ Draws(P \o Owes(entries[r]), i, Said(i))
            /\ DropOldest \/ Lists(P \o Owes(entries[r]), i, Said(i))
        <4>1. CASE Owes(entries[r]) = <<>>
          BY <2>6, <2>7, <4>1
        <4>2. ASSUME NEW c \in ConfirmFrame, c.send = entries[r].send, Owes(entries[r]) = <<c>>
              PROVE  /\ Draws(P \o Owes(entries[r]), i, Said(i))
                     /\ DropOldest \/ Lists(P \o Owes(entries[r]), i, Said(i))
          BY <2>6, <2>8, <2>12, <4>2, AppendsForeign
        <4>3. ASSUME NEW c \in ConfirmFrame, NEW d \in ConfirmFrame, c.send = entries[r].send,
                     d.send = entries[r].send, Owes(entries[r]) = <<c>> \o <<d>>
              PROVE  /\ Draws(P \o Owes(entries[r]), i, Said(i))
                     /\ DropOldest \/ Lists(P \o Owes(entries[r]), i, Said(i))
          <5>1. /\ Append(P, c) \in Seq(ConfirmFrame)
                /\ Draws(Append(P, c), i, Said(i)) /\ (DropOldest \/ Lists(Append(P, c), i, Said(i)))
            BY <2>6, <2>12, <4>3, AppendsForeign
          <5>2. /\ Draws(Append(Append(P, c), d), i, Said(i))
                /\ DropOldest \/ Lists(Append(Append(P, c), d), i, Said(i))
            BY <2>6, <2>12, <4>3, <5>1, AppendsForeign
          <5> QED BY <2>9, <4>3, <5>2
        <4>4. TrackerOK /\ entries[r] \in Entry
          BY <1>3, <2>12 DEF TypeOK
        <4> QED BY <4>1, <4>2, <4>3, <4>4, OwesShape
      <3> QED BY <2>5, <3>1, <3>2, <3>3 DEF LedgerOf
    <2>13. CASE r \in DOMAIN entries /\ entries[r].send = i
      <3>1. outbox'[r] = Owes(entries[r]) /\ Tracked(i) /\ issued[i].at # "admitted"
        BY <1>3, <2>1, <2>13 DEF Sweep, Tracked, EntryHome
      <3>2. /\ Draws(P \o Owes(entries[r]), i, Said(i)')
            /\ DropOldest \/ Lists(P \o Owes(entries[r]), i, Said(i)')
        <4>1. CASE Owes(entries[r]) = <<>> /\ Said(i)' = Said(i)
          BY <2>6, <2>7, <4>1
        <4>2. ASSUME NEW c \in ConfirmFrame, Owes(entries[r]) = <<c>>, Adds(i, Said(i), Said(i)', c)
              PROVE  /\ Draws(P \o Owes(entries[r]), i, Said(i)')
                     /\ DropOldest \/ Lists(P \o Owes(entries[r]), i, Said(i)')
          <5>1. /\ Draws(Append(P, c), i, Said(i)')
                /\ DropOldest \/ Lists(Append(P, c), i, Said(i)')
            BY <2>6, <4>2, AppendsNext
          <5> QED BY <2>8, <4>2, <5>1
        <4>3. ASSUME NEW c \in ConfirmFrame, NEW d \in ConfirmFrame, Owes(entries[r]) = <<c>> \o <<d>>,
                     Adds(i, Said(i), <<c>>, c), Adds(i, <<c>>, Said(i)', d)
              PROVE  /\ Draws(P \o Owes(entries[r]), i, Said(i)')
                     /\ DropOldest \/ Lists(P \o Owes(entries[r]), i, Said(i)')
          <5>1. PICK u \in Seq(ConfirmFrame) : u = <<c>>
            <6>1. <<c>> \in Seq(ConfirmFrame)
              OBVIOUS
            <6> QED BY <6>1
          <5>2. /\ Append(P, c) \in Seq(ConfirmFrame)
                /\ Draws(Append(P, c), i, u) /\ (DropOldest \/ Lists(Append(P, c), i, u))
            BY <2>6, <4>3, <5>1, AppendsNext
          <5>3. Adds(i, u, Said(i)', d)
            BY <4>3, <5>1
          <5>4. /\ Draws(Append(Append(P, c), d), i, Said(i)')
                /\ DropOldest \/ Lists(Append(Append(P, c), d), i, Said(i)')
            BY <5>2, <5>3, AppendsNext
          <5> QED BY <2>9, <4>3, <5>4
        <4> QED BY <2>1, <3>1, <4>1, <4>2, <4>3, SweepSays
      <3> QED BY <2>5, <3>1, <3>2 DEF LedgerOf
    <2> QED BY <2>11, <2>12, <2>13
  <1>7. EntriesHome'
    <2> SUFFICES ASSUME NEW r \in DOMAIN entries' PROVE EntryHome(r)'
      BY DEF EntriesHome
    <2>1. /\ r \in DOMAIN entries /\ ~Done(entries[r])
          /\ entries'[r].send = entries[r].send /\ entries'[r].kind = entries[r].kind
          /\ entries'[r].sendConfirmed = SendConfirmedNow(entries[r])
      BY <1>4
    <2>2. EntryHome(r)
      BY <1>3, <2>1
    <2>3. SendConfirmedNow(entries[r])
          => entries[r].kind = "UnicastApsAck" /\ slots[entries[r].send].handedOff = "Ok"
      BY <2>1, <2>2 DEF EntryHome, SendConfirmedNow, Done, FailedNow, HandoffFrames
    <2> QED BY <1>1, <2>1, <2>2, <2>3 DEF EntryHome
  <1>8. UntrackedDone'
    <2> SUFFICES ASSUME NEW i \in Sends
                 PROVE  /\ issued[i].at = "admitted" => issued[i].request \notin DOMAIN entries'
                        /\ ~Live(i)' => slots[i].delivered # NotYet
      BY <1>1 DEF UntrackedDone
    <2>1. issued[i].at = "admitted" => issued[i].request \notin DOMAIN entries'
      BY <1>4 DEF LedgerInv, UntrackedDone
    <2>2. ASSUME ~Live(i)' PROVE slots[i].delivered # NotYet
      <3>1. CASE ~Live(i)
        BY <3>1 DEF LedgerInv, UntrackedDone
      <3>2. CASE Live(i)
        <4>1. Tracked(i) /\ Done(entries[issued[i].request])
          BY <1>1, <1>4, <1>5, <2>2, <3>2 DEF Live, Tracked
        <4>2. entries[issued[i].request].send = i
          BY <4>1 DEF Tracked
        <4> QED BY <4>1, <4>2
               DEF Done, FailedNow, HandoffFrames, FinalFrames, LedgerInv, VerdictsInOrder
      <3> QED BY <3>1, <3>2
    <2> QED BY <2>1, <2>2
  <1>9. OneLive' /\ VerdictsInOrder'
    BY <1>1 DEF LedgerInv, OneLive, Complete, VerdictsInOrder
  <1>10. FramesHome'
    <2>1. ASSUME NEW r \in RequestIds, NEW k \in DOMAIN outbox'[r]
          PROVE  issued[outbox'[r][k].send].request = r
      <3>1. CASE r \in DOMAIN entries
        <4>1. outbox'[r] = Owes(entries[r]) /\ TrackerOK /\ entries[r] \in Entry
          BY <1>3, <3>1 DEF Sweep, TypeOK
        <4>2. /\ Owes(entries[r]) \in Seq(ConfirmFrame)
              /\ \A n \in 1 .. Len(Owes(entries[r])) : Owes(entries[r])[n].send = entries[r].send
          BY <4>1, OwesType
        <4>3. DOMAIN outbox'[r] = 1 .. Len(Owes(entries[r]))
          BY <4>1, <4>2
        <4>4. outbox'[r][k].send = entries[r].send
          BY <2>1, <4>1, <4>2, <4>3
        <4> QED BY <1>3, <3>1, <4>4 DEF EntryHome
      <3>2. CASE r \notin DOMAIN entries
        <4>1. outbox'[r] = <<>>
          BY <3>2 DEF Sweep
        <4> QED BY <2>1, <4>1
      <3> QED BY <3>1, <3>2
    <2> QED BY <1>1, <2>1 DEF LedgerInv, FramesHome, AllOf
  <1> QED BY <1>1, <1>6, <1>7, <1>8, <1>9, <1>10 DEF LedgerInv, Ledger

LEMMA LedgerStep == TypeOK /\ LedgerInv /\ [Next]_vars => LedgerInv'
  <1> SUFFICES ASSUME TypeOK, LedgerInv, [Next]_vars PROVE LedgerInv'
    OBVIOUS
  <1>1. ASSUME NEW i \in Sends, Resolves(i)
        PROVE  LedgerInv'
    BY <1>1, LedgerByWrite, TrackerAssumption DEF Resolves, HandsOff, Settles
  <1>2. ASSUME NEW r \in RequestIds, CancelRequest(r)
        PROVE  LedgerInv'
    <2>1. entries[r].send \in Sends /\ "Cancelled" \in Stack!Results
      BY <1>2 DEF CancelRequest, TypeOK, TrackerOK, Entry, Stack!Results, Stack!Failures
    <2> QED BY <1>2, <2>1, LedgerByWrite DEF CancelRequest
  <1>3. CASE Reacts
    BY <1>3, LedgerBySweep, LedgerByEmit, LedgerByQuiet DEF Reacts
  <1>4. ASSUME NEW i \in Sends, Handles(i)
        PROVE  LedgerInv'
    BY <1>4, LedgerByInsert, LedgerByQuiet DEF Handles
  <1> QED BY <1>1, <1>2, <1>3, <1>4, LedgerByIssue, LedgerByQuiet, LedgerByDelivery DEF Next

LEMMA InitLedger == Init => LedgerInv
  <1> SUFFICES ASSUME Init PROVE LedgerInv
    OBVIOUS
  <1>1. Sends = {} /\ DOMAIN entries = {} /\ \A r \in RequestIds : outbox[r] = <<>>
    BY DEF Init, Sends
  <1> QED BY <1>1 DEF LedgerInv, VerdictsInOrder, EntriesHome, UntrackedDone, OneLive, FramesHome, Ledger

\* What was said of a send is a beginning of what its client is entitled to.
LEMMA SaidIsPrefix ==
    ASSUME TypeOK, LedgerInv, NEW i \in Sends
    PROVE  \E n \in 0 .. Len(Entitled(i)) : Said(i) = SubSeq(Entitled(i), 1, n)
  <1>1. PICK s \in Seq(ConfirmFrame) : s = Entitled(i)
    BY EntitledType
  <1>2. SubSeq(s, 1, 0) = <<>> /\ SubSeq(s, 1, Len(s)) = s /\ 0 \in 0 .. Len(s) /\ Len(s) \in 0 .. Len(s)
    OBVIOUS
  <1>3. CASE Said(i) = <<>> \/ Said(i) = Entitled(i)
    BY <1>1, <1>2, <1>3
  <1>4. CASE Said(i) # <<>> /\ Said(i) # Entitled(i)
    <2> DEFINE ok == Confirm(i, "SendConfirm", "Ok")
    <2>1. /\ Said(i) = <<ok>> /\ Tracked(i) /\ entries[issued[i].request].sendConfirmed
      BY <1>4 DEF Said
    <2>2. issued[i].kind = "UnicastApsAck" /\ slots[i].handedOff = "Ok"
      BY <2>1 DEF Tracked, LedgerInv, EntriesHome, EntryHome
    <2>3. ok \in ConfirmFrame
      BY DEF Confirm, ConfirmFrame, Stack!Results, Sends, TypeOK, TrackerOK
    <2>4. \E t \in Seq(ConfirmFrame) : Entitled(i) = <<ok>> \o t
      <3> DEFINE a == Confirm(i, "ApsAckConfirm", slots[i].delivered)
      <3>1. slots[i].delivered # NotYet => a \in ConfirmFrame
        BY DEF Confirm, ConfirmFrame, Verdict, Sends, TypeOK, TrackerOK
      <3>2. Entitled(i) = <<ok>> \o (IF slots[i].delivered = NotYet THEN <<>> ELSE <<a>>)
        BY <2>2 DEF Entitled, NotYet, Stack!NotYet
      <3> HIDE DEF a, ok
      <3>3. (IF slots[i].delivered = NotYet THEN <<>> ELSE <<a>>) \in Seq(ConfirmFrame)
        BY <3>1
      <3> QED BY <3>2, <3>3
    <2> HIDE DEF ok
    <2>5. PICK t \in Seq(ConfirmFrame) : s = <<ok>> \o t
      BY <1>1, <2>4
    <2>6. Len(s) = 1 + Len(t) /\ s[1] = ok /\ Len(t) \in Nat
      BY <2>3, <2>5
    <2>7. SubSeq(s, 1, 1) = <<ok>>
      <3>1. /\ SubSeq(s, 1, 1) \in Seq(ConfirmFrame) /\ Len(SubSeq(s, 1, 1)) = 1
            /\ SubSeq(s, 1, 1)[1] = s[1]
        BY <2>6
      <3>2. <<ok>> \in Seq(ConfirmFrame) /\ Len(<<ok>>) = 1 /\ <<ok>>[1] = ok
        BY <2>3
      <3>3. \A k \in 1 .. 1 : SubSeq(s, 1, 1)[k] = <<ok>>[k]
        BY <2>6, <3>1, <3>2
      <3> QED BY <3>1, <3>2, <3>3, SeqEqual
    <2>8. 1 \in 0 .. Len(s)
      BY <2>6
    <2> QED BY <1>1, <2>1, <2>7, <2>8
  <1> QED BY <1>3, <1>4

\* A send the client was told is cancelled is settled as such.
CancelSettled == \A i \in cancelled : slots[i].delivered = "Cancelled"

LEMMA CancelStep == TypeOK /\ CancelSettled /\ [Next]_vars => CancelSettled'
  <1> SUFFICES ASSUME TypeOK, CancelSettled, [Next]_vars, NEW i \in cancelled'
               PROVE  slots'[i].delivered = "Cancelled"
    BY DEF CancelSettled
  <1>0. cancelled \subseteq Sends /\ DOMAIN slots = Sends
    BY DEF TypeOK, TrackerOK
  <1>1. ASSUME NEW j \in Sends, NEW result, Stack!Settle(j, result), i \in cancelled
        PROVE  slots'[i].delivered = "Cancelled"
    <2>1. i # j /\ i \in DOMAIN slots
      BY <1>0, <1>1 DEF CancelSettled, Stack!Settle, Stack!NotYet
    <2> QED BY <1>1, <2>1 DEF Stack!Settle, CancelSettled
  <1>2. ASSUME NEW j \in Sends, Stack!HandOff(j), i \in cancelled
        PROVE  slots'[i].delivered = "Cancelled"
    <2>1. i # j /\ i \in DOMAIN slots
      BY <1>0, <1>2 DEF CancelSettled, Stack!HandOff, Stack!Open, Stack!NotYet
    <2> QED BY <1>2, <2>1 DEF Stack!HandOff, CancelSettled
  <1>3. ASSUME NEW j \in Sends, Resolves(j)
        PROVE  slots'[i].delivered = "Cancelled"
    BY <1>1, <1>2, <1>3 DEF Resolves, HandsOff, Settles
  <1>4. ASSUME NEW r \in RequestIds, CancelRequest(r)
        PROVE  slots'[i].delivered = "Cancelled"
    <2>1. entries[r].send \in Sends
      BY <1>4 DEF CancelRequest, TypeOK, TrackerOK, Entry
    <2>2. CASE i = entries[r].send
      BY <1>0, <1>4, <2>1, <2>2 DEF CancelRequest, Stack!Settle, TypeOK, TrackerOK
    <2>3. CASE i # entries[r].send
      BY <1>1, <1>4, <2>1, <2>3 DEF CancelRequest
    <2> QED BY <2>2, <2>3
  <1>5. ASSUME NEW r \in RequestIds, NEW kind \in Requested, Issue(r, kind)
        PROVE  slots'[i].delivered = "Cancelled"
    <2>1. i \in Sends /\ nextId \notin Sends
      BY <1>0, <1>5 DEF Issue, Sends, TypeOK, TrackerOK
    <2> QED BY <1>0, <1>5, <2>1 DEF Issue, Stack!Admit, CancelSettled
  <1>6. CASE UNCHANGED <<slots, cancelled>>
    BY <1>6 DEF CancelSettled
  <1> QED BY <1>3, <1>4, <1>5, <1>6
         DEF Next, Handles, Insert, SelfNotify, Notifies, Reacts, Wakes, Sweep, Emit, Rests, Delivers,
             client, vars

\* The last confirm of a cancelled send says so.
LEMMA CancelHolds == TypeOK /\ LedgerInv /\ CancelSettled => CancelIsFinal
  <1> SUFFICES ASSUME TypeOK, LedgerInv, CancelSettled, NEW i \in cancelled,
                      Complete(issued[i].kind, received[i])
               PROVE  received[i][Len(received[i])].status = "Cancelled"
    BY DEF CancelIsFinal
  <1>1. i \in Sends /\ slots[i].delivered = "Cancelled"
    BY DEF CancelSettled, TypeOK, TrackerOK
  <1>2. ~Live(i)
    BY <1>1, LiveIncomplete
  <1>3. Said(i) = Entitled(i)
    BY <1>2 DEF Said, Live
  <1>4. PICK rec \in Seq(ConfirmFrame), n \in Nat \ {0} :
             rec = received[i] /\ n = Len(rec) /\ rec # <<>>
    <2>1. received[i] \in Seq(ConfirmFrame) /\ received[i] # <<>>
      BY <1>1, WayType DEF Complete
    <2> QED BY <2>1
  <1>5. \A p \in 1 .. n :
           /\ p \in DOMAIN OnTheWay(i) /\ OnTheWay(i)[p] = rec[p] /\ OnTheWay(i)[p].send = i
    BY <1>1, <1>4, WayType DEF LedgerInv, FramesHome, AllOf
  <1>6. Draws(OnTheWay(i), i, Entitled(i))
    BY <1>1, <1>3 DEF LedgerInv, Ledger, LedgerOf
  <1>7. PICK k \in DOMAIN Entitled(i) : rec[n] = Entitled(i)[k]
    BY <1>4, <1>5, <1>6 DEF Draws
  <1>8. slots[i].handedOff \in {"Ok", "Cancelled"}
    BY <1>1 DEF LedgerInv, VerdictsInOrder, NotYet, Stack!NotYet
  <1> DEFINE h == Confirm(i, "SendConfirm", slots[i].handedOff)
             a == Confirm(i, "ApsAckConfirm", slots[i].delivered)
             g == Confirm(i, FinalFrame(issued[i].kind), slots[i].delivered)
  <1>9. /\ h.status = slots[i].handedOff /\ a.status = "Cancelled" /\ g.status = "Cancelled"
    BY <1>1 DEF Confirm
  <1>10. CASE issued[i].kind = "UnicastApsAck" /\ slots[i].handedOff = "Ok"
    <2>1. Entitled(i) = <<h>> \o <<a>> /\ h \in ConfirmFrame /\ a \in ConfirmFrame
      BY <1>1, <1>10
         DEF Entitled, NotYet, Stack!NotYet, Confirm, ConfirmFrame, Sends, TypeOK, TrackerOK,
             Stack!Results, Stack!Failures
    <2>2. Entitled(i) = Append(<<h>>, a)
      <3> HIDE DEF h, a
      <3>1. <<h>> \in Seq(ConfirmFrame)
        BY <2>1
      <3> QED BY <2>1, <3>1, AppendIsConcat
    <2>3. DOMAIN Entitled(i) = {1, 2} /\ Entitled(i)[1] = h /\ Entitled(i)[2] = a
      <3> HIDE DEF h, a
      <3> QED BY <2>1, <2>2
    <2>4. k # 1
      <3> SUFFICES ASSUME k = 1 PROVE FALSE
        OBVIOUS
      <3>1. rec[n].status = "Ok"
        BY <1>7, <1>9, <1>10, <2>3
      <3>2. CASE n = 1
        BY <1>4, <1>10, <3>1, <3>2 DEF Complete
      <3>3. CASE n # 1
        <4>1. n - 1 \in 1 .. n /\ n - 1 < n /\ n \in 1 .. n
          BY <3>3
        <4>2. PICK l \in DOMAIN Entitled(i) : rec[n - 1] = Entitled(i)[l]
          BY <1>5, <1>6, <4>1 DEF Draws
        <4>3. l < k
          BY <1>5, <1>6, <1>7, <4>1, <4>2 DEF Draws
        <4> QED BY <2>3, <4>2, <4>3
      <3> QED BY <3>2, <3>3
    <2> QED BY <1>4, <1>7, <1>9, <2>3, <2>4
  <1>11. CASE issued[i].kind = "UnicastApsAck" /\ slots[i].handedOff = "Cancelled"
    <2>1. Entitled(i) = <<h>> \o <<>>
      BY <1>11 DEF Entitled, NotYet, Stack!NotYet
    <2>2. DOMAIN Entitled(i) = {1} /\ Entitled(i)[1] = h
      <3> HIDE DEF h
      <3> QED BY <2>1
    <2> QED BY <1>4, <1>7, <1>9, <1>11, <2>2
  <1>12. CASE issued[i].kind # "UnicastApsAck"
    <2>1. Entitled(i) = <<g>>
      BY <1>1, <1>12 DEF Entitled, NotYet, Stack!NotYet
    <2> QED BY <1>4, <1>7, <1>9, <2>1
  <1> QED BY <1>8, <1>10, <1>11, <1>12

-----------------------------------------------------------------------------
(* The theorems *)

\* For any number of requests and sends, every confirm on its way names a send that was
\* issued and carries one of the stack's verdicts, never an unresolved status.
THEOREM TrackerTypes == Spec => []TypeOK
  <1>1. Init => TypeOK
    BY InitOK
  <1> QED BY <1>1, TypeStep, PTL DEF Spec

\* For any number of requests, sends and verdicts, the reactor never rests while an entry
\* owes a frame, unless a wake is on its way: insert's self-notification closes the race
\* with a verdict written before the wake was registered.
THEOREM NoWakeLost == Spec => []NoConfirmForgotten
  <1> DEFINE IInv == TypeOK /\ EntriesWatched /\ NoConfirmForgotten
  <1>1. Init => IInv
    BY InitOK
  <1>2. IInv /\ [Next]_vars => IInv'
    BY TypeStep, WakeStep
  <1> QED BY <1>1, <1>2, PTL DEF Spec

\* On a connection of the server, whose queue drops nothing, each send's confirms reach the
\* client once, in order and with the verdicts of its slot, for any number of requests,
\* sends, reused request ids and queue depths, and however the sweeps coalesce the wakes.
THEOREM ConfirmsOnceInOrder == Spec => [](~DropOldest => ConfirmsExact)
  <1> DEFINE IInv == TypeOK /\ LedgerInv
  <1>1. Init => IInv
    BY InitOK, InitLedger
  <1>2. IInv /\ [Next]_vars => IInv'
    BY TypeStep, LedgerStep
  <1>3. IInv => (~DropOldest => ConfirmsExact)
    BY SaidIsPrefix DEF LedgerInv, Ledger, LedgerOf, ConfirmsExact
  <1> QED BY <1>1, <1>2, <1>3, PTL DEF Spec

\* A client that was told its send is cancelled gets no other final status, on the server
\* and on the NCP, whose full queue drops confirms.
THEOREM CancelsAreFinal == Spec => []CancelIsFinal
  <1> DEFINE IInv == TypeOK /\ LedgerInv /\ CancelSettled
  <1>1. Init => IInv
    BY InitOK, InitLedger DEF Init, CancelSettled
  <1>2. IInv /\ [Next]_vars => IInv'
    BY TypeStep, LedgerStep, CancelStep
  <1> QED BY <1>1, <1>2, CancelHolds, PTL DEF Spec
=============================================================================
