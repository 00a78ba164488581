--------------------------- MODULE ChildrenProofs ---------------------------
(***************************************************************************)
(* Theorems about Children, for every network.                              *)
(*                                                                          *)
(* The address map keeps one owner per network address: inductive as it      *)
(* stands, each operation of the map is a lemma, and every action changes    *)
(* the map by one of them or not at all.  No frame awaits the poll of a      *)
(* device that is gone: inductive as it stands too.  No child outlives its   *)
(* deadline and no conflict goes unreported: what each of the two tasks      *)
(* sleeps on is the invariant, never longer than what it is owed to.         *)
(***************************************************************************)
EXTENDS Children, WellFoundedInduction, TLAPS

\* A map in which no two devices share an address.
Injects(m) == \A d, e \in DOMAIN m : m[d] = m[e] => d = e

\* AddressMap::update_mapping records an address only when no other device holds it.
LEMMA UpdateKeepsOwner ==
    ASSUME Injects(map), NEW d, NEW n
    PROVE  Injects(UpdateMapping(d, n))
<1>1. CASE ClaimedByOther(n, d)
  BY <1>1 DEF UpdateMapping
<1>2. CASE ~ClaimedByOther(n, d)
  <2>1. \A e \in DOMAIN map : map[e] = n => e = d
    BY <1>2 DEF ClaimedByOther, Owners
  <2>2. UpdateMapping(d, n) = [e \in DOMAIN map \cup {d} |-> IF e = d THEN n ELSE map[e]]
    BY <1>2 DEF UpdateMapping, Recorded
  <2>. QED
    BY <2>1, <2>2 DEF Injects
<1>. QED
  BY <1>1, <1>2

\* AddressMap::claim evicts the other owners before it records the claimant.
LEMMA ClaimKeepsOwner ==
    ASSUME Injects(map), NEW d, NEW n
    PROVE  Injects(Claim(d, n))
<1>1. \A e \in DOMAIN map \ Owners(n) : map[e] # n
  BY DEF Owners
<1>. QED
  BY <1>1 DEF Claim, Injects

\* AddressMap::forget_address only removes.
LEMMA ForgetKeepsOwner ==
    ASSUME Injects(map), NEW n
    PROVE  Injects(Forget(n))
BY DEF Forget, Restrict, Injects

\* handle_address_conflict leaves the map alone or forgets the address.
LEMMA ConflictKeepsOwner ==
    ASSUME Injects(map), NEW n, NEW source, NEW t, NEW q, NEW j,
           HandleConflict(n, source, t, q, j)
    PROVE  Injects(map')
BY ForgetKeepsOwner DEF HandleConflict

\* update_nwk_eui64_mapping records the address or handles the conflict.
LEMMA LearningKeepsOwner ==
    ASSUME Injects(map), NEW d, NEW n, NEW t, NEW q, NEW j, Learns(d, n, t, q, j)
    PROVE  Injects(map')
BY UpdateKeepsOwner, ConflictKeepsOwner DEF Learns

LEMMA StepKeepsOwner ==
    ASSUME Injects(map), [Next]_vars
    PROVE  Injects(map')
<1>1. CASE UNCHANGED vars
  BY <1>1 DEF vars, parts
<1>2. CASE Report
  BY <1>2 DEF Report, parts
<1>3. CASE Evict
  BY <1>3 DEF Evict, Drop
<1>4. CASE Stop
  BY <1>4 DEF Stop, Injects
<1>5. CASE Start
  BY <1>5 DEF Start, parts
<1>6. CASE Tick
  BY <1>6 DEF Tick
<1>7. ASSUME NEW n \in Addresses, HostSend(n)
      PROVE  Injects(map')
  BY <1>7 DEF HostSend
<1>8. ASSUME NEW n \in Announceable, HearConflict(n) \/ AnnounceUnknown(n)
      PROVE  Injects(map')
  BY <1>8, ConflictKeepsOwner, ForgetKeepsOwner DEF HearConflict, AnnounceUnknown
<1>9. ASSUME NEW j \in joins, QueueResponse(j) \/ \E delivered \in BOOLEAN : DeliverKey(j, delivered)
      PROVE  Injects(map')
  BY <1>9 DEF QueueResponse, DeliverKey
<1>10. ASSUME NEW f \in queue, Expire(f)
       PROVE  Injects(map')
  BY <1>10 DEF Expire
<1>11. ASSUME NEW d \in Devices \cup {Us}, Hear(d)
       PROVE  Injects(map')
  <2>1. PICK n : Learns(d, n, table, queue, joins)
    BY <1>11 DEF Hear
  <2>. QED
    BY <2>1, LearningKeepsOwner
<1>12. ASSUME NEW d \in Devices, Leave(d) \/ \E n \in Addresses : Move(d, n)
       PROVE  Injects(map')
  BY <1>12 DEF Leave, Move, parts
<1>13. ASSUME NEW d \in Devices, Announce(d)
       PROVE  Injects(map')
  BY <1>13, ClaimKeepsOwner DEF Announce
<1>14. ASSUME NEW d \in Devices, UpdateDevice(d)
       PROVE  Injects(map')
  <2>1. PICK n, t, q : Learns(d, n, t, q, joins)
    BY <1>14 DEF UpdateDevice
  <2>. QED
    BY <2>1, LearningKeepsOwner
<1>15. ASSUME NEW d \in Devices, LoadAddress(d) \/ LoadChild(d)
       PROVE  Injects(map')
  BY <1>15, UpdateKeepsOwner DEF LoadAddress, LoadChild
<1>16. ASSUME NEW d \in Devices, NEW permitted \in BOOLEAN, Associate(d, permitted)
       PROVE  Injects(map')
  BY <1>16, LearningKeepsOwner DEF Associate
<1>17. ASSUME NEW d \in Devices, NEW secured \in BOOLEAN, Rejoin(d, secured)
       PROVE  Injects(map')
  BY <1>17, LearningKeepsOwner DEF Rejoin, parts
<1>18. ASSUME NEW d \in Devices, NEW short \in BOOLEAN, Poll(d, short)
       PROVE  Injects(map')
  BY <1>18 DEF Poll, Extract
<1>19. ASSUME NEW d \in Devices, NEW timeout \in Timeouts, RequestTimeout(d, timeout)
       PROVE  Injects(map')
  BY <1>19 DEF RequestTimeout
<1>20. ASSUME NEW S \in SUBSET End \ {{}},
              ParentAnnounced(S) \/ ParentAnswered(S) \/ AnnounceChildren(S)
       PROVE  Injects(map')
  BY <1>20 DEF ParentAnnounced, ParentAnswered, AnnounceChildren, Drop, parts
<1>. QED
  BY <1>1, <1>2, <1>3, <1>4, <1>5, <1>6, <1>7, <1>8, <1>9, <1>10, <1>11, <1>12, <1>13, <1>14,
     <1>15, <1>16, <1>17, <1>18, <1>19, <1>20 DEF Next

-----------------------------------------------------------------------------
(* Frames of devices that are gone *)

\* What awaits a poll for a device of the table, or is no frame of a child.
Homed(q, S) == \A f \in q : f.kind \in {"data", "rejoin"} => f.to \in S

LEMMA ConflictKeepsHomed ==
    ASSUME NEW n, NEW source, NEW t, NEW q, NEW j, HandleConflict(n, source, t, q, j), Homed(q, DOMAIN t)
    PROVE  Homed(queue', DOMAIN t)
<1>1. CASE queue' = q
  BY <1>1
<1>2. ASSUME NEW d \in ChildrenAt(t, n), NEW fresh, queue' = q \cup {Reassignment(d, fresh)}
      PROVE  Homed(queue', DOMAIN t)
  <2>1. Reassignment(d, fresh).to = d /\ d \in DOMAIN t
    BY DEF Reassignment, Frame, ChildrenAt
  <2>. QED
    BY <1>2, <2>1 DEF Homed
<1>. QED
  BY <1>1, <1>2 DEF HandleConflict, Queue

LEMMA LearningKeepsHomed ==
    ASSUME NEW d, NEW n, NEW t, NEW q, NEW j, Learns(d, n, t, q, j), Homed(q, DOMAIN t)
    PROVE  Homed(queue', DOMAIN t)
BY ConflictKeepsHomed DEF Learns, Queue

\* Removing a child with the frames that await it.
LEMMA DropKeepsHomed ==
    ASSUME Homed(queue, DOMAIN table), NEW S, NEW F, \A f \in queue \ F : f.to \notin S
    PROVE  Homed(queue \ F, DOMAIN Without(table, S))
<1>1. DOMAIN Without(table, S) = DOMAIN table \ S
  BY DEF Without, Restrict
<1>. QED
  BY <1>1 DEF Homed

LEMMA DropsKeepHomed ==
    ASSUME Homed(queue, DOMAIN table), NEW S, Drop(S)
    PROVE  Homed(queue', DOMAIN table')
<1>1. \A f \in queue \ UNION {Awaiting(d, table[d].nwk) : d \in S} : f.to \notin S
  BY DEF Awaiting
<1>. QED
  BY <1>1, DropKeepsHomed DEF Drop, Queue

LEMMA SameDomains ==
    /\ \A d : DOMAIN Refreshed(d) = DOMAIN table
    /\ \A d, timeout : DOMAIN Negotiated(d, timeout) = DOMAIN table
    /\ \A d, n : DOMAIN Renamed(d, n) = DOMAIN table
BY DEF Refreshed, Negotiated, Renamed

LEMMA UpsertDomain ==
    ASSUME NEW t, NEW d, NEW n, NEW timeout PROVE DOMAIN Upsert(t, d, n, timeout) = DOMAIN t \cup {d}
BY DEF Upsert

LEMMA StepKeepsHomed ==
    ASSUME Homed(queue, DOMAIN table), [Next]_vars
    PROVE  Homed(queue', DOMAIN table')
<1>1. CASE UNCHANGED <<queue, table>>
  BY <1>1
<1>2. CASE Evict \/ \E S \in SUBSET End : ParentAnnounced(S) \/ ParentAnswered(S)
  BY <1>2, DropsKeepHomed DEF Evict, ParentAnnounced, ParentAnswered
<1>3. CASE Stop
  BY <1>3 DEF Stop, Homed
<1>4. CASE Tick
  BY <1>4 DEF Tick
<1>5. ASSUME NEW n \in Addresses, HostSend(n)
      PROVE  Homed(queue', DOMAIN table')
  <2>1. PICK d \in ChildrenAt(table, n) : queue' = queue \cup {Frame(d, "data", d, n)}
    BY <1>5 DEF HostSend, Queue
  <2>2. Frame(d, "data", d, n).to = d /\ d \in DOMAIN table
    BY DEF Frame, ChildrenAt
  <2>. QED
    BY <1>5, <2>1, <2>2 DEF HostSend, Homed
<1>6. ASSUME NEW n \in Announceable, HearConflict(n)
      PROVE  Homed(queue', DOMAIN table')
  BY <1>6, ConflictKeepsHomed DEF HearConflict
<1>7. ASSUME NEW j \in joins, QueueResponse(j)
      PROVE  Homed(queue', DOMAIN table')
  <2>1. Frame(j.device, "assoc", j.device, j.nwk).kind = "assoc"
    BY DEF Frame
  <2>. QED
    BY <1>7, <2>1 DEF QueueResponse, Queue, Homed
<1>8. ASSUME NEW f \in queue, Expire(f)
      PROVE  Homed(queue', DOMAIN table')
  BY <1>8 DEF Expire, Queue, Homed
<1>9. ASSUME NEW d \in Devices \cup {Us}, Hear(d)
      PROVE  Homed(queue', DOMAIN table')
  <2>1. PICK n : Learns(d, n, table, queue, joins)
    BY <1>9 DEF Hear
  <2>. QED
    BY <1>9, <2>1, LearningKeepsHomed DEF Hear
<1>10. ASSUME NEW d \in Devices, Leave(d)
       PROVE  Homed(queue', DOMAIN table')
  <2>1. \A f \in queue \ Awaiting(d, addr[d]) : f.to \notin {d}
    BY DEF Awaiting
  <2>. QED
    BY <1>10, <2>1, DropKeepsHomed DEF Leave, Queue
<1>11. ASSUME NEW d \in Devices, Announce(d)
       PROVE  Homed(queue', DOMAIN table')
  BY <1>11, SameDomains DEF Announce
<1>12. ASSUME NEW d \in Devices, UpdateDevice(d)
       PROVE  Homed(queue', DOMAIN table')
  <2>. DEFINE S == {d} \cap DOMAIN table
              F == UNION {Awaiting(e, table[e].nwk) : e \in S}
  <2>1. table' = Without(table, S) /\ Learns(d, addr[d], table', queue \ F, joins)
    BY <1>12 DEF UpdateDevice
  <2>2. \A f \in queue \ F : f.to \notin S
    BY DEF Awaiting
  <2>3. Homed(queue \ F, DOMAIN table')
    BY <2>1, <2>2, DropKeepsHomed
  <2>. QED
    BY <2>1, <2>3, LearningKeepsHomed
<1>13. ASSUME NEW d \in Devices, LoadChild(d)
       PROVE  Homed(queue', DOMAIN table')
  <2>1. DOMAIN table' = DOMAIN table \cup {d} /\ queue' = queue
    BY <1>13, UpsertDomain DEF LoadChild
  <2>. QED
    BY <2>1 DEF Homed
<1>14. ASSUME NEW d \in Devices, NEW permitted \in BOOLEAN, Associate(d, permitted)
       PROVE  Homed(queue', DOMAIN table')
  <2>1. CASE Queue((queue \ Awaiting(d, NoAddr)) \cup {Frame(d, "denied", d, NoAddr)}, joins) /\ table' = table
    <3>1. Frame(d, "denied", d, NoAddr).kind = "denied"
      BY DEF Frame
    <3>. QED
      BY <2>1, <3>1 DEF Queue, Homed
  <2>2. ASSUME NEW n, NEW j, table' = Upsert(table, d, n, DefaultTimeout), Learns(d, n, table', queue, j)
        PROVE  Homed(queue', DOMAIN table')
    <3>0. DOMAIN table' = DOMAIN table \cup {d}
      BY <2>2, UpsertDomain
    <3>1. Homed(queue, DOMAIN table')
      BY <3>0 DEF Homed
    <3>. QED
      BY <2>2, <3>1, LearningKeepsHomed
  <2>. QED
    BY <1>14, <2>1, <2>2 DEF Associate
<1>15. ASSUME NEW d \in Devices, NEW secured \in BOOLEAN, Rejoin(d, secured)
       PROVE  Homed(queue', DOMAIN table')
  <2>1. CASE UNCHANGED parts
    BY <2>1 DEF parts
  <2>2. ASSUME NEW n, NEW j, table' = Upsert(table, d, n, DefaultTimeout), Learns(d, n, table', queue, j)
        PROVE  Homed(queue', DOMAIN table')
    <3>0. DOMAIN table' = DOMAIN table \cup {d}
      BY <2>2, UpsertDomain
    <3>1. Homed(queue, DOMAIN table')
      BY <3>0 DEF Homed
    <3>. QED
      BY <2>2, <3>1, LearningKeepsHomed
  <2>3. ASSUME NEW n, NEW j, NEW c \in ChildrenAt(table', addr[d]), table' = Upsert(table, d, n, DefaultTimeout),
               Learns(d, n, table', queue \cup {Frame(c, "rejoin", d, n)}, j)
        PROVE  Homed(queue', DOMAIN table')
    <3>1. Frame(c, "rejoin", d, n).to = c /\ c \in DOMAIN table'
      BY DEF Frame, ChildrenAt
    <3>0. DOMAIN table' = DOMAIN table \cup {d}
      BY <2>3, UpsertDomain
    <3>2. Homed(queue \cup {Frame(c, "rejoin", d, n)}, DOMAIN table')
      BY <3>0, <3>1 DEF Homed
    <3>. QED
      BY <2>3, <3>2, LearningKeepsHomed
  <2>. QED
    BY <1>15, <2>1, <2>2, <2>3 DEF Rejoin
<1>16. ASSUME NEW d \in Devices, NEW short \in BOOLEAN, Poll(d, short)
       PROVE  Homed(queue', DOMAIN table')
  <2>1. DOMAIN table' = DOMAIN table
    BY <1>16, SameDomains DEF Poll
  <2>2. \A f \in queue' : f \in queue \/ f.kind = "leave"
    <3>1. \/ \E f \in queue : queue' = queue \ {f}
          \/ queue' = queue
          \/ \E N : queue' = queue \cup {Frame(n, "leave", d, n) : n \in N}
      BY <1>16 DEF Poll, Extract, Queue
    <3>2. ASSUME NEW N, NEW f \in {Frame(n, "leave", d, n) : n \in N} PROVE f.kind = "leave"
      BY <3>2 DEF Frame
    <3>. QED
      BY <3>1, <3>2
  <2>. QED
    BY <2>1, <2>2 DEF Homed
<1>17. ASSUME NEW d \in Devices, NEW timeout \in Timeouts, RequestTimeout(d, timeout)
       PROVE  Homed(queue', DOMAIN table')
  BY <1>17, SameDomains DEF RequestTimeout
<1>18. CASE \/ UNCHANGED vars \/ Report \/ Start
            \/ (\E n \in Announceable : AnnounceUnknown(n))
            \/ (\E j \in joins, delivered \in BOOLEAN : DeliverKey(j, delivered))
            \/ (\E d \in Devices : LoadAddress(d) \/ \E n \in Addresses : Move(d, n))
            \/ (\E S \in SUBSET End : AnnounceChildren(S))
  <2>1. UNCHANGED <<queue, table>>
    BY <1>18 DEF vars, parts, Report, Start, AnnounceUnknown, DeliverKey, LoadAddress, Move, AnnounceChildren
  <2>. QED
    BY <1>1, <2>1
<1>. QED
  BY <1>2, <1>3, <1>4, <1>5, <1>6, <1>7, <1>8, <1>9, <1>10, <1>11, <1>12, <1>13, <1>14,
     <1>15, <1>16, <1>17, <1>18 DEF Next

-----------------------------------------------------------------------------
(* The tasks that sleep *)

LEMMA LeastIsLeast ==
    ASSUME NEW S \in SUBSET Nat, S # {}
    PROVE  Least(S) \in S /\ \A y \in S : Least(S) <= y
<1>. DEFINE R == OpToRel(<, Nat)
<1>1. IsWellFoundedOn(R, Nat)
  BY NatLessThanWellFounded
<1>2. \A x, y \in Nat : x < y => <<x, y>> \in R
  BY DEF OpToRel
<1>. HIDE DEF R
<1>3. PICK x \in S : \A y \in S : ~(<<y, x>> \in R)
  BY <1>1, WFMin
<1>4. ASSUME NEW y \in S PROVE x <= y
  <2>1. x \in Nat /\ y \in Nat
    OBVIOUS
  <2>2. ~(y < x)
    BY <1>2, <1>3, <2>1
  <2>. QED
    BY <2>1, <2>2
<1>. QED
  BY <1>3, <1>4 DEF Least

LEMMA Deadlines ==
    /\ Never \in Nat /\ DefaultTimeout \in 0 .. Never - 1 /\ RestoredTimeout \in 0 .. Never - 1
    /\ Timeouts \subseteq 0 .. Never - 1
    /\ Jitter \in Nat /\ Jitter < Never /\ Window \in Nat /\ Jitter <= Window
BY ChildrenAssumption

\* An entry of the neighbour table: its deadline is never further away than its timeout.
EntryOK(e) ==
    /\ e \in [nwk : {e.nwk}, timeout : 0 .. Never - 1, left : Nat, heard : BOOLEAN]
    /\ e.left <= e.timeout

\* child_timeout_task: unless it was woken, it sleeps no longer than any child has left.
KeeperInv ==
    /\ \A d \in DOMAIN table : EntryOK(table[d])
    /\ keeper \in Nat /\ keeperWake \in BOOLEAN
    /\ ~keeperWake => \A d \in DOMAIN table \cap End : keeper <= table[d].left
    /\ ~running => keeper = 0

\* Entries may go, and get more time.
LEMMA KeeperFrame ==
    ASSUME KeeperInv, keeper' = keeper, keeperWake' \in BOOLEAN, keeperWake => keeperWake',
           running' = running, DOMAIN table' \subseteq DOMAIN table,
           \A d \in DOMAIN table' : EntryOK(table'[d]) /\ table[d].left <= table'[d].left
    PROVE  KeeperInv'
<1>1. ASSUME ~keeperWake', NEW d \in DOMAIN table' \cap End PROVE keeper' <= table'[d].left
  <2>1. keeper <= table[d].left /\ table[d].left <= table'[d].left
    BY <1>1 DEF KeeperInv
  <2>2. keeper \in Nat /\ table[d].left \in Nat /\ table'[d].left \in Nat
    BY DEF KeeperInv, EntryOK
  <2>. QED
    BY <2>1, <2>2
<1>. QED
  BY <1>1 DEF KeeperInv

\* A step that wakes the task may set any deadline.
LEMMA KeeperWoken ==
    ASSUME KeeperInv, keeper' = keeper, keeperWake' = TRUE, running' = running,
           \A d \in DOMAIN table' : EntryOK(table'[d])
    PROVE  KeeperInv'
BY DEF KeeperInv

LEMMA SmallerTable ==
    ASSUME KeeperInv, NEW S, UNCHANGED <<keeper, keeperWake, running>>, table' = Without(table, S)
    PROVE  KeeperInv'
<1>1. DOMAIN table' \subseteq DOMAIN table /\ \A d \in DOMAIN table' : table'[d] = table[d]
  BY DEF Without, Restrict
<1>2. \A d \in DOMAIN table' : EntryOK(table'[d]) /\ table[d].left <= table'[d].left
  <2>1. \A d \in DOMAIN table' : EntryOK(table[d]) /\ table[d].left \in Nat
    BY <1>1 DEF KeeperInv, EntryOK
  <2>. QED
    BY <1>1, <2>1
<1>. QED
  BY <1>1, <1>2, KeeperFrame DEF KeeperInv

LEMMA SameTable ==
    ASSUME KeeperInv, UNCHANGED <<table, keeper, keeperWake, running>>
    PROVE  KeeperInv'
BY DEF KeeperInv

LEMMA UpsertEntries ==
    ASSUME KeeperInv, NEW d, NEW n, NEW timeout \in 0 .. Never - 1
    PROVE  \A e \in DOMAIN Upsert(table, d, n, timeout) : EntryOK(Upsert(table, d, n, timeout)[e])
<1>1. PICK t : t = Upsert(table, d, n, timeout)
  OBVIOUS
<1>2. /\ DOMAIN t = DOMAIN table \cup {d} /\ \A e \in DOMAIN t \ {d} : t[e] = table[e]
      /\ t[d] = [nwk |-> n, timeout |-> timeout, left |-> timeout, heard |-> d \in DOMAIN table /\ table[d].heard]
  BY <1>1 DEF Upsert
<1>3. (d \in DOMAIN table /\ table[d].heard) \in BOOLEAN
  OBVIOUS
<1>4. PICK heard \in BOOLEAN : t[d] = [nwk |-> n, timeout |-> timeout, left |-> timeout, heard |-> heard]
  BY <1>2, <1>3
<1>5. EntryOK(t[d])
  BY <1>4, Deadlines DEF EntryOK
<1>. QED
  BY <1>1, <1>2, <1>5 DEF KeeperInv

LEMMA RefreshKeeps ==
    ASSUME KeeperInv, NEW d \in DOMAIN table, UNCHANGED <<keeper, keeperWake, running>>, table' = Refreshed(d)
    PROVE  KeeperInv'
<1>1. EntryOK(table[d])
  BY DEF KeeperInv
<1>2. /\ DOMAIN table' = DOMAIN table /\ \A e \in DOMAIN table \ {d} : table'[e] = table[e]
      /\ table'[d] = [table[d] EXCEPT !.left = table[d].timeout, !.heard = TRUE]
  BY DEF Refreshed
<1>3. EntryOK(table'[d]) /\ table[d].left <= table'[d].left
  <2>1. PICK r : r = table[d]
    OBVIOUS
  <2>2. r \in [nwk : {r.nwk}, timeout : 0 .. Never - 1, left : Nat, heard : BOOLEAN] /\ r.left <= r.timeout
    BY <1>1, <2>1 DEF EntryOK
  <2>3. table'[d] = [nwk |-> r.nwk, timeout |-> r.timeout, left |-> r.timeout, heard |-> TRUE]
    BY <1>2, <2>1, <2>2
  <2>4. r.timeout \in Nat /\ r.timeout \in 0 .. Never - 1 /\ r.timeout <= r.timeout
    BY <2>2, Deadlines
  <2>. QED
    BY <2>1, <2>2, <2>3, <2>4 DEF EntryOK
<1>4. ASSUME NEW e \in DOMAIN table' PROVE EntryOK(table'[e]) /\ table[e].left <= table'[e].left
  <2>1. EntryOK(table[e]) /\ table[e].left <= table[e].left
    BY <1>2 DEF KeeperInv, EntryOK
  <2>2. CASE e # d
    BY <1>2, <2>1, <2>2
  <2>. QED
    BY <1>3, <2>2
<1>. QED
  BY <1>2, <1>4, KeeperFrame DEF KeeperInv

LEMMA NegotiationKeeps ==
    ASSUME KeeperInv, NEW d \in DOMAIN table, NEW timeout \in Timeouts, keeper' = keeper, keeperWake' = TRUE,
           running' = running, table' = Negotiated(d, timeout)
    PROVE  KeeperInv'
<1>1. EntryOK(table[d]) /\ timeout \in 0 .. Never - 1
  BY Deadlines DEF KeeperInv
<1>2. /\ DOMAIN table' = DOMAIN table /\ \A e \in DOMAIN table \ {d} : table'[e] = table[e]
      /\ table'[d] = [table[d] EXCEPT !.timeout = timeout, !.left = timeout, !.heard = TRUE]
  BY DEF Negotiated
<1>3. EntryOK(table'[d])
  <2>1. PICK r : r = table[d]
    OBVIOUS
  <2>2. r \in [nwk : {r.nwk}, timeout : 0 .. Never - 1, left : Nat, heard : BOOLEAN]
    BY <1>1, <2>1 DEF EntryOK
  <2>3. table'[d] = [nwk |-> r.nwk, timeout |-> timeout, left |-> timeout, heard |-> TRUE]
    BY <1>2, <2>1, <2>2
  <2>4. timeout \in Nat /\ timeout <= timeout
    BY <1>1, Deadlines
  <2>. QED
    BY <1>1, <2>3, <2>4 DEF EntryOK
<1>4. \A e \in DOMAIN table' : EntryOK(table'[e])
  BY <1>2, <1>3 DEF KeeperInv
<1>. QED
  BY <1>4, KeeperWoken

LEMMA RenamingKeeps ==
    ASSUME KeeperInv, NEW d, NEW n, UNCHANGED <<keeper, keeperWake, running>>, table' = Renamed(d, n)
    PROVE  KeeperInv'
<1>1. CASE d \notin DOMAIN table
  BY <1>1, SameTable DEF Renamed
<1>2. CASE d \in DOMAIN table
  <2>1. EntryOK(table[d])
    BY <1>2 DEF KeeperInv
  <2>2. /\ DOMAIN table' = DOMAIN table /\ \A e \in DOMAIN table \ {d} : table'[e] = table[e]
        /\ table'[d] = [table[d] EXCEPT !.nwk = n]
    BY <1>2 DEF Renamed
  <2>3. EntryOK(table'[d]) /\ table[d].left <= table'[d].left
    BY <2>1, <2>2, Deadlines DEF EntryOK
  <2>4. ASSUME NEW e \in DOMAIN table' PROVE EntryOK(table'[e]) /\ table[e].left <= table'[e].left
    <3>1. EntryOK(table[e]) /\ table[e].left <= table[e].left
      BY <2>2 DEF KeeperInv, EntryOK
    <3>2. CASE e # d
      BY <2>2, <3>1, <3>2
    <3>. QED
      BY <2>3, <3>2
  <2>. QED
    BY <2>2, <2>4, KeeperFrame DEF KeeperInv
<1>. QED
  BY <1>1, <1>2

\* The task goes back to sleep until the earliest deadline of the table it leaves.
LEMMA EvictKeeps ==
    ASSUME KeeperInv, Evict
    PROVE  KeeperInv'
<1>1. /\ table' = Without(table, TimedOut) /\ keeper' = NextDeadline(table') /\ keeperWake' = FALSE
      /\ running' = running /\ running
  BY DEF Evict, Drop, client
<1>2. DOMAIN table' \subseteq DOMAIN table /\ \A d \in DOMAIN table' : table'[d] = table[d]
  BY <1>1 DEF Without, Restrict
<1>3. \A d \in DOMAIN table' : EntryOK(table'[d]) /\ table'[d].left \in Nat
  BY <1>2 DEF KeeperInv, EntryOK
<1>4. PICK S : S = {table'[d].left : d \in DOMAIN table' \cap End} \cup {Never}
  OBVIOUS
<1>5. S \in SUBSET Nat /\ S # {} /\ \A d \in DOMAIN table' \cap End : table'[d].left \in S
  BY <1>3, <1>4, Deadlines
<1>6. keeper' = Least(S)
  BY <1>1, <1>4 DEF NextDeadline
<1>7. keeper' \in Nat /\ \A d \in DOMAIN table' \cap End : keeper' <= table'[d].left
  BY <1>5, <1>6, LeastIsLeast
<1>. QED
  BY <1>1, <1>3, <1>7 DEF KeeperInv

\* Time passes only while the task sleeps, and every child has at least as long.
LEMMA TickKeeps ==
    ASSUME KeeperInv, Tick
    PROVE  KeeperInv'
<1>1. /\ running /\ running' = running /\ keeperWake = FALSE /\ keeperWake' = keeperWake /\ keeper > 0
      /\ keeper' = IF keeper = Never THEN Never ELSE keeper - 1
      /\ table' = [d \in DOMAIN table |-> IF d \in End THEN [table[d] EXCEPT !.left = @ - 1] ELSE table[d]]
  BY DEF Tick, client, KeeperInv
<1>2. keeper \in Nat /\ Never \in Nat
  BY Deadlines DEF KeeperInv
<1>3. ASSUME NEW d \in DOMAIN table
      PROVE  EntryOK(table'[d]) /\ (d \in End => keeper' <= table'[d].left)
  <2>1. EntryOK(table[d])
    BY DEF KeeperInv
  <2>2. CASE d \notin End
    BY <1>1, <2>1, <2>2
  <2>3. CASE d \in End
    <3>1. keeper <= table[d].left
      BY <1>1, <2>3 DEF KeeperInv
    <3>2. table'[d] = [table[d] EXCEPT !.left = table[d].left - 1]
      BY <1>1, <2>3
    <3>3. table[d].left \in Nat /\ table[d].timeout \in 0 .. Never - 1 /\ table[d].left <= table[d].timeout
      BY <2>1 DEF EntryOK
    <3>4. table[d].left - 1 \in Nat /\ keeper # Never /\ keeper' = keeper - 1
      BY <1>1, <1>2, <3>1, <3>3
    <3>5. table'[d].left = table[d].left - 1 /\ EntryOK(table'[d])
      BY <2>1, <3>2, <3>3, <3>4 DEF EntryOK
    <3>. QED
      BY <1>2, <3>1, <3>3, <3>4, <3>5
  <2>. QED
    BY <2>2, <2>3
<1>4. keeper' \in Nat
  BY <1>1, <1>2
<1>. QED
  BY <1>1, <1>3, <1>4 DEF KeeperInv

LEMMA StepKeepsKeeper ==
    ASSUME KeeperInv, [Next]_vars
    PROVE  KeeperInv'
<1>1. CASE Evict
  BY <1>1, EvictKeeps
<1>2. CASE Tick
  BY <1>2, TickKeeps
<1>3. CASE Stop
  BY <1>3 DEF Stop, KeeperInv
<1>4. ASSUME NEW S \in SUBSET End, ParentAnnounced(S) \/ ParentAnswered(S)
      PROVE  KeeperInv'
  BY <1>4, SmallerTable DEF ParentAnnounced, ParentAnswered, Drop, keeping, client
<1>5. ASSUME NEW d \in Devices, Leave(d) \/ UpdateDevice(d)
      PROVE  KeeperInv'
  BY <1>5, SmallerTable DEF Leave, UpdateDevice, keeping, client
<1>6. ASSUME NEW d \in Devices, Announce(d)
      PROVE  KeeperInv'
  BY <1>6, RenamingKeeps DEF Announce, keeping, client
<1>7. ASSUME NEW d \in Devices, LoadChild(d)
      PROVE  KeeperInv'
  <2>1. /\ table' = Upsert(table, d, stored.children[d], RestoredTimeout) /\ ~running
        /\ UNCHANGED <<keeper, keeperWake, running>>
    BY <1>7 DEF LoadChild, keeping
  <2>2. \A e \in DOMAIN table' : EntryOK(table'[e])
    BY <2>1, UpsertEntries, Deadlines
  <2>3. \A e \in DOMAIN table' : table'[e].left \in Nat
    BY <2>2 DEF EntryOK
  <2>. QED
    BY <2>1, <2>2, <2>3 DEF KeeperInv
<1>8. ASSUME NEW d \in Devices, NEW permitted \in BOOLEAN, Associate(d, permitted)
      PROVE  KeeperInv'
  <2>1. CASE UNCHANGED <<table, keeperWake>>
    BY <1>8, <2>1, SameTable DEF Associate, client
  <2>2. ASSUME NEW n, table' = Upsert(table, d, n, DefaultTimeout), keeperWake' = Woken
        PROVE  KeeperInv'
    <3>1. \A e \in DOMAIN table' : EntryOK(table'[e])
      BY <2>2, UpsertEntries, Deadlines
    <3>. QED
      BY <1>8, <2>2, <3>1, KeeperWoken DEF Associate, client, Woken
  <2>. QED
    BY <1>8, <2>1, <2>2 DEF Associate
<1>9. ASSUME NEW d \in Devices, NEW secured \in BOOLEAN, Rejoin(d, secured)
      PROVE  KeeperInv'
  <2>1. CASE UNCHANGED <<table, keeperWake>>
    BY <1>9, <2>1, SameTable DEF Rejoin, client
  <2>2. ASSUME NEW n, table' = Upsert(table, d, n, DefaultTimeout), keeperWake' = Woken
        PROVE  KeeperInv'
    <3>1. \A e \in DOMAIN table' : EntryOK(table'[e])
      BY <2>2, UpsertEntries, Deadlines
    <3>. QED
      BY <1>9, <2>2, <3>1, KeeperWoken DEF Rejoin, client, Woken
  <2>. QED
    BY <1>9, <2>1, <2>2 DEF Rejoin, parts
<1>10. ASSUME NEW d \in Devices, NEW short \in BOOLEAN, Poll(d, short)
       PROVE  KeeperInv'
  <2>1. UNCHANGED <<keeper, keeperWake, running>>
    BY <1>10 DEF Poll, keeping, client
  <2>2. table' = table \/ \E e \in DOMAIN table : table' = Refreshed(e)
    BY <1>10 DEF Poll
  <2>. QED
    BY <2>1, <2>2, SameTable, RefreshKeeps
<1>11. ASSUME NEW d \in Devices, NEW timeout \in Timeouts, RequestTimeout(d, timeout)
       PROVE  KeeperInv'
  <2>1. PICK e \in DOMAIN table : table' = Negotiated(e, timeout)
    BY <1>11 DEF RequestTimeout, ChildrenAt
  <2>. QED
    BY <1>11, <2>1, NegotiationKeeps DEF RequestTimeout, client, Woken
<1>12. CASE \/ UNCHANGED vars \/ Report
            \/ (\E n \in Announceable : AnnounceUnknown(n) \/ HearConflict(n))
            \/ (\E n \in Addresses : HostSend(n))
            \/ (\E j \in joins : QueueResponse(j) \/ \E delivered \in BOOLEAN : DeliverKey(j, delivered))
            \/ (\E f \in queue : Expire(f))
            \/ (\E d \in Devices \cup {Us} : Hear(d))
            \/ (\E d \in Devices : LoadAddress(d) \/ \E n \in Addresses : Move(d, n))
            \/ (\E S \in SUBSET End : AnnounceChildren(S))
  <2>1. UNCHANGED <<table, keeper, keeperWake, running>>
    BY <1>12 DEF vars, parts, keeping, client, Report, AnnounceUnknown, HearConflict, HostSend, QueueResponse,
                 DeliverKey, Expire, Hear, LoadAddress, Move, AnnounceChildren
  <2>. QED
    BY <2>1, SameTable
<1>13. CASE Start
  <2>1. UNCHANGED <<table, keeper, keeperWake>> /\ running'
    BY <1>13 DEF Start, parts, keeping
  <2>. QED
    BY <2>1 DEF KeeperInv
<1>. QED
  BY <1>1, <1>2, <1>3, <1>4, <1>5, <1>6, <1>7, <1>8, <1>9, <1>10, <1>11, <1>12, <1>13 DEF Next

-----------------------------------------------------------------------------
(* The reports of conflicts *)

\* A report that is owed comes within the jitter of its conflict.
ConflictOK(c) ==
    /\ c \in [age : Nat, heard : BOOLEAN, report : Nat]
    /\ c.report # Never => c.age + c.report < Jitter

\* address_conflict_task: unless it was woken, it sleeps no longer than any report has left, and every
\* conflict we noticed is on record with its report, young enough to be handled only once.
ReporterInv ==
    /\ \A n \in DOMAIN conflicts : ConflictOK(conflicts[n])
    /\ \A n \in owed : n \in DOMAIN conflicts /\ conflicts[n].report # Never
    /\ reporter \in Nat /\ reportWake \in BOOLEAN
    /\ ~reportWake => \A n \in DOMAIN conflicts : conflicts[n].report # Never => reporter <= conflicts[n].report

\* A conflict whose report is owed is within its window.
LEMMA OwedSuppressed ==
    ASSUME NEW n \in DOMAIN conflicts, ConflictOK(conflicts[n]), conflicts[n].report # Never
    PROVE  conflicts[n].age < Window /\ Suppressed(n)
<1>1. conflicts[n].age \in Nat /\ conflicts[n].report \in Nat /\ conflicts[n].age + conflicts[n].report < Jitter
  BY DEF ConflictOK
<1>2. conflicts[n].age < Window
  BY <1>1, Deadlines
<1>. QED
  BY <1>2 DEF Suppressed

LEMMA SuppressedKeeps ==
    ASSUME ReporterInv, NEW n, Suppressed(n), NEW source, UNCHANGED <<reporter, owed>>,
           conflicts' = [conflicts EXCEPT ![n].heard = @ \/ source = "network"],
           reportWake' = reportWake
    PROVE  ReporterInv'
<1>1. n \in DOMAIN conflicts /\ ConflictOK(conflicts[n])
  BY DEF Suppressed, ReporterInv
<1>2. /\ DOMAIN conflicts' = DOMAIN conflicts /\ \A m \in DOMAIN conflicts \ {n} : conflicts'[m] = conflicts[m]
      /\ conflicts'[n] = [conflicts[n] EXCEPT !.heard = conflicts[n].heard \/ source = "network"]
  BY <1>1
<1>3. conflicts'[n].report = conflicts[n].report /\ ConflictOK(conflicts'[n])
  <2>1. PICK r : r = conflicts[n]
    OBVIOUS
  <2>2. r \in [age : Nat, heard : BOOLEAN, report : Nat] /\ (r.report # Never => r.age + r.report < Jitter)
    BY <1>1, <2>1 DEF ConflictOK
  <2>3. PICK heard \in BOOLEAN : heard = (r.heard \/ source = "network")
    OBVIOUS
  <2>4. conflicts'[n] = [age |-> r.age, heard |-> heard, report |-> r.report]
    BY <1>2, <2>1, <2>2, <2>3
  <2>. QED
    BY <2>1, <2>2, <2>4 DEF ConflictOK
<1>. QED
  BY <1>2, <1>3 DEF ReporterInv

\* The conflicts that are retained are all that are owed.
LEMMA NotingKeeps ==
    ASSUME ReporterInv, NEW n, ~Suppressed(n), NEW source \in {"local", "network"}, NEW jitter \in 0 .. Jitter - 1,
           reporter' = reporter, conflicts' = Noted(n, source, jitter),
           owed' = IF source = "local" THEN owed \cup {n} ELSE owed,
           reportWake' = (reportWake \/ source = "local")
    PROVE  ReporterInv'
<1>1. PICK new : new = [age |-> 0, heard |-> source = "network",
                        report |-> IF source = "local" THEN jitter ELSE Never]
  OBVIOUS
<1>2. conflicts' = [m \in {n} \cup {k \in DOMAIN conflicts : conflicts[k].age < Window} |->
                       IF m # n THEN conflicts[m] ELSE new]
  BY <1>1 DEF Noted
<1>3. /\ n \in DOMAIN conflicts' /\ conflicts'[n] = new
      /\ \A m \in DOMAIN conflicts' \ {n} : m \in DOMAIN conflicts /\ conflicts'[m] = conflicts[m]
      /\ \A m \in DOMAIN conflicts \ {n} : conflicts[m].age < Window => m \in DOMAIN conflicts'
  BY <1>2
<1>4. ConflictOK(new) /\ (source = "local" <=> new.report # Never)
  <2>1. CASE source = "local"
    <3>1. new = [age |-> 0, heard |-> FALSE, report |-> jitter]
      BY <1>1, <2>1
    <3>2. jitter \in Nat /\ jitter # Never /\ 0 + jitter < Jitter
      BY Deadlines
    <3>. QED
      BY <2>1, <3>1, <3>2 DEF ConflictOK
  <2>2. CASE source = "network"
    <3>1. new = [age |-> 0, heard |-> TRUE, report |-> Never]
      BY <1>1, <2>2
    <3>. QED
      BY <2>2, <3>1, Deadlines DEF ConflictOK
  <2>. QED
    BY <2>1, <2>2
<1>5. ASSUME NEW m \in owed' PROVE m \in DOMAIN conflicts' /\ conflicts'[m].report # Never
  <2>1. CASE m \in owed
    <3>1. m \in DOMAIN conflicts /\ conflicts[m].report # Never /\ ConflictOK(conflicts[m])
      BY <2>1 DEF ReporterInv
    <3>2. conflicts[m].age < Window /\ Suppressed(m)
      BY <3>1, OwedSuppressed
    <3>. QED
      BY <1>3, <3>1, <3>2
  <2>2. CASE m \notin owed
    BY <1>3, <1>4, <2>2
  <2>. QED
    BY <2>1, <2>2
<1>6. \A m \in DOMAIN conflicts' : ConflictOK(conflicts'[m])
  BY <1>3, <1>4 DEF ReporterInv
<1>7. ASSUME ~reportWake', NEW m \in DOMAIN conflicts', conflicts'[m].report # Never
      PROVE  reporter' <= conflicts'[m].report
  <2>1. source = "network" /\ ~reportWake
    BY <1>7
  <2>. QED
    BY <1>3, <1>4, <1>7, <2>1 DEF ReporterInv
<1>. QED
  BY <1>5, <1>6, <1>7 DEF ReporterInv

LEMMA ConflictKeepsReporter ==
    ASSUME ReporterInv, NEW n, NEW source \in {"local", "network"}, NEW t, NEW q, NEW j,
           HandleConflict(n, source, t, q, j)
    PROVE  ReporterInv'
<1>1. PICK jitter \in 0 .. Jitter - 1 : conflicts' = Noted(n, source, jitter)
  BY DEF HandleConflict
<1>2. /\ reporter' = reporter /\ reportWake' = (reportWake \/ (source = "local" /\ ~Suppressed(n)))
      /\ owed' = IF source = "local" /\ ~Suppressed(n) THEN owed \cup {n} ELSE owed
  BY DEF HandleConflict, Notified
<1>3. CASE Suppressed(n)
  <2>1. conflicts' = [conflicts EXCEPT ![n].heard = @ \/ source = "network"]
    BY <1>1, <1>3 DEF Noted
  <2>2. reportWake' = reportWake /\ owed' = owed
    BY <1>2, <1>3 DEF ReporterInv
  <2>. QED
    BY <1>2, <1>3, <2>1, <2>2, SuppressedKeeps
<1>4. CASE ~Suppressed(n)
  BY <1>1, <1>2, <1>4, NotingKeeps
<1>. QED
  BY <1>3, <1>4

LEMMA LearningKeepsReporter ==
    ASSUME ReporterInv, NEW d, NEW n, NEW t, NEW q, NEW j, Learns(d, n, t, q, j)
    PROVE  ReporterInv'
<1>1. CASE UNCHANGED tasks
  BY <1>1 DEF tasks, ReporterInv
<1>. QED
  BY <1>1, ConflictKeepsReporter DEF Learns

LEMMA ReportKeeps ==
    ASSUME ReporterInv, Report
    PROVE  ReporterInv'
<1>1. PICK D : D = {n \in DOMAIN conflicts : conflicts[n].report <= 0}
  OBVIOUS
<1>2. /\ conflicts' = [n \in DOMAIN conflicts |->
                          IF n \in D THEN [conflicts[n] EXCEPT !.report = Never] ELSE conflicts[n]]
      /\ owed' = owed \ D /\ reportWake' = FALSE
      /\ reporter' = Least({conflicts'[n].report : n \in DOMAIN conflicts} \cup {Never})
  BY <1>1 DEF Report
<1>3. ASSUME NEW n \in DOMAIN conflicts
      PROVE  ConflictOK(conflicts'[n]) /\ (n \notin D => conflicts'[n] = conflicts[n])
  <2>1. ConflictOK(conflicts[n])
    BY DEF ReporterInv
  <2>2. CASE n \in D
    <3>1. PICK r : r = conflicts[n]
      OBVIOUS
    <3>2. r \in [age : Nat, heard : BOOLEAN, report : Nat]
      BY <2>1, <3>1 DEF ConflictOK
    <3>3. conflicts'[n] = [age |-> r.age, heard |-> r.heard, report |-> Never]
      BY <1>2, <2>2, <3>1, <3>2
    <3>. QED
      BY <2>2, <3>2, <3>3, Deadlines DEF ConflictOK
  <2>. QED
    BY <1>2, <2>1, <2>2
<1>4. PICK S : S = {conflicts'[n].report : n \in DOMAIN conflicts} \cup {Never}
  OBVIOUS
<1>5. \A n \in DOMAIN conflicts : conflicts'[n].report \in Nat
  BY <1>3 DEF ConflictOK
<1>6. S \in SUBSET Nat /\ S # {} /\ \A n \in DOMAIN conflicts : conflicts'[n].report \in S
  BY <1>4, <1>5, Deadlines
<1>7. reporter' \in Nat /\ \A n \in DOMAIN conflicts : reporter' <= conflicts'[n].report
  BY <1>2, <1>4, <1>6, LeastIsLeast
<1>8. DOMAIN conflicts' = DOMAIN conflicts
  BY <1>2
<1>9. \A n \in owed' : n \in DOMAIN conflicts' /\ conflicts'[n].report # Never
  BY <1>2, <1>3, <1>8 DEF ReporterInv
<1>. QED
  BY <1>2, <1>3, <1>7, <1>8, <1>9 DEF ReporterInv

LEMMA TickKeepsReporter ==
    ASSUME ReporterInv, Tick
    PROVE  ReporterInv'
<1>1. /\ reportWake = FALSE /\ reportWake' = reportWake /\ reporter > 0 /\ owed' = owed
      /\ reporter' = IF reporter = Never THEN Never ELSE reporter - 1
      /\ DOMAIN conflicts' = DOMAIN conflicts
  BY DEF Tick, ReporterInv
<1>2. reporter \in Nat /\ Never \in Nat /\ Jitter \in Nat /\ Jitter < Never /\ Window \in Nat /\ Jitter <= Window
  BY Deadlines DEF ReporterInv
<1>3. ASSUME NEW n \in DOMAIN conflicts
      PROVE  /\ ConflictOK(conflicts'[n])
             /\ conflicts[n].report # Never => conflicts'[n].report # Never
             /\ conflicts'[n].report # Never => reporter' <= conflicts'[n].report
  <2>1. ConflictOK(conflicts[n]) /\ (conflicts[n].report # Never => reporter <= conflicts[n].report)
    BY <1>1 DEF ReporterInv
  <2>2. PICK r : r = conflicts[n]
    OBVIOUS
  <2>3. /\ r \in [age : Nat, heard : BOOLEAN, report : Nat] /\ (r.report # Never => r.age + r.report < Jitter)
        /\ (r.report # Never => reporter <= r.report)
    BY <2>1, <2>2 DEF ConflictOK
  <2>4. PICK age : age = IF r.age < Window THEN r.age + 1 ELSE r.age
    OBVIOUS
  <2>5. PICK left : left = IF r.report = Never THEN Never ELSE r.report - 1
    OBVIOUS
  <2>6. conflicts'[n] = [r EXCEPT !.age = age, !.report = left]
    BY <2>2, <2>3, <2>4, <2>5 DEF Tick
  <2>7. conflicts'[n] = [age |-> age, heard |-> r.heard, report |-> left]
    BY <2>3, <2>6
  <2>8. r.age \in Nat /\ r.report \in Nat
    BY <2>3
  <2>9. age \in Nat /\ age <= r.age + 1
    BY <1>2, <2>4, <2>8
  <2>10. CASE r.report = Never
    BY <1>2, <2>2, <2>3, <2>5, <2>7, <2>9, <2>10 DEF ConflictOK
  <2>11. CASE r.report # Never
    <3>1. reporter <= r.report /\ r.age + r.report < Jitter
      BY <2>3, <2>11
    <3>2. reporter < Never
      BY <1>2, <2>8, <3>1
    <3>3. left \in Nat /\ left = r.report - 1 /\ left # Never /\ reporter' = reporter - 1
      BY <1>1, <1>2, <2>5, <2>8, <2>11, <3>1, <3>2
    <3>4. age + left < Jitter /\ reporter' <= left
      BY <1>2, <2>8, <2>9, <3>1, <3>3
    <3>. QED
      BY <2>2, <2>3, <2>7, <2>9, <3>3, <3>4 DEF ConflictOK
  <2>. QED
    BY <2>10, <2>11
<1>4. reporter' \in Nat
  BY <1>1, <1>2
<1>. QED
  BY <1>1, <1>3, <1>4 DEF ReporterInv

LEMMA StepKeepsReporter ==
    ASSUME ReporterInv, [Next]_vars
    PROVE  ReporterInv'
<1>1. CASE UNCHANGED tasks
  BY <1>1 DEF tasks, ReporterInv
<1>2. CASE Report
  BY <1>2, ReportKeeps
<1>3. CASE Tick
  BY <1>3, TickKeepsReporter
<1>4. CASE Stop
  <2>1. DOMAIN conflicts' = {} /\ owed' = {} /\ reporter' = 0 /\ reportWake' = FALSE
    BY <1>4 DEF Stop
  <2>. QED
    BY <2>1 DEF ReporterInv
<1>5. ASSUME NEW n \in Announceable, HearConflict(n)
      PROVE  ReporterInv'
  BY <1>5, ConflictKeepsReporter DEF HearConflict
<1>6. ASSUME NEW d \in Devices \cup {Us}, Hear(d)
      PROVE  ReporterInv'
  <2>1. PICK n : Learns(d, n, table, queue, joins)
    BY <1>6 DEF Hear
  <2>. QED
    BY <2>1, LearningKeepsReporter
<1>7. ASSUME NEW d \in Devices, UpdateDevice(d)
      PROVE  ReporterInv'
  <2>1. PICK n, t, q : Learns(d, n, t, q, joins)
    BY <1>7 DEF UpdateDevice
  <2>. QED
    BY <2>1, LearningKeepsReporter
<1>8. ASSUME NEW d \in Devices, NEW permitted \in BOOLEAN, Associate(d, permitted)
      PROVE  ReporterInv'
  BY <1>1, <1>8, LearningKeepsReporter DEF Associate
<1>9. ASSUME NEW d \in Devices, NEW secured \in BOOLEAN, Rejoin(d, secured)
      PROVE  ReporterInv'
  BY <1>1, <1>9, LearningKeepsReporter DEF Rejoin
<1>10. CASE \/ UNCHANGED vars \/ Evict \/ Start
            \/ (\E n \in Announceable : AnnounceUnknown(n))
            \/ (\E n \in Addresses : HostSend(n))
            \/ (\E j \in joins : QueueResponse(j) \/ \E delivered \in BOOLEAN : DeliverKey(j, delivered))
            \/ (\E f \in queue : Expire(f))
            \/ (\E d \in Devices : \/ Leave(d) \/ Announce(d) \/ LoadAddress(d) \/ LoadChild(d)
                                   \/ (\E short \in BOOLEAN : Poll(d, short))
                                   \/ (\E timeout \in Timeouts : RequestTimeout(d, timeout))
                                   \/ (\E n \in Addresses : Move(d, n)))
            \/ (\E S \in SUBSET End : ParentAnnounced(S) \/ ParentAnswered(S) \/ AnnounceChildren(S))
  <2>1. UNCHANGED tasks
    BY <1>10 DEF vars, Evict, Start, AnnounceUnknown, HostSend, QueueResponse, DeliverKey, Expire, Leave, Announce,
                 LoadAddress, LoadChild, Poll, RequestTimeout, Move, ParentAnnounced, ParentAnswered, AnnounceChildren
  <2>. QED
    BY <1>1, <2>1
<1>. QED
  BY <1>2, <1>3, <1>4, <1>5, <1>6, <1>7, <1>8, <1>9, <1>10 DEF Next

-----------------------------------------------------------------------------
\* AddressMap: "the invariant that a network address has a single owner" holds through joins,
\* rejoins, announcements, conflicts, device updates and the loads of a restart, for any number of
\* devices, addresses and children.
THEOREM AddressesHaveOneOwner == Spec => []SingleOwner
<1>1. Init => Injects(map)
  BY DEF Init, Injects
<1>2. Injects(map) /\ [Next]_vars => Injects(map')
  BY StepKeepsOwner
<1>3. Injects(map) <=> SingleOwner
  BY DEF Injects, SingleOwner
<1>4. Injects(map') <=> SingleOwner'
  BY DEF Injects, SingleOwner
<1>. QED
  BY <1>1, <1>2, <1>3, <1>4, PTL DEF Spec

\* drop_indirect_transactions: on every path that ends a child, its frames go with it.
THEOREM FramesHaveHomes == Spec => []NoOrphanFrames
<1>1. Init => Homed(queue, DOMAIN table)
  BY DEF Init, Homed
<1>2. Homed(queue, DOMAIN table) /\ [Next]_vars => Homed(queue', DOMAIN table')
  BY StepKeepsHomed
<1>3. Homed(queue, DOMAIN table) <=> NoOrphanFrames
  BY DEF Homed, NoOrphanFrames
<1>4. Homed(queue', DOMAIN table') <=> NoOrphanFrames'
  BY DEF Homed, NoOrphanFrames
<1>. QED
  BY <1>1, <1>2, <1>3, <1>4, PTL DEF Spec

\* child_timeout_task: every child is evicted by the tick its keepalive deadline passes, whatever joins,
\* rejoins, renegotiations, polls and loads do to the deadlines while the task sleeps.
THEOREM ChildrenEvictedOnTime == Spec => []EvictedOnTime
<1>1. Init => KeeperInv
  <2>. SUFFICES ASSUME Init PROVE KeeperInv
    OBVIOUS
  <2>1. DOMAIN table = {} /\ keeper = 0 /\ keeperWake = FALSE /\ running
    BY DEF Init
  <2>. QED
    BY <2>1 DEF KeeperInv
<1>2. KeeperInv /\ [Next]_vars => KeeperInv'
  BY StepKeepsKeeper
<1>3. KeeperInv => EvictedOnTime
  BY DEF KeeperInv, EntryOK, EvictedOnTime
<1>. QED
  BY <1>1, <1>2, <1>3, PTL DEF Spec

\* handle_address_conflict and address_conflict_task: a conflict we noticed stays on record, with its
\* report still to come, until the report is due, and the task wakes in time for it.
THEOREM ConflictsAreReported == Spec => []ConflictsReported
<1>1. Init => ReporterInv
  <2>. SUFFICES ASSUME Init PROVE ReporterInv
    OBVIOUS
  <2>1. DOMAIN conflicts = {} /\ owed = {} /\ reporter = 0 /\ reportWake = FALSE
    BY DEF Init
  <2>. QED
    BY <2>1 DEF ReporterInv
<1>2. ReporterInv /\ [Next]_vars => ReporterInv'
  BY StepKeepsReporter
<1>3. ReporterInv => ConflictsReported
  <2>. SUFFICES ASSUME ReporterInv, NEW n \in owed
                PROVE  n \in DOMAIN conflicts /\ conflicts[n].report \in 0 .. Never - 1
    BY DEF ConflictsReported
  <2>1. n \in DOMAIN conflicts /\ conflicts[n].report # Never /\ ConflictOK(conflicts[n])
    BY DEF ReporterInv
  <2>2. /\ conflicts[n].age \in Nat /\ conflicts[n].report \in Nat
        /\ conflicts[n].age + conflicts[n].report < Jitter
    BY <2>1 DEF ConflictOK
  <2>. QED
    BY <2>1, <2>2, Deadlines
<1>. QED
  BY <1>1, <1>2, <1>3, PTL DEF Spec
=============================================================================
