------------------------- MODULE TrustCenterProofs -------------------------
(* Theorems about TrustCenter, for any devices, keys and lengths of an exchange. *)
EXTENDS TrustCenter, TLAPS

\* The keys the trust center issues, and the ones that it or a device may hold.
Issued == {Seed} \cup {Fresh(n) : n \in Nat}
Codes  == {Code(d) : d \in Devices}
Held   == Codes \cup Issued

Phases == {"idle", "requested", "received", "proving"}

EntryType == [key : Held \cup {None}, provisional : BOOLEAN, pending : Issued \cup {None}, counter : Nat]

DeviceType ==
    [key : Held \cup {Global}, pending : Issued \cup {None}, member : BOOLEAN, network : BOOLEAN,
     phase : Phases, counter : Nat]

Kinds == {"network", "update", "request", "link", "verify", "confirm"}
Words == {"", "new", "join", "rejoin", "secured", "left", "success", "failed"}

MessageType ==
    [kind : Kinds, device : Devices, under : Held \cup {None, Global, Router}, about : Words,
     key : Issued \cup {None}, counter : Nat]

SetupTypes ==
    /\ Seeded \in BOOLEAN /\ \A d \in Devices : Preconfigured[d] \in {Global, Code(d)}

TrustTypes ==
    /\ SetupTypes
    /\ keys \in [Devices -> EntryType]
    /\ device \in [Devices -> DeviceType]
    /\ store \in [Devices -> Held \cup {None}]
    /\ joins \subseteq [device : Devices, kind : {"new", "rejoin"}]
    /\ air \subseteq MessageType
    /\ issued \in Nat

Of(d) == {m \in air : m.device = d}

-----------------------------------------------------------------------------
(* What holds of a device *)

\* A device that has not joined is as it left the factory, one without the network key has no
\* exchange going on, and it has a key to prove in the last two phases of one.
Attached(d) ==
    /\ ~device[d].member => ~device[d].network /\ device[d].key = Preconfigured[d]
    /\ ~device[d].network => device[d].phase = "idle"
    /\ device[d].phase = "idle" => device[d].pending = None
    /\ device[d].phase \in {"received", "proving"} => device[d].pending # None

\* The key of an entry is provisional from the registration of an install code to the next exchange.
Registration(d) ==
    /\ keys[d].provisional <=> d \in registered
    /\ keys[d].provisional => keys[d].key = Code(d) /\ Preconfigured[d] = Code(d)

\* The entry is the one the client stored, and the device uses its key.
Agreed(d) == keys[d].key = store[d] /\ device[d].key = DeviceLinkKey(keys[d])

\* The entry has the key the device is proving; only the answer is missing.
Proved(d) ==
    /\ device[d].phase = "proving"
    /\ keys[d].key = store[d] /\ keys[d].key = device[d].pending
    /\ keys[d].pending \in {None, device[d].pending}

Usable(d) == device[d].member => device[d].key = Global \/ Agreed(d) \/ Proved(d)

\* The tasklets of a device.
JoinInv(d, kind) ==
    /\ kind = "new" =>
          /\ ~device[d].member /\ Of(d) = {} /\ d \in admitted
          /\ keys[d].key # None => keys[d].provisional /\ store[d] = keys[d].key
    /\ kind = "rejoin" => device[d].member /\ MayRejoinUnsecured(d)

JoinsInv(d) == \A j \in joins : j.device = d => JoinInv(d, j.kind)

\* The messages of a device.
Solitary(m) == m.kind = "network" \/ (m.kind = "update" /\ m.about \in {"join", "rejoin", "left"})

NetworkInv(d, m) ==
    m.kind = "network" =>
       /\ m.under # None /\ m.about \in {"new", "rejoin"}
       /\ m.about = "rejoin" => device[d].member /\ (m.under = Global => AllowUnsecuredRejoins)
       /\ m.about = "new" =>
             /\ m.under = Global => d \in admitted
             /\ m.under # Global => keys[d].key = m.under /\ store[d] = m.under
             /\ (Preconfigured[d] = Code(d) => d \in registered) => m.under = Preconfigured[d]

UpdateInv(d, m) ==
    m.kind = "update" =>
       /\ m.about = "join" => ~device[d].member
       /\ m.about = "rejoin" => device[d].member

ExchangeInv(d, m) ==
    /\ m.kind = "request" /\ device[d].phase # "idle" => m.under = device[d].key
    /\ m.kind = "request" => m.under # None
    /\ m.kind = "link" => m.key # None
    /\ m.kind \in {"verify", "confirm"} => device[d].phase = "proving"
    /\ m.kind = "verify" => m.key = device[d].pending
    /\ m.kind = "confirm" /\ m.about = "success" => keys[d].key = m.under /\ store[d] = m.under /\ m.under # None
    /\ m.kind = "confirm" /\ m.about # "success" => device[d].key = Global \/ Agreed(d)

Fits(d, m) ==
    /\ Solitary(m) => ~device[d].network
    /\ NetworkInv(d, m) /\ UpdateInv(d, m) /\ ExchangeInv(d, m)

Proof(m) == m.kind \in {"verify", "confirm"}

MessagesInv(d) ==
    /\ \A m \in Of(d) : Fits(d, m)
    /\ \A m \in Of(d) : Solitary(m) => Of(d) = {m}
    /\ \A m, n \in Of(d) : Proof(m) /\ Proof(n) => m = n

DeviceInv(d) == Attached(d) /\ Registration(d) /\ Usable(d) /\ JoinsInv(d) /\ MessagesInv(d)

TrustInv == TrustTypes /\ \A d \in Devices : DeviceInv(d)

-----------------------------------------------------------------------------
(* Keys, and what a step leaves alone *)

LEMMA KeysDiffer ==
    /\ None # Global /\ Router # Global /\ None # Router
    /\ None \notin Held /\ Global \notin Held /\ Issued \subseteq Held
    /\ Seed \in Issued /\ \A n \in Nat : Fresh(n) \in Issued
    /\ \A d \in Devices : Code(d) \in Held /\ Code(d) # Global /\ Code(d) # None
  <1>1. None # Global /\ Router # Global /\ None # Router
    BY DEF None, Global, Router
  <1>2. Seed # None /\ Seed # Global
    BY DEF None, Global, Seed
  <1>3. \A n \in Nat : Fresh(n) # None /\ Fresh(n) # Global
    BY DEF None, Global, Fresh
  <1>4. \A d \in Devices : Code(d) # None /\ Code(d) # Global
    BY DEF None, Global, Code
  <1>5. Seed \in Issued /\ \A n \in Nat : Fresh(n) \in Issued
    BY DEF Issued
  <1>6. None \notin Issued /\ Global \notin Issued
    BY <1>2, <1>3 DEF Issued
  <1>7. None \notin Codes /\ Global \notin Codes /\ \A d \in Devices : Code(d) \in Codes
    BY <1>4 DEF Codes
  <1> QED BY <1>1, <1>4, <1>5, <1>6, <1>7 DEF Held

\* A step that leaves a device, its entry and what the client stored of it alone.
Still(e) ==
    /\ setup' = setup /\ keys'[e] = keys[e] /\ device'[e] = device[e] /\ store'[e] = store[e]
    /\ (e \in registered' <=> e \in registered) /\ (e \in admitted => e \in admitted')

\* ... and only takes messages and tasklets away.
Same(e) ==
    /\ Still(e)
    /\ Of(e)' \subseteq Of(e)
    /\ \A j \in joins' : j.device = e => j \in joins

LEMMA StillKeeps ==
    ASSUME NEW e \in Devices, DeviceInv(e), Still(e)
    PROVE  /\ Attached(e)' /\ Registration(e)' /\ Usable(e)'
           /\ MayRejoinUnsecured(e) => MayRejoinUnsecured(e)'
           /\ \A m \in Of(e) : Fits(e, m)'
  <1>1. Attached(e)'
    BY DEF DeviceInv, Still, Attached, Preconfigured
  <1>2. Registration(e)'
    BY DEF DeviceInv, Still, Registration, Preconfigured
  <1>3. Usable(e)'
    BY DEF DeviceInv, Still, Usable, Agreed, Proved, DeviceLinkKey, Unkeyed, Seeded
  <1>4. MayRejoinUnsecured(e) => MayRejoinUnsecured(e)'
    BY DEF Still, MayRejoinUnsecured, HasUniqueLinkKey, Seeded
  <1>5. ASSUME NEW m, Fits(e, m) PROVE Fits(e, m)'
    <2>1. NetworkInv(e, m)'
      BY <1>5 DEF Still, Fits, NetworkInv, Preconfigured
    <2>2. UpdateInv(e, m)'
      BY <1>5 DEF Still, Fits, UpdateInv
    <2>3. ExchangeInv(e, m)'
      BY <1>5 DEF Still, Fits, ExchangeInv, Agreed, DeviceLinkKey, Unkeyed, Seeded
    <2> QED BY <1>5, <2>1, <2>2, <2>3 DEF Still, Fits, Solitary
  <1> QED BY <1>1, <1>2, <1>3, <1>4, <1>5 DEF DeviceInv, MessagesInv

LEMMA SameKeeps ==
    ASSUME NEW e \in Devices, DeviceInv(e), Same(e)
    PROVE  DeviceInv(e)'
  <1>1. Still(e) /\ Attached(e)' /\ Registration(e)' /\ Usable(e)'
    BY StillKeeps DEF Same
  <1>2. ASSUME NEW kind, JoinInv(e, kind) PROVE JoinInv(e, kind)'
    BY <1>1, <1>2, StillKeeps DEF Same, Still, JoinInv
  <1>3. JoinsInv(e)'
    BY <1>2 DEF DeviceInv, Same, JoinsInv
  <1>4. MessagesInv(e)'
    BY <1>1, StillKeeps DEF DeviceInv, Same, MessagesInv
  <1> QED BY <1>1, <1>3, <1>4 DEF DeviceInv

\* A step about one device.
LEMMA OneDevice ==
    ASSUME TrustInv, TrustTypes', NEW d \in Devices, DeviceInv(d)', \A e \in Devices \ {d} : Same(e)
    PROVE  TrustInv'
  BY SameKeeps DEF TrustInv

\* A step about none.
LEMMA NoDevice ==
    ASSUME TrustInv, TrustTypes', \A e \in Devices : Same(e)
    PROVE  TrustInv'
  BY SameKeeps DEF TrustInv

LEMMA Unchanged ==
    ASSUME TrustInv, UNCHANGED <<setup, keys, joins, store, device, air, issued, registered, admitted>>
    PROVE  TrustInv'
  <1>1. TrustTypes'
    BY DEF TrustInv, TrustTypes, SetupTypes, Seeded, Preconfigured
  <1>2. \A e \in Devices : Same(e)
    BY DEF Same, Still, Of
  <1> QED BY <1>1, <1>2, NoDevice

LEMMA MessageTyped ==
    ASSUME NEW kind \in Kinds, NEW d \in Devices, NEW under \in Held \cup {None, Global, Router},
           NEW about \in Words, NEW key \in Issued \cup {None}
    PROVE  /\ Message(kind, d, under, about, key) \in MessageType
           /\ Message(kind, d, under, about, key).kind = kind
           /\ Message(kind, d, under, about, key).device = d
           /\ Message(kind, d, under, about, key).under = under
           /\ Message(kind, d, under, about, key).about = about
           /\ Message(kind, d, under, about, key).key = key
  BY DEF Message, MessageType

\* The messages of the devices when one of them goes and another comes.
LEMMA Exchanged ==
    ASSUME NEW d \in Devices, NEW old, NEW new, old.device = d, new.device = d,
           air' = (air \ {old}) \cup {new}
    PROVE  /\ Of(d)' = (Of(d) \ {old}) \cup {new}
           /\ \A e \in Devices \ {d} : Of(e)' = Of(e)
  BY DEF Of

LEMMA Removed ==
    ASSUME NEW d \in Devices, NEW old, old.device = d, air' = air \ {old}
    PROVE  /\ Of(d)' = Of(d) \ {old}
           /\ \A e \in Devices \ {d} : Of(e)' = Of(e)
  BY DEF Of

LEMMA Added ==
    ASSUME NEW d \in Devices, NEW new, new.device = d, air' = air \cup {new}
    PROVE  /\ Of(d)' = Of(d) \cup {new}
           /\ \A e \in Devices \ {d} : Of(e)' = Of(e)
  BY DEF Of

-----------------------------------------------------------------------------
(* The steps of the client, and joins *)

LEMMA LoseStep ==
    ASSUME TrustInv, NEW m \in air, air' = air \ {m},
           UNCHANGED <<setup, keys, joins, store, device, issued, registered>>, admitted \subseteq admitted'
    PROVE  TrustInv'
  <1>1. TrustTypes'
    BY DEF TrustInv, TrustTypes, SetupTypes, Seeded, Preconfigured
  <1>2. \A e \in Devices : Same(e)
    BY DEF Same, Still, Of
  <1> QED BY <1>1, <1>2, NoDevice

LEMMA RestartStep ==
    ASSUME TrustInv, Restart
    PROVE  TrustInv'
  <1>1. \A d \in Devices : keys'[d] = [key |-> store[d], provisional |-> FALSE, pending |-> None, counter |-> 0]
    BY DEF Restart, NoKeys
  <1>2. \A d \in Devices : store[d] \in Held \cup {None}
    BY DEF TrustInv, TrustTypes
  <1>3. UNCHANGED <<setup, store, device, air, issued, admitted>> /\ joins' = {} /\ registered' = {}
    BY DEF Restart
  <1>4. keys' = [d \in Devices |-> keys'[d]]
    BY DEF Restart
  <1>5. TrustTypes'
    <2>1. \A k \in Held \cup {None} : [key |-> k, provisional |-> FALSE, pending |-> None, counter |-> 0] \in EntryType
      BY DEF EntryType
    <2>2. \A d \in Devices : keys'[d] \in EntryType
      BY <1>1, <1>2, <2>1
    <2> QED BY <1>3, <1>4, <2>2 DEF TrustInv, TrustTypes, SetupTypes, Seeded, Preconfigured
  <1>6. ASSUME NEW d \in Devices PROVE DeviceInv(d)'
    <2>0. DeviceInv(d)
      BY DEF TrustInv
    <2>1. keys'[d].key = store[d] /\ keys'[d].pending = None /\ ~keys'[d].provisional
      <3>1. keys'[d] = [key |-> store[d], provisional |-> FALSE, pending |-> None, counter |-> 0]
        BY <1>1
      <3>2. keys'[d].key = store[d] /\ keys'[d].pending = None /\ keys'[d].provisional = FALSE
        BY <3>1
      <3> QED BY <3>2
    <2>2. Agreed(d) => Agreed(d)'
      BY <1>3, <2>1 DEF Agreed, DeviceLinkKey, Unkeyed, Seeded
    <2>3. Attached(d)' /\ Registration(d)' /\ JoinsInv(d)'
      BY <1>3, <2>0, <2>1 DEF DeviceInv, Attached, Registration, JoinsInv, Preconfigured
    <2>4. Proved(d) => Proved(d)'
      BY <1>3, <2>1 DEF Proved
    <2>5. Usable(d)'
      BY <1>3, <2>0, <2>2, <2>4 DEF DeviceInv, Usable
    <2>6. ASSUME NEW m \in Of(d), Fits(d, m) PROVE Fits(d, m)'
      <3>1. NetworkInv(d, m)'
        BY <1>3, <2>0, <2>1, <2>6 DEF Fits, NetworkInv, Preconfigured, DeviceInv, Registration
      <3>2. UpdateInv(d, m)'
        BY <1>3, <2>6 DEF Fits, UpdateInv
      <3>3. ExchangeInv(d, m)'
        BY <1>3, <2>1, <2>2, <2>6 DEF Fits, ExchangeInv
      <3> QED BY <1>3, <2>6, <3>1, <3>2, <3>3 DEF Fits, Solitary
    <2>7. Of(d)' = Of(d)
      BY <1>3 DEF Of
    <2>8. MessagesInv(d)'
      BY <2>0, <2>6, <2>7 DEF DeviceInv, MessagesInv
    <2> QED BY <2>3, <2>5, <2>8 DEF DeviceInv
  <1> QED BY <1>5, <1>6 DEF TrustInv

LEMMA SetProvisionalKeyStep ==
    ASSUME TrustInv, NEW d \in Devices, SetProvisionalKey(d)
    PROVE  TrustInv'
  <1>1. UNCHANGED <<setup, joins, store, device, air, issued, admitted>> /\ registered' = registered \cup {d}
    BY DEF SetProvisionalKey
  <1>2. ~device[d].member /\ Of(d) = {} /\ Preconfigured[d] = Code(d) /\ \A j \in joins : j.device # d
    BY DEF SetProvisionalKey, Idle, Of
  <1>3. keys[d] \in EntryType /\ keys \in [Devices -> EntryType]
    BY DEF TrustInv, TrustTypes
  <1>4. /\ keys' = [keys EXCEPT ![d] = keys'[d]]
        /\ keys'[d] = [key |-> Code(d), provisional |-> TRUE, pending |-> keys[d].pending, counter |-> keys[d].counter]
    BY <1>3 DEF SetProvisionalKey, EntryType
  <1>5. keys'[d] \in EntryType
    BY <1>3, <1>4, KeysDiffer DEF EntryType
  <1>6. TrustTypes'
    BY <1>1, <1>3, <1>4, <1>5 DEF TrustInv, TrustTypes, SetupTypes, Seeded, Preconfigured
  <1>7. \A e \in Devices \ {d} : Same(e)
    BY <1>1, <1>3, <1>4 DEF Same, Still, Of
  <1>8. Of(d)' = {}
    BY <1>1, <1>2 DEF Of
  <1>9. DeviceInv(d)'
    <2>1. Attached(d)' /\ Usable(d)'
      BY <1>1, <1>2 DEF TrustInv, DeviceInv, Attached, Usable, Preconfigured
    <2>2. Registration(d)'
      BY <1>1, <1>2, <1>4 DEF Registration, Preconfigured
    <2>3. JoinsInv(d)' /\ MessagesInv(d)'
      BY <1>1, <1>2, <1>8 DEF JoinsInv, MessagesInv
    <2> QED BY <2>1, <2>2, <2>3 DEF DeviceInv
  <1> QED BY <1>6, <1>7, <1>9, OneDevice

LEMMA BeginJoinFields ==
    ASSUME NEW s \in EntryType
    PROVE  /\ BeginJoin(s) \in EntryType
           /\ BeginJoin(s).key = IF s.provisional THEN s.key ELSE None
           /\ BeginJoin(s).provisional = s.provisional
  BY DEF BeginJoin, EntryType

\* begin_join leaves an install code's key, which is stored, or none.
LEMMA FreshJoinFacts ==
    ASSUME TrustInv, NEW d \in Devices, FreshJoin(d)
    PROVE  /\ keys' \in [Devices -> EntryType] /\ store' \in [Devices -> Held \cup {None}]
           /\ keys'[d] = BeginJoin(keys[d])
           /\ keys'[d].provisional = keys[d].provisional
           /\ keys[d].provisional => keys'[d].key = keys[d].key /\ store'[d] = keys'[d].key
           /\ ~keys[d].provisional => keys'[d].key = None
           /\ d \in admitted'
           /\ \A e \in Devices \ {d} : keys'[e] = keys[e] /\ store'[e] = store[e] /\ (e \in admitted => e \in admitted')
  <1>1. keys[d] \in EntryType /\ keys \in [Devices -> EntryType] /\ store \in [Devices -> Held \cup {None}]
    BY DEF TrustInv, TrustTypes
  <1>2. keys' = [keys EXCEPT ![d] = BeginJoin(keys[d])]
    BY DEF FreshJoin
  <1>3. /\ BeginJoin(keys[d]).key = IF keys[d].provisional THEN keys[d].key ELSE None
        /\ BeginJoin(keys[d]).provisional = keys[d].provisional
    BY <1>1, BeginJoinFields
  <1>4. BeginJoin(keys[d]) \in EntryType
    BY <1>1, BeginJoinFields
  <1>5. store' = IF keys[d].provisional THEN [store EXCEPT ![d] = keys[d].key] ELSE store
    BY DEF FreshJoin
  <1>6. keys[d].key \in Held \cup {None}
    BY <1>1 DEF EntryType
  <1>7. keys' \in [Devices -> EntryType] /\ keys'[d] = BeginJoin(keys[d])
        /\ \A e \in Devices \ {d} : keys'[e] = keys[e]
    BY <1>1, <1>2, <1>4
  <1>8. store' \in [Devices -> Held \cup {None}] /\ (keys[d].provisional => store'[d] = keys[d].key)
        /\ \A e \in Devices \ {d} : store'[e] = store[e]
    BY <1>1, <1>5, <1>6
  <1>9. admitted' = admitted \cup {d}
    BY DEF FreshJoin
  <1> QED BY <1>3, <1>7, <1>8, <1>9

LEMMA AssociateStep ==
    ASSUME TrustInv, NEW d \in Devices, Associate(d)
    PROVE  TrustInv'
  <1>1. UNCHANGED <<setup, device, air, issued, registered>> /\ FreshJoin(d)
        /\ joins' = (joins \ Unpolled(d)) \cup {[device |-> d, kind |-> "new"]}
    BY DEF Associate
  <1>2. ~device[d].member /\ Of(d) = {} /\ DeviceInv(d)
    BY DEF Associate, Idle, Of, TrustInv
  <1>3. TrustTypes'
    <2>1. joins' \subseteq [device : Devices, kind : {"new", "rejoin"}]
      BY <1>1 DEF TrustInv, TrustTypes
    <2> QED BY <1>1, <2>1, FreshJoinFacts DEF TrustInv, TrustTypes, SetupTypes, Seeded, Preconfigured
  <1>4. \A e \in Devices \ {d} : Same(e)
    BY <1>1, FreshJoinFacts DEF Same, Still, Of
  <1>5. Of(d)' = {}
    BY <1>1, <1>2 DEF Of
  <1>6. DeviceInv(d)'
    <2>1. Attached(d)' /\ Usable(d)'
      BY <1>1, <1>2 DEF DeviceInv, Attached, Usable, Preconfigured
    <2>2. Registration(d)'
      BY <1>1, <1>2, FreshJoinFacts DEF DeviceInv, Registration, Preconfigured
    <2>3. JoinInv(d, "new")'
      BY <1>1, <1>2, <1>5, FreshJoinFacts DEF JoinInv
    <2>4. \A j \in joins' : j.device = d => j.kind = "new"
      BY <1>1, <1>2 DEF DeviceInv, JoinsInv, JoinInv, TrustInv, TrustTypes
    <2>5. JoinsInv(d)' /\ MessagesInv(d)'
      BY <1>5, <2>3, <2>4 DEF JoinsInv, MessagesInv
    <2> QED BY <2>1, <2>2, <2>5 DEF DeviceInv
  <1> QED BY <1>3, <1>4, <1>6, OneDevice

LEMMA RejoinUnsecuredStep ==
    ASSUME TrustInv, NEW d \in Devices, RejoinUnsecured(d)
    PROVE  TrustInv'
  <1>1. UNCHANGED <<setup, keys, store, device, air, issued, registered, admitted>>
    BY DEF RejoinUnsecured
  <1>2. /\ joins' \subseteq joins \cup {[device |-> d, kind |-> "rejoin"]}
        /\ joins' = joins \/ MayRejoinUnsecured(d)
        /\ device[d].member
    BY DEF RejoinUnsecured
  <1>3. TrustTypes'
    BY <1>1, <1>2 DEF TrustInv, TrustTypes, SetupTypes, Seeded, Preconfigured
  <1>4. \A e \in Devices \ {d} : Same(e)
    BY <1>1, <1>2 DEF Same, Still, Of
  <1>5. CASE joins' = joins
    BY <1>1, <1>5, Unchanged
  <1>6. CASE MayRejoinUnsecured(d)
    <2>1. Of(d)' = Of(d) /\ MayRejoinUnsecured(d)'
      BY <1>1, <1>6 DEF Of, MayRejoinUnsecured, HasUniqueLinkKey, Seeded
    <2>2. JoinInv(d, "rejoin")'
      BY <1>1, <1>2, <2>1 DEF JoinInv
    <2>3. \A j \in joins : j.device = d => JoinInv(d, j.kind)'
      BY <1>1, <2>1 DEF TrustInv, DeviceInv, JoinsInv, JoinInv
    <2>4. JoinsInv(d)'
      BY <1>2, <2>2, <2>3 DEF JoinsInv
    <2>5. Attached(d)' /\ Registration(d)' /\ Usable(d)' /\ MessagesInv(d)'
      BY <1>1, <2>1, StillKeeps DEF TrustInv, DeviceInv, MessagesInv, Still
    <2> QED BY <1>3, <1>4, <2>4, <2>5, OneDevice DEF DeviceInv
  <1> QED BY <1>2, <1>5, <1>6

LEMMA LinkKeyTypes ==
    ASSUME SetupTypes, NEW s \in EntryType
    PROVE  /\ DeviceLinkKey(s) \in Held \cup {Global} /\ DeviceLinkKey(s) # None
           /\ JoinLinkKey(s) \in Held \cup {Global} /\ JoinLinkKey(s) # None
           /\ s.key # None => DeviceLinkKey(s) = s.key /\ JoinLinkKey(s) = s.key
           /\ s.key = None => JoinLinkKey(s) = Global
           /\ HasUniqueLinkKey(s) => DeviceLinkKey(s) # Global
  <1>1. s.key \in Held \cup {None}
    BY DEF EntryType
  <1>2. Seed \in Held
    BY KeysDiffer
  <1> QED BY <1>1, <1>2, KeysDiffer DEF DeviceLinkKey, JoinLinkKey, Unkeyed, HasUniqueLinkKey, SetupTypes

LEMMA NetworkKeyFields ==
    ASSUME SetupTypes, NEW s \in EntryType, NEW d \in Devices, NEW kind \in {"new", "rejoin"}
    PROVE  /\ NetworkKey(d, kind, s) \in MessageType
           /\ NetworkKey(d, kind, s).kind = "network" /\ NetworkKey(d, kind, s).device = d
           /\ NetworkKey(d, kind, s).about = kind
           /\ NetworkKey(d, kind, s).under = IF kind = "new" THEN JoinLinkKey(s) ELSE DeviceLinkKey(s)
  <1>1. JoinLinkKey(s) \in Held \cup {Global} /\ DeviceLinkKey(s) \in Held \cup {Global}
    BY LinkKeyTypes
  <1>2. "network" \in Kinds /\ kind \in Words
    BY DEF Kinds, Words
  <1> QED BY <1>1, <1>2, MessageTyped DEF NetworkKey

\* The network key for a joiner.
LEMMA NewKeyFits ==
    ASSUME NEW d \in Devices, NEW n, TrustTypes', Registration(d)', d \in admitted', ~device'[d].network,
           keys'[d].key # None => keys'[d].provisional /\ store'[d] = keys'[d].key,
           n.kind = "network", n.about = "new", n.under = JoinLinkKey(keys'[d])
    PROVE  Fits(d, n)'
  <1>1. keys'[d] \in EntryType /\ Preconfigured'[d] \in {Global, Code(d)}
    BY DEF TrustTypes, SetupTypes
  <1>2. /\ n.under # None
        /\ keys'[d].key # None => n.under = keys'[d].key
        /\ keys'[d].key = None => n.under = Global
    BY <1>1, KeysDiffer DEF JoinLinkKey, EntryType
  <1>3. (Preconfigured'[d] = Code(d) => d \in registered') => n.under = Preconfigured'[d]
    <2>1. CASE Preconfigured'[d] = Code(d)
      BY <1>2, <2>1, KeysDiffer DEF Registration
    <2>2. CASE Preconfigured'[d] = Global
      <3>1. ~keys'[d].provisional
        BY <2>2, KeysDiffer DEF Registration
      <3> QED BY <1>2, <2>2, <3>1
    <2> QED BY <1>1, <2>1, <2>2
  <1>4. NetworkInv(d, n)'
    BY <1>2, <1>3 DEF NetworkInv
  <1> QED BY <1>4 DEF Fits, UpdateInv, ExchangeInv

\* The network key for a device that rejoins.
LEMMA RejoinKeyFits ==
    ASSUME NEW d \in Devices, NEW n, TrustTypes, MayRejoinUnsecured(d), device'[d].member, ~device'[d].network,
           n.kind = "network", n.about = "rejoin", n.under = DeviceLinkKey(keys[d])
    PROVE  Fits(d, n)'
  <1>1. keys[d] \in EntryType /\ SetupTypes
    BY DEF TrustTypes
  <1>2. n.under # None /\ (HasUniqueLinkKey(keys[d]) => n.under # Global)
    BY <1>1, LinkKeyTypes
  <1>3. NetworkInv(d, n)'
    BY <1>2 DEF NetworkInv, MayRejoinUnsecured
  <1> QED BY <1>3 DEF Fits, UpdateInv, ExchangeInv

LEMMA LoneMessage ==
    ASSUME NEW d \in Devices, NEW n, Of(d)' = {n}, Fits(d, n)'
    PROVE  MessagesInv(d)'
  BY DEF MessagesInv

LEMMA DeliverKeyStep ==
    ASSUME TrustInv, NEW j \in joins, DeliverKey(j)
    PROVE  TrustInv'
  <1>0. PICK d \in Devices : d = j.device
    BY DEF TrustInv, TrustTypes
  <1>1. /\ UNCHANGED <<setup, keys, store, device, issued, registered, admitted>> /\ joins' = joins \ {j}
        /\ air' = air \cup {NetworkKey(d, j.kind, keys[d])}
    BY <1>0 DEF DeliverKey, Sent
  <1>2. DeviceInv(d) /\ Of(d) = {} /\ ~device[d].network /\ j.kind \in {"new", "rejoin"} /\ TrustTypes
    BY <1>0 DEF DeliverKey, Idle, Of, TrustInv, TrustTypes
  <1>3. keys[d] \in EntryType /\ SetupTypes
    BY DEF TrustInv, TrustTypes
  <1>4. PICK n : n = NetworkKey(d, j.kind, keys[d])
    OBVIOUS
  <1>5. /\ n \in MessageType /\ n.kind = "network" /\ n.device = d /\ n.about = j.kind
        /\ n.under = IF j.kind = "new" THEN JoinLinkKey(keys[d]) ELSE DeviceLinkKey(keys[d])
    BY <1>2, <1>3, <1>4, NetworkKeyFields
  <1>6. TrustTypes'
    BY <1>1, <1>4, <1>5 DEF TrustInv, TrustTypes, SetupTypes, Seeded, Preconfigured
  <1>7. Of(d)' = {n} /\ \A e \in Devices \ {d} : Of(e)' = Of(e)
    BY <1>1, <1>2, <1>4, <1>5, Added
  <1>8. Still(d) /\ \A e \in Devices \ {d} : Same(e)
    BY <1>1, <1>7 DEF Same, Still
  <1>9. Attached(d)' /\ Registration(d)' /\ Usable(d)'
    BY <1>2, <1>8, StillKeeps
  <1>10. JoinInv(d, j.kind) /\ \A i \in joins : i.device = d => JoinInv(d, i.kind)
    BY <1>0, <1>2 DEF DeviceInv, JoinsInv
  <1>11. \A i \in joins : i.device = d => i = j
    <2> SUFFICES ASSUME NEW i \in joins, i.device = d PROVE i = j
      OBVIOUS
    <2>1. i.kind = j.kind
      BY <1>2, <1>10 DEF JoinInv, TrustTypes
    <2> QED BY <1>0, <1>2, <2>1 DEF TrustTypes
  <1>12. JoinsInv(d)'
    BY <1>1, <1>11 DEF JoinsInv
  <1>13. CASE j.kind = "new"
    <2>1. Fits(d, n)'
      BY <1>1, <1>2, <1>5, <1>6, <1>9, <1>10, <1>13, NewKeyFits DEF JoinInv
    <2> QED BY <1>6, <1>7, <1>8, <1>9, <1>12, <2>1, LoneMessage, OneDevice DEF DeviceInv
  <1>14. CASE j.kind = "rejoin"
    <2>1. Fits(d, n)'
      BY <1>1, <1>2, <1>5, <1>10, <1>14, RejoinKeyFits DEF JoinInv
    <2> QED BY <1>6, <1>7, <1>8, <1>9, <1>12, <2>1, LoneMessage, OneDevice DEF DeviceInv
  <1> QED BY <1>2, <1>13, <1>14

-----------------------------------------------------------------------------
(* Messages *)

LEMMA OneMoreMessage ==
    ASSUME NEW d \in Devices, NEW n, NEW old \in SUBSET Of(d), MessagesInv(d), Of(d)' = old \cup {n},
           Fits(d, n)', \A m \in old : Fits(d, m)', \A m \in old : ~Solitary(m),
           Solitary(n) => old = {}, Proof(n) => \A m \in old : ~Proof(m)
    PROVE  MessagesInv(d)'
  BY DEF MessagesInv

LEMMA FewerMessages ==
    ASSUME NEW d \in Devices, MessagesInv(d), Of(d)' \subseteq Of(d), \A m \in Of(d)' : Fits(d, m)'
    PROVE  MessagesInv(d)'
  BY DEF MessagesInv

\* A step that changes no key of a device, and neither whether it has joined nor its exchange.
Keyed(e) ==
    /\ setup' = setup /\ device'[e] = device[e] /\ store'[e] = store[e]
    /\ keys'[e].key = keys[e].key /\ keys'[e].provisional = keys[e].provisional
    /\ (e \in registered' <=> e \in registered) /\ (e \in admitted => e \in admitted')

LEMMA KeyedKeeps ==
    ASSUME NEW e \in Devices, DeviceInv(e), Keyed(e)
    PROVE  /\ Attached(e)' /\ Registration(e)'
           /\ Agreed(e) => Agreed(e)'
           /\ MayRejoinUnsecured(e) => MayRejoinUnsecured(e)'
           /\ \A m \in Of(e) : Fits(e, m)'
  <1>1. Attached(e)' /\ Registration(e)'
    BY DEF DeviceInv, Keyed, Attached, Registration, Preconfigured
  <1>2. Agreed(e) => Agreed(e)'
    BY DEF Keyed, Agreed, DeviceLinkKey, Unkeyed, Seeded
  <1>3. MayRejoinUnsecured(e) => MayRejoinUnsecured(e)'
    BY DEF Keyed, MayRejoinUnsecured, HasUniqueLinkKey, Seeded
  <1>4. ASSUME NEW m, Fits(e, m) PROVE Fits(e, m)'
    <2>1. NetworkInv(e, m)' /\ UpdateInv(e, m)'
      BY <1>4 DEF Keyed, Fits, NetworkInv, UpdateInv, Preconfigured
    <2>2. ExchangeInv(e, m)'
      BY <1>2, <1>4 DEF Keyed, Fits, ExchangeInv
    <2> QED BY <1>4, <2>1, <2>2 DEF Keyed, Fits, Solitary
  <1> QED BY <1>1, <1>2, <1>3, <1>4 DEF DeviceInv, MessagesInv

\* No tasklet of a fresh join waits while a message of the device is in flight.
LEMMA OnlyRejoins ==
    ASSUME NEW d \in Devices, DeviceInv(d), Of(d) # {} \/ device[d].member, NEW j \in joins, j.device = d,
           TrustTypes
    PROVE  j.kind = "rejoin" /\ device[d].member /\ MayRejoinUnsecured(d)
  BY DEF DeviceInv, JoinsInv, JoinInv, TrustTypes

LEMMA RejoinsKept ==
    ASSUME NEW d \in Devices, TrustTypes, DeviceInv(d), Of(d) # {} \/ device[d].member, joins' \subseteq joins,
           device[d].member => device'[d].member, MayRejoinUnsecured(d) => MayRejoinUnsecured(d)'
    PROVE  JoinsInv(d)'
  BY OnlyRejoins DEF JoinsInv, JoinInv

LEMMA ReportDeviceStep ==
    ASSUME TrustInv, NEW d \in Devices, NEW status \in {"join", "rejoin", "secured", "left"},
           NEW secured \in BOOLEAN, ReportDevice(d, status, secured)
    PROVE  TrustInv'
  <1>0. DeviceInv(d) /\ TrustTypes
    BY DEF TrustInv
  <1>1. UNCHANGED <<setup, keys, store, device, issued, registered, admitted>> /\ joins' = joins \ Unpolled(d)
    BY DEF ReportDevice
  <1>2. PICK n : n = Message("update", d, IF secured THEN Router ELSE None, status, None)
    OBVIOUS
  <1>3. n \in MessageType /\ n.kind = "update" /\ n.device = d /\ n.about = status
    <2>1. "update" \in Kinds /\ status \in Words
      BY DEF Kinds, Words
    <2>2. PICK under \in Held \cup {None, Global, Router} : under = IF secured THEN Router ELSE None
      OBVIOUS
    <2> QED BY <1>2, <2>1, <2>2, MessageTyped
  <1>4. air' = air \cup {n}
    BY <1>2 DEF ReportDevice, Sent
  <1>5. Of(d)' = Of(d) \cup {n} /\ \A e \in Devices \ {d} : Of(e)' = Of(e)
    BY <1>3, <1>4, Added
  <1>6. TrustTypes'
    BY <1>1, <1>3, <1>4 DEF TrustInv, TrustTypes, SetupTypes, Seeded, Preconfigured
  <1>7. Still(d) /\ \A e \in Devices \ {d} : Same(e)
    BY <1>1, <1>5 DEF Same, Still
  <1>8. /\ status = "join" => ~device[d].member
        /\ status = "rejoin" => device[d].member
        /\ status # "secured" => ~device[d].network /\ Of(d) = {}
        /\ status = "secured" => device[d].network
    BY DEF ReportDevice, Idle, Of
  <1>9. Fits(d, n)'
    BY <1>1, <1>3, <1>8 DEF Fits, Solitary, NetworkInv, UpdateInv, ExchangeInv
  <1>10. \A m \in Of(d) : ~Solitary(m)
    BY <1>0, <1>8 DEF DeviceInv, MessagesInv, Fits
  <1>11. MessagesInv(d)'
    <2>1. Solitary(n) => Of(d) = {}
      BY <1>3, <1>8 DEF Solitary
    <2>2. ~Proof(n)
      BY <1>3 DEF Proof
    <2>3. \A m \in Of(d) : Fits(d, m)'
      BY <1>0, <1>7, StillKeeps
    <2> QED BY <1>0, <1>5, <1>9, <1>10, <2>1, <2>2, <2>3, OneMoreMessage DEF DeviceInv
  <1>12. JoinsInv(d)'
    <2> SUFFICES ASSUME NEW j \in joins', j.device = d PROVE JoinInv(d, j.kind)'
      BY DEF JoinsInv
    <2>1. j \in joins /\ j.kind = "rejoin"
      BY <1>0, <1>1 DEF Unpolled, TrustTypes
    <2>2. device[d].member /\ MayRejoinUnsecured(d)
      BY <1>0, <2>1 DEF DeviceInv, JoinsInv, JoinInv
    <2> QED BY <1>0, <1>1, <1>7, <2>1, <2>2, StillKeeps DEF JoinInv
  <1> QED BY <1>0, <1>6, <1>7, <1>11, <1>12, StillKeeps, OneDevice DEF DeviceInv

LEMMA HandleUpdateDeviceStep ==
    ASSUME TrustInv, NEW m \in air, HandleUpdateDevice(m)
    PROVE  TrustInv'
  <1>0. PICK d \in Devices : d = m.device
    BY DEF TrustInv, TrustTypes, MessageType
  <1>1. UNCHANGED <<setup, joins, device, issued, registered>> /\ m.kind = "update"
    BY DEF HandleUpdateDevice
  <1>2. DeviceInv(d) /\ TrustTypes /\ m \in Of(d) /\ keys[d] \in EntryType /\ SetupTypes
    BY <1>0 DEF TrustInv, TrustTypes, Of
  <1>3. UpdateInv(d, m) /\ (Solitary(m) => ~device[d].network /\ Of(d) = {m})
    BY <1>2 DEF DeviceInv, MessagesInv, Fits
  <1>4. CASE Took(m, {}) /\ UNCHANGED <<keys, store, admitted>>
    <2>1. air' = air \ {m}
      BY <1>4 DEF Took, Sent
    <2> QED BY <1>1, <1>4, <2>1, LoseStep
  <1>5. CASE m.about = "join" /\ FreshJoin(d) /\ Took(m, {NetworkKey(d, "new", BeginJoin(keys[d]))})
    <2>1. ~device[d].member /\ ~device[d].network /\ Of(d) = {m}
      BY <1>1, <1>3, <1>5 DEF UpdateInv, Solitary
    <2>2. PICK n : n = NetworkKey(d, "new", BeginJoin(keys[d]))
      OBVIOUS
    <2>3. BeginJoin(keys[d]) \in EntryType
      BY <1>2, BeginJoinFields
    <2>4. /\ n \in MessageType /\ n.kind = "network" /\ n.device = d /\ n.about = "new"
          /\ n.under = JoinLinkKey(BeginJoin(keys[d]))
      BY <1>2, <2>2, <2>3, NetworkKeyFields
    <2>5. air' = (air \ {m}) \cup {n}
      BY <1>5, <2>2 DEF Took, Sent
    <2>6. Of(d)' = {n} /\ \A e \in Devices \ {d} : Of(e)' = Of(e)
      BY <1>0, <2>1, <2>4, <2>5, Exchanged
    <2>7. TrustTypes'
      BY <1>1, <1>2, <1>5, <2>4, <2>5, FreshJoinFacts DEF TrustTypes, SetupTypes, Seeded, Preconfigured
    <2>8. \A e \in Devices \ {d} : Same(e)
      BY <1>1, <1>5, <2>6, FreshJoinFacts DEF Same, Still
    <2>9. Attached(d)' /\ Usable(d)'
      BY <1>1, <1>2, <2>1 DEF DeviceInv, Attached, Usable, Preconfigured
    <2>10. Registration(d)'
      BY <1>1, <1>2, <1>5, FreshJoinFacts DEF DeviceInv, Registration, Preconfigured
    <2>11. Fits(d, n)'
      <3>1. n.under = JoinLinkKey(keys'[d]) /\ d \in admitted'
            /\ (keys'[d].key # None => keys'[d].provisional /\ store'[d] = keys'[d].key)
        BY <1>5, <2>4, FreshJoinFacts
      <3> QED BY <1>1, <2>1, <2>4, <2>7, <2>10, <3>1, NewKeyFits
    <2>12. JoinsInv(d)'
      BY <1>1, <1>2, <2>1, OnlyRejoins DEF JoinsInv
    <2> QED BY <2>6, <2>7, <2>8, <2>9, <2>10, <2>11, <2>12, LoneMessage, OneDevice DEF DeviceInv
  <1>6. CASE /\ m.about = "rejoin" /\ MayRejoinUnsecured(d)
             /\ Took(m, {NetworkKey(d, "rejoin", keys[d])}) /\ UNCHANGED <<keys, store, admitted>>
    <2>1. device[d].member /\ ~device[d].network /\ Of(d) = {m}
      BY <1>1, <1>3, <1>6 DEF UpdateInv, Solitary
    <2>2. PICK n : n = NetworkKey(d, "rejoin", keys[d])
      OBVIOUS
    <2>3. /\ n \in MessageType /\ n.kind = "network" /\ n.device = d /\ n.about = "rejoin"
          /\ n.under = DeviceLinkKey(keys[d])
      BY <1>2, <2>2, NetworkKeyFields
    <2>4. air' = (air \ {m}) \cup {n}
      BY <1>6, <2>2 DEF Took, Sent
    <2>5. Of(d)' = {n} /\ \A e \in Devices \ {d} : Of(e)' = Of(e)
      BY <1>0, <2>1, <2>3, <2>4, Exchanged
    <2>6. TrustTypes'
      BY <1>1, <1>2, <1>6, <2>3, <2>4 DEF TrustTypes, SetupTypes, Seeded, Preconfigured
    <2>7. Still(d) /\ \A e \in Devices \ {d} : Same(e)
      BY <1>1, <1>6, <2>5 DEF Same, Still
    <2>8. Fits(d, n)'
      BY <1>1, <1>2, <1>6, <2>1, <2>3, RejoinKeyFits
    <2>9. JoinsInv(d)'
      BY <1>1, <1>2, <2>1, <2>7, StillKeeps, RejoinsKept
    <2> QED BY <1>2, <2>5, <2>6, <2>7, <2>8, <2>9, StillKeeps, LoneMessage, OneDevice DEF DeviceInv
  <1>7. CASE m.about = "secured" /\ Took(m, {}) /\ UNCHANGED <<keys, store, admitted>>
    BY <1>4, <1>7
  <1> QED BY <1>0, <1>4, <1>5, <1>6, <1>7 DEF HandleUpdateDevice

-----------------------------------------------------------------------------
(* The exchange of a link key *)

\* No message of an exchange is in flight beside one that is alone.
LEMMA NoneSolitary ==
    ASSUME NEW d \in Devices, MessagesInv(d), NEW m \in Of(d), ~Solitary(m)
    PROVE  \A n \in Of(d) : ~Solitary(n)
  BY DEF MessagesInv

LEMMA IssuedFields ==
    ASSUME SetupTypes, NEW s \in EntryType, NEW m \in MessageType, NEW fresh \in Issued
    PROVE  /\ Counted(s, m) \in EntryType
           /\ Counted(s, m).key = s.key /\ Counted(s, m).provisional = s.provisional
           /\ IssueDeviceKey(Counted(s, m), fresh) \in EntryType
           /\ IssueDeviceKey(Counted(s, m), fresh).key = s.key
           /\ IssueDeviceKey(Counted(s, m), fresh).provisional = s.provisional
           /\ (IF Seeded THEN Seed ELSE fresh) \in Issued
  <1>1. Counted(s, m) \in EntryType /\ Counted(s, m).key = s.key /\ Counted(s, m).provisional = s.provisional
    BY DEF Counted, EntryType, MessageType
  <1>2. PICK k \in Issued : k = IF Seeded THEN Seed ELSE fresh
    BY KeysDiffer
  <1>3. ASSUME NEW t \in EntryType
        PROVE  /\ IssueDeviceKey(t, fresh) \in EntryType
               /\ IssueDeviceKey(t, fresh).key = t.key /\ IssueDeviceKey(t, fresh).provisional = t.provisional
    BY <1>2 DEF IssueDeviceKey, EntryType
  <1> QED BY <1>1, <1>2, <1>3

LEMMA HandleRequestKeyStep ==
    ASSUME TrustInv, NEW m \in air, HandleRequestKey(m)
    PROVE  TrustInv'
  <1>0. PICK d \in Devices : d = m.device
    BY DEF TrustInv, TrustTypes, MessageType
  <1>1. UNCHANGED <<setup, joins, store, device, registered, admitted>> /\ m.kind = "request"
    BY DEF HandleRequestKey
  <1>2. /\ DeviceInv(d) /\ TrustTypes /\ m \in Of(d) /\ keys[d] \in EntryType /\ SetupTypes
        /\ keys \in [Devices -> EntryType] /\ m \in MessageType /\ issued \in Nat
    BY <1>0 DEF TrustInv, TrustTypes, Of
  <1>3. ~Solitary(m) /\ ~Proof(m)
    BY <1>1 DEF Solitary, Proof
  <1>4. \A n \in Of(d) : ~Solitary(n)
    BY <1>2, <1>3, NoneSolitary DEF DeviceInv
  <1>5. PICK fresh \in Issued : fresh = Fresh(issued + 1)
    BY <1>2, KeysDiffer
  <1>b. PICK blank \in Words : blank = ""
    BY DEF Words
  <1>6. ASSUME NEW s \in EntryType, s.key = keys[d].key, s.provisional = keys[d].provisional,
               keys' = [keys EXCEPT ![d] = s], Decrypts(keys[d], m)
        PROVE  /\ keys' \in [Devices -> EntryType] /\ Keyed(d) /\ Usable(d)'
               /\ \A e \in Devices \ {d} : Still(e)
    <2>1. keys' \in [Devices -> EntryType] /\ keys'[d] = s /\ \A e \in Devices \ {d} : keys'[e] = keys[e]
      BY <1>2, <1>6
    <2>2. Keyed(d)
      BY <1>1, <1>6, <2>1 DEF Keyed
    <2>3. device[d].member => device[d].key = Global \/ Agreed(d)
      <3>1. ExchangeInv(d, m)
        BY <1>2 DEF DeviceInv, MessagesInv, Fits
      <3>2. ASSUME Proved(d) PROVE device[d].key = Global \/ Agreed(d)
        BY <1>1, <1>6, <3>1, <3>2 DEF Proved, ExchangeInv, Decrypts, Candidates, Agreed
      <3> QED BY <1>2, <3>2 DEF DeviceInv, Usable
    <2>4. Usable(d)'
      BY <1>1, <1>2, <2>2, <2>3, KeyedKeeps DEF Usable
    <2> QED BY <1>1, <2>1, <2>2, <2>4 DEF Still
  <1>7. CASE ~Decrypts(keys[d], m) /\ Took(m, {}) /\ UNCHANGED <<keys, issued>>
    <2>1. air' = air \ {m}
      BY <1>7 DEF Took, Sent
    <2> QED BY <1>1, <1>7, <2>1, LoseStep
  <1>8. CASE /\ Decrypts(keys[d], m) /\ keys' = [keys EXCEPT ![d] = Counted(keys[d], m)]
             /\ Took(m, {}) /\ UNCHANGED issued
    <2>1. air' = air \ {m}
      BY <1>8 DEF Took, Sent
    <2>2. Of(d)' = Of(d) \ {m} /\ \A e \in Devices \ {d} : Of(e)' = Of(e)
      BY <1>0, <2>1, Removed
    <2>3. PICK s \in EntryType : s = Counted(keys[d], m) /\ s.key = keys[d].key /\ s.provisional = keys[d].provisional
      BY <1>2, <1>5, IssuedFields
    <2>4. keys' \in [Devices -> EntryType] /\ Keyed(d) /\ Usable(d)' /\ \A e \in Devices \ {d} : Still(e)
      BY <1>6, <1>8, <2>3
    <2>5. TrustTypes'
      BY <1>1, <1>2, <1>8, <2>1, <2>4 DEF TrustTypes, SetupTypes, Seeded, Preconfigured
    <2>6. \A e \in Devices \ {d} : Same(e)
      BY <1>1, <2>2, <2>4 DEF Same
    <2>7. MessagesInv(d)'
      BY <1>2, <2>2, <2>4, KeyedKeeps, FewerMessages DEF DeviceInv
    <2>8. JoinsInv(d)'
      BY <1>1, <1>2, <2>4, KeyedKeeps, RejoinsKept
    <2> QED BY <1>2, <2>4, <2>5, <2>6, <2>7, <2>8, KeyedKeeps, OneDevice DEF DeviceInv
  <1>9. CASE /\ Decrypts(keys[d], m) /\ keys' = [keys EXCEPT ![d] = IssueDeviceKey(Counted(keys[d], m), fresh)]
             /\ issued' = issued + 1
             /\ Took(m, {Message("link", d, m.under, blank, IF Seeded THEN Seed ELSE fresh)})
    <2>0. PICK n : n = Message("link", d, m.under, blank, IF Seeded THEN Seed ELSE fresh)
      OBVIOUS
    <2>1. n \in MessageType /\ n.kind = "link" /\ n.device = d /\ n.key # None
      <3>1. "link" \in Kinds /\ m.under \in Held \cup {None, Global, Router}
        BY <1>2 DEF Kinds, Words, MessageType
      <3>2. PICK k \in Issued : k = IF Seeded THEN Seed ELSE fresh
        BY <1>2, <1>5, IssuedFields
      <3>3. k \in Issued \cup {None} /\ k # None
        BY KeysDiffer
      <3>4. PICK under \in Held \cup {None, Global, Router} : under = m.under
        BY <3>1
      <3>5. n = Message("link", d, under, blank, k)
        BY <2>0, <3>2, <3>4
      <3> QED BY <3>1, <3>3, <3>5, MessageTyped
    <2>2. air' = (air \ {m}) \cup {n}
      BY <1>9, <2>0 DEF Took, Sent
    <2>3. Of(d)' = (Of(d) \ {m}) \cup {n} /\ \A e \in Devices \ {d} : Of(e)' = Of(e)
      BY <1>0, <2>1, <2>2, Exchanged
    <2>4. PICK s \in EntryType : /\ s = IssueDeviceKey(Counted(keys[d], m), fresh)
                                 /\ s.key = keys[d].key /\ s.provisional = keys[d].provisional
      BY <1>2, <1>5, IssuedFields
    <2>5. keys' \in [Devices -> EntryType] /\ Keyed(d) /\ Usable(d)' /\ \A e \in Devices \ {d} : Still(e)
      BY <1>6, <1>9, <2>4
    <2>6. TrustTypes'
      <3>1. air' \subseteq MessageType
        BY <1>2, <2>1, <2>2 DEF TrustTypes
      <3>2. issued' \in Nat
        BY <1>2, <1>9
      <3> QED BY <1>1, <1>2, <2>5, <3>1, <3>2 DEF TrustTypes, SetupTypes, Seeded, Preconfigured
    <2>7. \A e \in Devices \ {d} : Same(e)
      BY <1>1, <2>3, <2>5 DEF Same
    <2>8. MessagesInv(d)'
      <3>1. PICK old \in SUBSET Of(d) : old = Of(d) \ {m}
        OBVIOUS
      <3>2. Fits(d, n)' /\ ~Solitary(n) /\ ~Proof(n)
        BY <2>1 DEF Fits, Solitary, Proof, NetworkInv, UpdateInv, ExchangeInv
      <3> QED BY <1>2, <1>4, <2>3, <2>5, <3>1, <3>2, KeyedKeeps, OneMoreMessage DEF DeviceInv
    <2>9. JoinsInv(d)'
      BY <1>1, <1>2, <2>5, KeyedKeeps, RejoinsKept
    <2> QED BY <1>2, <2>5, <2>6, <2>7, <2>8, <2>9, KeyedKeeps, OneDevice DEF DeviceInv
  <1> QED BY <1>0, <1>5, <1>b, <1>7, <1>8, <1>9 DEF HandleRequestKey

\* A message that neither proves anything nor is alone depends on the key of the device only.
LEMMA PlainFits ==
    ASSUME NEW d \in Devices, NEW m, Fits(d, m), ~Solitary(m), ~Proof(m),
           m.kind = "request" /\ device'[d].phase # "idle" => m.under = device'[d].key
    PROVE  Fits(d, m)'
  BY DEF Fits, Solitary, Proof, NetworkInv, UpdateInv, ExchangeInv

LEMMA ConfirmTyped ==
    ASSUME NEW d \in Devices, NEW under \in Held \cup {None, Global}, NEW about \in {"success", "failed"}
    PROVE  /\ Message("confirm", d, under, about, None) \in MessageType
           /\ Message("confirm", d, under, about, None).kind = "confirm"
           /\ Message("confirm", d, under, about, None).device = d
           /\ Message("confirm", d, under, about, None).under = under
           /\ Message("confirm", d, under, about, None).about = about
  <1>1. "confirm" \in Kinds /\ about \in Words
    BY DEF Kinds, Words
  <1>2. under \in Held \cup {None, Global, Router} /\ None \in Issued \cup {None}
    OBVIOUS
  <1> QED BY <1>1, <1>2, MessageTyped

\* A proof that fails: the device still uses the key of its entry, or the well-known key.
LEMMA ProofFails ==
    ASSUME TrustInv, NEW d \in Devices, NEW m \in air, m.device = d, m.kind = "verify",
           ~OnRecord(keys[d]) \/ ~Verifies(keys[d], m.key),
           NEW under \in Held \cup {None, Global}, Took(m, {Message("confirm", d, under, "failed", None)}),
           UNCHANGED <<setup, keys, joins, store, device, issued, registered, admitted>>
    PROVE  TrustInv'
  <1>1. DeviceInv(d) /\ TrustTypes /\ m \in Of(d)
    BY DEF TrustInv, Of
  <1>2. ExchangeInv(d, m) /\ ~Solitary(m) /\ Proof(m)
    BY <1>1 DEF DeviceInv, MessagesInv, Fits, Solitary, Proof
  <1>3. device[d].phase = "proving" /\ m.key = device[d].pending /\ m.key # None /\ device[d].member
    BY <1>1, <1>2 DEF ExchangeInv, DeviceInv, Attached
  <1>4. ~Proved(d)
    BY <1>3 DEF Proved, OnRecord, Verifies
  <1>5. device[d].key = Global \/ Agreed(d)
    BY <1>1, <1>3, <1>4 DEF DeviceInv, Usable
  <1>6. PICK n : n = Message("confirm", d, under, "failed", None)
    OBVIOUS
  <1>7. n \in MessageType /\ n.kind = "confirm" /\ n.device = d /\ n.about = "failed"
    BY <1>6, ConfirmTyped
  <1>8. air' = (air \ {m}) \cup {n}
    BY <1>6 DEF Took, Sent
  <1>9. Of(d)' = (Of(d) \ {m}) \cup {n} /\ \A e \in Devices \ {d} : Of(e)' = Of(e)
    BY <1>7, <1>8, Exchanged
  <1>10. TrustTypes'
    BY <1>1, <1>7, <1>8 DEF TrustTypes, SetupTypes, Seeded, Preconfigured
  <1>11. Still(d) /\ \A e \in Devices \ {d} : Same(e)
    BY <1>9 DEF Same, Still
  <1>12. Fits(d, n)'
    <2>1. (device[d].key = Global \/ Agreed(d))'
      BY <1>5 DEF Agreed, DeviceLinkKey, Unkeyed, Seeded
    <2>2. device'[d].phase = "proving"
      BY <1>3
    <2> QED BY <1>7, <2>1, <2>2 DEF Fits, Solitary, NetworkInv, UpdateInv, ExchangeInv
  <1>13. MessagesInv(d)'
    <2>1. PICK old \in SUBSET Of(d) : old = Of(d) \ {m}
      OBVIOUS
    <2>2. \A k \in old : ~Solitary(k) /\ ~Proof(k)
      BY <1>1, <1>2, <2>1, NoneSolitary DEF DeviceInv, MessagesInv
    <2>3. ~Solitary(n)
      BY <1>7 DEF Solitary
    <2> QED BY <1>1, <1>9, <1>11, <1>12, <2>1, <2>2, <2>3, StillKeeps, OneMoreMessage DEF DeviceInv
  <1>14. JoinsInv(d)'
    BY <1>1, <1>11, StillKeeps, RejoinsKept
  <1> QED BY <1>1, <1>10, <1>11, <1>13, <1>14, StillKeeps, OneDevice DEF DeviceInv

\* A proof that succeeds: the entry takes the key, the client stores it and the answer is on its way.
LEMMA ProofSucceeds ==
    ASSUME TrustInv, NEW d \in Devices, NEW m \in air, m.device = d, m.kind = "verify",
           Verifies(keys[d], m.key), keys' = [keys EXCEPT ![d] = VerifyDeviceKey(keys[d], m.key)],
           store' = [store EXCEPT ![d] = DeviceLinkKey(VerifyDeviceKey(keys[d], m.key))],
           registered' = registered \ {d},
           Took(m, {Message("confirm", d, DeviceLinkKey(VerifyDeviceKey(keys[d], m.key)), "success", None)}),
           UNCHANGED <<setup, joins, device, issued, admitted>>
    PROVE  TrustInv'
  <1>1. /\ DeviceInv(d) /\ TrustTypes /\ m \in Of(d) /\ keys \in [Devices -> EntryType]
        /\ keys[d] \in EntryType /\ store \in [Devices -> Held \cup {None}]
    BY DEF TrustInv, TrustTypes, Of
  <1>2. ExchangeInv(d, m) /\ ~Solitary(m) /\ Proof(m)
    BY <1>1 DEF DeviceInv, MessagesInv, Fits, Solitary, Proof
  <1>3. device[d].phase = "proving" /\ m.key = device[d].pending /\ m.key # None /\ device[d].member
    BY <1>1, <1>2 DEF ExchangeInv, DeviceInv, Attached
  <1>4. PICK p \in Issued : p = m.key
    BY <1>1, <1>3 DEF TrustTypes, DeviceType
  <1>5. p # None /\ p \in Held
    BY KeysDiffer
  <1>6. PICK s \in EntryType : /\ s = VerifyDeviceKey(keys[d], p)
                               /\ s.key = p /\ s.pending = None /\ s.provisional = FALSE
    <2>1. VerifyDeviceKey(keys[d], p) = [keys[d] EXCEPT !.key = p, !.pending = None, !.provisional = FALSE]
      BY <1>4 DEF VerifyDeviceKey
    <2>2. VerifyDeviceKey(keys[d], p) \in EntryType
      BY <1>1, <1>5, <2>1 DEF EntryType
    <2>3. /\ VerifyDeviceKey(keys[d], p).key = p /\ VerifyDeviceKey(keys[d], p).pending = None
          /\ VerifyDeviceKey(keys[d], p).provisional = FALSE
      BY <1>1, <2>1 DEF EntryType
    <2> QED BY <2>2, <2>3
  <1>7. DeviceLinkKey(s) = p
    BY <1>5, <1>6 DEF DeviceLinkKey
  <1>8. /\ keys' \in [Devices -> EntryType] /\ store' \in [Devices -> Held \cup {None}]
        /\ keys'[d] = s /\ store'[d] = p
        /\ \A e \in Devices \ {d} : keys'[e] = keys[e] /\ store'[e] = store[e]
    BY <1>1, <1>4, <1>5, <1>6, <1>7
  <1>9. PICK n : n = Message("confirm", d, p, "success", None)
    OBVIOUS
  <1>10. n \in MessageType /\ n.kind = "confirm" /\ n.device = d /\ n.about = "success" /\ n.under = p
    BY <1>5, <1>9, ConfirmTyped
  <1>11. air' = (air \ {m}) \cup {n}
    BY <1>4, <1>6, <1>7, <1>9 DEF Took, Sent
  <1>12. Of(d)' = (Of(d) \ {m}) \cup {n} /\ \A e \in Devices \ {d} : Of(e)' = Of(e)
    BY <1>10, <1>11, Exchanged
  <1>13. TrustTypes'
    <2>1. air' \subseteq MessageType
      BY <1>1, <1>10, <1>11 DEF TrustTypes
    <2> QED BY <1>1, <1>8, <2>1 DEF TrustTypes, SetupTypes, Seeded, Preconfigured
  <1>14. \A e \in Devices \ {d} : Same(e)
    BY <1>8, <1>12 DEF Same, Still
  <1>15. Attached(d)'
    BY <1>1 DEF DeviceInv, Attached, Preconfigured
  <1>16. Registration(d)'
    BY <1>6, <1>8 DEF Registration
  <1>17. Usable(d)'
    <2>1. Proved(d)'
      BY <1>3, <1>4, <1>6, <1>8 DEF Proved
    <2> QED BY <2>1 DEF Usable
  <1>18. Fits(d, n)'
    <2>1. device'[d].phase = "proving" /\ keys'[d].key = p
      BY <1>3, <1>6, <1>8
    <2> QED BY <1>5, <1>8, <1>10, <2>1 DEF Fits, Solitary, NetworkInv, UpdateInv, ExchangeInv
  <1>19. MessagesInv(d)'
    <2>1. PICK old \in SUBSET Of(d) : old = Of(d) \ {m}
      OBVIOUS
    <2>2. \A k \in old : ~Solitary(k) /\ ~Proof(k)
      BY <1>1, <1>2, <2>1, NoneSolitary DEF DeviceInv, MessagesInv
    <2>3. ~Solitary(n)
      BY <1>10 DEF Solitary
    <2>4. ASSUME NEW k \in old PROVE Fits(d, k)'
      <3>1. Fits(d, k)
        BY <1>1 DEF DeviceInv, MessagesInv
      <3>2. k.kind = "request" /\ device'[d].phase # "idle" => k.under = device'[d].key
        BY <3>1 DEF Fits, ExchangeInv
      <3> QED BY <2>2, <3>1, <3>2, PlainFits
    <2> QED BY <1>1, <1>12, <1>18, <2>1, <2>2, <2>3, <2>4, OneMoreMessage DEF DeviceInv
  <1>20. JoinsInv(d)'
    <2>1. MayRejoinUnsecured(d)'
      BY <1>5, <1>6, <1>8 DEF MayRejoinUnsecured, HasUniqueLinkKey
    <2> QED BY <1>1, <2>1, RejoinsKept
  <1> QED BY <1>13, <1>14, <1>15, <1>16, <1>17, <1>19, <1>20, OneDevice DEF DeviceInv

LEMMA HandleVerifyKeyStep ==
    ASSUME TrustInv, NEW m \in air, HandleVerifyKey(m)
    PROVE  TrustInv'
  <1>0. PICK d \in Devices : d = m.device
    BY DEF TrustInv, TrustTypes, MessageType
  <1>1. UNCHANGED <<setup, joins, device, issued, admitted>> /\ m.kind = "verify"
    BY DEF HandleVerifyKey
  <1>2. SetupTypes /\ keys[d] \in EntryType /\ keys \in [Devices -> EntryType]
    BY DEF TrustInv, TrustTypes
  <1>3. CASE ~OnRecord(keys[d])
    <2>1. UNCHANGED <<keys, store, registered>> /\ Took(m, {Message("confirm", d, None, "failed", None)})
      BY <1>0, <1>3 DEF HandleVerifyKey
    <2> QED BY <1>0, <1>1, <1>3, <2>1, ProofFails
  <1>4. CASE OnRecord(keys[d]) /\ ~Verifies(keys[d], m.key)
    <2>1. VerifyDeviceKey(keys[d], m.key) = keys[d]
      BY <1>4 DEF VerifyDeviceKey
    <2>2. UNCHANGED <<keys, store, registered>>
      BY <1>0, <1>2, <1>4, <2>1 DEF HandleVerifyKey
    <2>3. PICK under \in Held \cup {None, Global} : under = DeviceLinkKey(keys[d])
      BY <1>2, LinkKeyTypes
    <2>4. Took(m, {Message("confirm", d, under, "failed", None)})
      BY <1>0, <1>4, <2>1, <2>3 DEF HandleVerifyKey
    <2> QED BY <1>0, <1>1, <1>4, <2>2, <2>4, ProofFails
  <1>5. CASE OnRecord(keys[d]) /\ Verifies(keys[d], m.key)
    <2>1. /\ keys' = [keys EXCEPT ![d] = VerifyDeviceKey(keys[d], m.key)]
          /\ store' = [store EXCEPT ![d] = DeviceLinkKey(VerifyDeviceKey(keys[d], m.key))]
          /\ registered' = registered \ {d}
          /\ Took(m, {Message("confirm", d, DeviceLinkKey(VerifyDeviceKey(keys[d], m.key)), "success", None)})
      BY <1>0, <1>5 DEF HandleVerifyKey
    <2> QED BY <1>0, <1>1, <1>5, <2>1, ProofSucceeds
  <1> QED BY <1>3, <1>4, <1>5

-----------------------------------------------------------------------------
(* The devices *)

\* A step in which a device changes what it holds and stays, or becomes, a member.
DeviceMoves(d, w) ==
    /\ device' = [device EXCEPT ![d] = w] /\ w.member
    /\ UNCHANGED <<setup, keys, joins, store, issued, registered>>
    /\ \A e \in Devices \ {d} : e \in admitted => e \in admitted'
    /\ air' \subseteq MessageType /\ \A e \in Devices \ {d} : Of(e)' = Of(e)

LEMMA DeviceMovesStep ==
    ASSUME TrustInv, NEW d \in Devices, NEW w \in DeviceType, DeviceMoves(d, w),
           Of(d) # {} \/ device[d].member, Attached(d)', Usable(d)', MessagesInv(d)'
    PROVE  TrustInv'
  <1>1. DeviceInv(d) /\ TrustTypes /\ device \in [Devices -> DeviceType]
    BY DEF TrustInv, TrustTypes
  <1>2. device' \in [Devices -> DeviceType] /\ device'[d] = w /\ \A e \in Devices \ {d} : device'[e] = device[e]
    BY <1>1 DEF DeviceMoves
  <1>3. TrustTypes'
    BY <1>1, <1>2 DEF DeviceMoves, TrustTypes, SetupTypes, Seeded, Preconfigured
  <1>4. \A e \in Devices \ {d} : Same(e)
    BY <1>2 DEF DeviceMoves, Same, Still
  <1>5. Registration(d)'
    BY <1>1 DEF DeviceMoves, DeviceInv, Registration, Preconfigured
  <1>6. JoinsInv(d)'
    <2>1. MayRejoinUnsecured(d) => MayRejoinUnsecured(d)'
      BY DEF DeviceMoves, MayRejoinUnsecured, HasUniqueLinkKey, Seeded
    <2>2. device'[d].member /\ joins' \subseteq joins
      BY <1>2 DEF DeviceMoves
    <2> QED BY <1>1, <2>1, <2>2, RejoinsKept
  <1> QED BY <1>3, <1>4, <1>5, <1>6, OneDevice DEF DeviceInv

\* The messages of an exchange stay as they are when the device keeps its key or becomes idle.
LEMMA PlainMessages ==
    ASSUME NEW d \in Devices, DeviceInv(d), NEW old \in SUBSET Of(d), \A m \in old : ~Solitary(m) /\ ~Proof(m),
           device'[d].phase # "idle" => device[d].phase # "idle" /\ device'[d].key = device[d].key
    PROVE  \A m \in old : Fits(d, m)'
  <1> SUFFICES ASSUME NEW m \in old PROVE Fits(d, m)'
    OBVIOUS
  <1>1. Fits(d, m)
    BY DEF DeviceInv, MessagesInv
  <1>2. m.kind = "request" /\ device'[d].phase # "idle" => m.under = device'[d].key
    BY <1>1 DEF Fits, ExchangeInv
  <1> QED BY <1>1, <1>2, PlainFits

\* The messages of a device with the network key, in the phases before its proof.
LEMMA Unproved ==
    ASSUME NEW d \in Devices, DeviceInv(d), device[d].network, device[d].phase # "proving"
    PROVE  \A m \in Of(d) : ~Solitary(m) /\ ~Proof(m)
  BY DEF DeviceInv, MessagesInv, Fits, ExchangeInv, Proof

\* A device that changes its phase but not its key uses the same key as before.
LEMMA SameKey ==
    ASSUME NEW d \in Devices, DeviceInv(d), UNCHANGED <<setup, keys, store>>, device'[d].key = device[d].key,
           device[d].member,
           ~Proved(d) \/ Proved(d)'
    PROVE  Usable(d)'
  <1>1. Agreed(d) => Agreed(d)'
    BY DEF Agreed, DeviceLinkKey, Unkeyed, Seeded
  <1> QED BY <1>1 DEF DeviceInv, Usable

LEMMA TakesNetworkKey ==
    ASSUME TrustInv, NEW m \in air, Takes(m), Reads(m.device, m), m.kind = "network"
    PROVE  TrustInv'
  <1>0. PICK d \in Devices : d = m.device
    BY DEF TrustInv, TrustTypes, MessageType
  <1>1. /\ DeviceInv(d) /\ TrustTypes /\ m \in Of(d) /\ device[d] \in DeviceType
        /\ device \in [Devices -> DeviceType] /\ air \subseteq MessageType
    BY <1>0 DEF TrustInv, TrustTypes, Of
  <1>2. PICK w : w = [device[d] EXCEPT !.network = TRUE, !.member = TRUE]
    OBVIOUS
  <1>3. /\ w \in DeviceType /\ w.key = device[d].key /\ w.pending = device[d].pending /\ w.phase = device[d].phase
        /\ w.network = TRUE /\ w.member = TRUE
    BY <1>1, <1>2 DEF DeviceType
  <1>4. /\ device' = [device EXCEPT ![d] = w] /\ admitted' = admitted \ {d} /\ air' = air \ {m}
        /\ UNCHANGED <<setup, keys, joins, store, issued, registered>>
    BY <1>0, <1>2 DEF Takes, Took, Sent
  <1>5. device'[d] = w
    BY <1>1, <1>4
  <1>6. ~device[d].network /\ Of(d) = {m} /\ NetworkInv(d, m)
    BY <1>1 DEF DeviceInv, MessagesInv, Fits, Solitary
  <1>7. m.under = device[d].key /\ device[d].phase = "idle" /\ device[d].pending = None
    BY <1>0, <1>1, <1>6 DEF DeviceInv, Attached, NetworkInv, Reads
  <1>8. Of(d)' = {} /\ \A e \in Devices \ {d} : Of(e)' = Of(e)
    BY <1>0, <1>4, <1>6, Removed
  <1>9. Attached(d)'
    BY <1>3, <1>5, <1>7 DEF Attached
  <1>10. Usable(d)'
    <2>1. CASE m.about = "new" /\ m.under # Global
      <3>1. keys'[d].key = m.under /\ store'[d] = m.under /\ m.under # None /\ device'[d].key = m.under
        BY <1>3, <1>4, <1>5, <1>6, <1>7, <2>1 DEF NetworkInv
      <3> QED BY <3>1 DEF Usable, Agreed, DeviceLinkKey
    <2>2. CASE m.about = "new" /\ m.under = Global
      BY <1>3, <1>5, <1>7, <2>2 DEF Usable
    <2>3. CASE m.about = "rejoin"
      <3>1. device[d].member /\ ~Proved(d)
        BY <1>6, <1>7, <2>3 DEF NetworkInv, Proved
      <3>2. device'[d].key = device[d].key
        BY <1>3, <1>5
      <3> QED BY <1>1, <1>4, <3>1, <3>2, SameKey
    <2> QED BY <1>6, <2>1, <2>2, <2>3 DEF NetworkInv
  <1>11. MessagesInv(d)'
    BY <1>8 DEF MessagesInv
  <1>12. DeviceMoves(d, w)
    BY <1>1, <1>3, <1>4, <1>8 DEF DeviceMoves
  <1> QED BY <1>3, <1>6, <1>9, <1>10, <1>11, <1>12, DeviceMovesStep

LEMMA TakesLinkKey ==
    ASSUME TrustInv, NEW m \in air, Takes(m), Reads(m.device, m), m.kind = "link", device[m.device].phase = "requested"
    PROVE  TrustInv'
  <1>0. PICK d \in Devices : d = m.device
    BY DEF TrustInv, TrustTypes, MessageType
  <1>1. /\ DeviceInv(d) /\ TrustTypes /\ m \in Of(d) /\ device[d] \in DeviceType /\ m \in MessageType
        /\ device \in [Devices -> DeviceType] /\ air \subseteq MessageType
    BY <1>0 DEF TrustInv, TrustTypes, Of
  <1>2. PICK w : w = [device[d] EXCEPT !.pending = m.key, !.phase = "received"]
    OBVIOUS
  <1>3. /\ w \in DeviceType /\ w.key = device[d].key /\ w.pending = m.key /\ w.phase = "received"
        /\ w.network = device[d].network /\ w.member = device[d].member
    BY <1>1, <1>2 DEF DeviceType, Phases, MessageType
  <1>4. /\ device' = [device EXCEPT ![d] = w] /\ admitted' = admitted /\ air' = air \ {m}
        /\ UNCHANGED <<setup, keys, joins, store, issued, registered>>
    BY <1>0, <1>2 DEF Takes, Took, Sent
  <1>5. device'[d] = w
    BY <1>1, <1>4
  <1>6. device[d].network /\ device[d].member /\ m.key # None
    BY <1>0, <1>1 DEF DeviceInv, Attached, MessagesInv, Fits, ExchangeInv
  <1>7. Of(d)' = Of(d) \ {m} /\ \A e \in Devices \ {d} : Of(e)' = Of(e)
    BY <1>0, <1>4, Removed
  <1>8. Attached(d)'
    BY <1>3, <1>5, <1>6 DEF Attached
  <1>9. Usable(d)'
    <2>1. ~Proved(d) /\ device'[d].key = device[d].key
      BY <1>0, <1>3, <1>5 DEF Proved
    <2> QED BY <1>1, <1>4, <1>6, <2>1, SameKey
  <1>10. MessagesInv(d)'
    <2>1. \A k \in Of(d) : ~Solitary(k) /\ ~Proof(k)
      BY <1>0, <1>1, <1>6, Unproved
    <2>2. device[d].phase # "idle" /\ device'[d].key = device[d].key
      BY <1>0, <1>3, <1>5
    <2>3. \A k \in Of(d) : Fits(d, k)'
      BY <1>1, <2>1, <2>2, PlainMessages
    <2> QED BY <1>1, <1>7, <2>3, FewerMessages DEF DeviceInv
  <1>11. DeviceMoves(d, w)
    BY <1>1, <1>3, <1>4, <1>6, <1>7 DEF DeviceMoves
  <1> QED BY <1>3, <1>6, <1>8, <1>9, <1>10, <1>11, DeviceMovesStep

\* The answer ends the exchange: with the key that was proved, or with the one the device had.
LEMMA TakesConfirm ==
    ASSUME TrustInv, NEW m \in air, Takes(m), m.kind = "confirm", device[m.device].phase = "proving",
           \/ m.about = "success" /\ m.under = device[m.device].pending
           \/ m.about = "failed" /\ Reads(m.device, m)
    PROVE  TrustInv'
  <1>0. PICK d \in Devices : d = m.device
    BY DEF TrustInv, TrustTypes, MessageType
  <1>1. /\ DeviceInv(d) /\ TrustTypes /\ m \in Of(d) /\ device[d] \in DeviceType
        /\ device \in [Devices -> DeviceType] /\ air \subseteq MessageType
    BY <1>0 DEF TrustInv, TrustTypes, Of
  <1>2. PICK k : k = IF m.about = "success" THEN device[d].pending ELSE device[d].key
    OBVIOUS
  <1>3. device[d].network /\ device[d].member /\ device[d].pending # None /\ ExchangeInv(d, m)
    BY <1>0, <1>1 DEF DeviceInv, Attached, MessagesInv, Fits
  <1>4. k \in Held \cup {Global}
    BY <1>1, <1>2, <1>3, KeysDiffer DEF DeviceType
  <1>5. PICK w : w = [device[d] EXCEPT !.key = k, !.pending = None, !.phase = "idle"]
    OBVIOUS
  <1>6. /\ w \in DeviceType /\ w.key = k /\ w.pending = None /\ w.phase = "idle"
        /\ w.network = device[d].network /\ w.member = device[d].member
    BY <1>1, <1>4, <1>5 DEF DeviceType, Phases
  <1>7. /\ device' = [device EXCEPT ![d] = w] /\ admitted' = admitted /\ air' = air \ {m}
        /\ UNCHANGED <<setup, keys, joins, store, issued, registered>>
    <2>1. CASE m.about = "success"
      BY <1>0, <1>2, <1>5, <2>1 DEF Takes, Took, Sent
    <2>2. CASE m.about = "failed"
      <3>1. w = [device[d] EXCEPT !.pending = None, !.phase = "idle"]
        BY <1>1, <1>2, <1>5, <2>2 DEF DeviceType
      <3> QED BY <1>0, <2>2, <3>1 DEF Takes, Took, Sent
    <2> QED BY <2>1, <2>2
  <1>8. device'[d] = w
    BY <1>1, <1>7
  <1>9. Of(d)' = Of(d) \ {m} /\ \A e \in Devices \ {d} : Of(e)' = Of(e)
    BY <1>0, <1>7, Removed
  <1>10. Attached(d)'
    BY <1>3, <1>6, <1>8 DEF Attached
  <1>11. Usable(d)'
    <2>1. CASE m.about = "success"
      <3>1. keys'[d].key = k /\ store'[d] = k /\ k # None /\ device'[d].key = k
        BY <1>0, <1>2, <1>3, <1>6, <1>7, <1>8, <2>1 DEF ExchangeInv
      <3> QED BY <3>1 DEF Usable, Agreed, DeviceLinkKey
    <2>2. CASE m.about = "failed"
      <3>1. device[d].key = Global \/ Agreed(d)
        BY <1>3, <2>2 DEF ExchangeInv
      <3>2. device'[d].key = device[d].key
        BY <1>2, <1>6, <1>8, <2>2
      <3> QED BY <1>7, <3>1, <3>2 DEF Usable, Agreed, DeviceLinkKey, Unkeyed, Seeded
    <2> QED BY <2>1, <2>2
  <1>12. MessagesInv(d)'
    <2>1. PICK old \in SUBSET Of(d) : old = Of(d) \ {m}
      OBVIOUS
    <2>2. ~Solitary(m) /\ Proof(m)
      BY DEF Solitary, Proof
    <2>3. \A n \in old : ~Solitary(n) /\ ~Proof(n)
      BY <1>1, <2>1, <2>2, NoneSolitary DEF DeviceInv, MessagesInv
    <2>4. device'[d].phase = "idle"
      BY <1>6, <1>8
    <2>5. \A n \in old : Fits(d, n)'
      BY <1>1, <2>3, <2>4, PlainMessages
    <2> QED BY <1>1, <1>9, <2>1, <2>5, FewerMessages DEF DeviceInv
  <1>13. DeviceMoves(d, w)
    BY <1>1, <1>3, <1>6, <1>7, <1>9 DEF DeviceMoves
  <1> QED BY <1>3, <1>6, <1>10, <1>11, <1>12, <1>13, DeviceMovesStep

LEMMA TakesStep ==
    ASSUME TrustInv, NEW m \in air, Takes(m)
    PROVE  TrustInv'
  <1>1. CASE Reads(m.device, m) /\ m.kind = "network"
    BY <1>1, TakesNetworkKey
  <1>2. CASE Reads(m.device, m) /\ m.kind = "link" /\ device[m.device].phase = "requested"
    BY <1>2, TakesLinkKey
  <1>3. CASE m.kind = "confirm" /\ device[m.device].phase = "proving" /\ m.about = "success" /\ m.under = device[m.device].pending
    BY <1>3, TakesConfirm
  <1>4. CASE Reads(m.device, m) /\ m.kind = "confirm" /\ device[m.device].phase = "proving" /\ m.about = "failed"
    BY <1>4, TakesConfirm
  <1>5. CASE /\ ~(Reads(m.device, m) /\ m.kind = "network")
             /\ ~(Reads(m.device, m) /\ m.kind = "link" /\ device[m.device].phase = "requested")
             /\ ~(m.kind = "confirm" /\ device[m.device].phase = "proving" /\ m.about = "success" /\ m.under = device[m.device].pending)
             /\ ~(Reads(m.device, m) /\ m.kind = "confirm" /\ device[m.device].phase = "proving" /\ m.about = "failed")
    <2>1. PICK d \in Devices : d = m.device
      BY DEF TrustInv, TrustTypes, MessageType
    <2>2. device' = [device EXCEPT ![d] = device[d]]
      BY <1>5, <2>1 DEF Takes
    <2>3. device' = device
      BY <2>2 DEF TrustInv, TrustTypes
    <2>4. air' = air \ {m} /\ admitted' = admitted /\ UNCHANGED <<setup, keys, joins, store, issued, registered>>
      BY <1>5 DEF Takes, Took, Sent
    <2> QED BY <2>3, <2>4, LoseStep
  <1> QED BY <1>1, <1>2, <1>3, <1>4, <1>5

LEMMA RequestKeyStep ==
    ASSUME TrustInv, NEW d \in Devices, RequestKey(d)
    PROVE  TrustInv'
  <1>1. /\ DeviceInv(d) /\ TrustTypes /\ device[d] \in DeviceType
        /\ device \in [Devices -> DeviceType] /\ air \subseteq MessageType
    BY DEF TrustInv, TrustTypes
  <1>2. PICK w : w = [device[d] EXCEPT !.phase = "requested", !.counter = @ + 1]
    OBVIOUS
  <1>3. /\ w \in DeviceType /\ w.key = device[d].key /\ w.pending = device[d].pending /\ w.phase = "requested"
        /\ w.network = device[d].network /\ w.member = device[d].member
    <2>1. device[d].counter + 1 \in Nat
      BY <1>1 DEF DeviceType
    <2>2. w = [device[d] EXCEPT !.phase = "requested", !.counter = device[d].counter + 1]
      BY <1>1, <1>2 DEF DeviceType
    <2> QED BY <1>1, <2>1, <2>2 DEF DeviceType, Phases
  <1>4. PICK blank \in Words : blank = ""
    BY DEF Words
  <1>5. PICK n : n = [Message("request", d, device[d].key, blank, None) EXCEPT !.counter = device[d].counter]
    OBVIOUS
  <1>6. /\ device' = [device EXCEPT ![d].phase = "requested", ![d].counter = @ + 1]
        /\ air' = air \cup {n}
        /\ device[d].network /\ (device[d].phase = "requested" \/ (device[d].phase = "idle" /\ Of(d) = {}))
        /\ UNCHANGED <<setup, keys, joins, store, issued, registered, admitted>>
    BY <1>4, <1>5, Zenon DEF RequestKey, Sent, Of
  <1>7. device' = [device EXCEPT ![d] = w] /\ device'[d] = w
    BY <1>1, <1>2, <1>6
  <1>8. n \in MessageType /\ n.kind = "request" /\ n.device = d /\ n.under = device[d].key /\ n.under # None
    <2>1. /\ device[d].key \in Held \cup {None, Global, Router} /\ device[d].counter \in Nat
          /\ device[d].key # None /\ "request" \in Kinds
      BY <1>1, KeysDiffer DEF DeviceType, Kinds
    <2> QED BY <1>5, <2>1 DEF Message, MessageType
  <1>9. device[d].member /\ device[d].phase # "proving"
    BY <1>1, <1>6 DEF DeviceInv, Attached
  <1>10. Of(d)' = Of(d) \cup {n} /\ \A e \in Devices \ {d} : Of(e)' = Of(e)
    BY <1>6, <1>8, Added
  <1>11. Attached(d)'
    BY <1>3, <1>6, <1>7, <1>9 DEF Attached
  <1>12. Usable(d)'
    <2>1. ~Proved(d) /\ device'[d].key = device[d].key
      BY <1>3, <1>7, <1>9 DEF Proved
    <2> QED BY <1>1, <1>6, <1>9, <2>1, SameKey
  <1>13. MessagesInv(d)'
    <2>1. \A k \in Of(d) : ~Solitary(k) /\ ~Proof(k)
      BY <1>1, <1>6, <1>9, Unproved
    <2>2. ASSUME NEW m \in Of(d) PROVE Fits(d, m)'
      <3>1. device[d].phase # "idle" /\ device'[d].key = device[d].key
        BY <1>3, <1>6, <1>7
      <3> QED BY <1>1, <2>1, <3>1, PlainMessages
    <2>3. Fits(d, n)' /\ ~Solitary(n) /\ ~Proof(n)
      <3>1. n.under = device'[d].key
        BY <1>3, <1>7, <1>8
      <3> QED BY <1>8, <3>1 DEF Fits, Solitary, Proof, NetworkInv, UpdateInv, ExchangeInv
    <2> QED BY <1>1, <1>10, <2>1, <2>2, <2>3, OneMoreMessage DEF DeviceInv
  <1>14. DeviceMoves(d, w)
    BY <1>1, <1>3, <1>6, <1>7, <1>8, <1>9, <1>10 DEF DeviceMoves
  <1> QED BY <1>3, <1>9, <1>11, <1>12, <1>13, <1>14, DeviceMovesStep

LEMMA VerifyKeyStep ==
    ASSUME TrustInv, NEW d \in Devices, VerifyKey(d)
    PROVE  TrustInv'
  <1>1. /\ DeviceInv(d) /\ TrustTypes /\ device[d] \in DeviceType
        /\ device \in [Devices -> DeviceType] /\ air \subseteq MessageType
    BY DEF TrustInv, TrustTypes
  <1>2. PICK w : w = [device[d] EXCEPT !.phase = "proving"]
    OBVIOUS
  <1>3. /\ w \in DeviceType /\ w.key = device[d].key /\ w.pending = device[d].pending /\ w.phase = "proving"
        /\ w.network = device[d].network /\ w.member = device[d].member
    BY <1>1, <1>2 DEF DeviceType, Phases
  <1>4. PICK blank \in Words : blank = ""
    BY DEF Words
  <1>5. PICK n : n = Message("verify", d, None, blank, device[d].pending)
    OBVIOUS
  <1>6. /\ device' = [device EXCEPT ![d].phase = "proving"] /\ air' = air \cup {n}
        /\ device[d].network /\ device[d].phase \in {"received", "proving"}
        /\ ~\E m \in air : m.device = d /\ m.kind \in {"verify", "confirm"}
        /\ UNCHANGED <<setup, keys, joins, store, issued, registered, admitted>>
    BY <1>4, <1>5, Zenon DEF VerifyKey, Sent
  <1>7. device' = [device EXCEPT ![d] = w] /\ device'[d] = w
    BY <1>1, <1>2, <1>6
  <1>8. n \in MessageType /\ n.kind = "verify" /\ n.device = d /\ n.key = device[d].pending
    <2>1. PICK p \in Issued \cup {None} : p = device[d].pending
      BY <1>1 DEF DeviceType
    <2>2. "verify" \in Kinds /\ None \in Held \cup {None, Global, Router}
      BY DEF Kinds
    <2>3. PICK under \in Held \cup {None, Global, Router} : under = None
      BY <2>2
    <2>4. n = Message("verify", d, under, blank, p)
      BY <1>5, <2>1, <2>3
    <2> QED BY <2>1, <2>2, <2>4 DEF Message, MessageType
  <1>9. device[d].member /\ device[d].pending # None
    BY <1>1, <1>6 DEF DeviceInv, Attached
  <1>10. Of(d)' = Of(d) \cup {n} /\ \A e \in Devices \ {d} : Of(e)' = Of(e)
    BY <1>6, <1>8, Added
  <1>11. Attached(d)'
    BY <1>3, <1>6, <1>7, <1>9 DEF Attached
  <1>12. Usable(d)'
    <2>1. Proved(d) => Proved(d)'
      BY <1>3, <1>6, <1>7 DEF Proved
    <2>2. device'[d].key = device[d].key
      BY <1>3, <1>7
    <2> QED BY <1>1, <1>6, <1>9, <2>1, <2>2, SameKey
  <1>13. MessagesInv(d)'
    <2>1. \A k \in Of(d) : ~Solitary(k) /\ ~Proof(k)
      BY <1>1, <1>6 DEF DeviceInv, MessagesInv, Fits, Proof, Of
    <2>2. \A k \in Of(d) : Fits(d, k)'
      <3>1. device[d].phase # "idle" /\ device'[d].key = device[d].key
        BY <1>3, <1>6, <1>7
      <3> QED BY <1>1, <2>1, <3>1, PlainMessages
    <2>3. Fits(d, n)' /\ ~Solitary(n)
      <3>1. device'[d].phase = "proving" /\ n.key = device'[d].pending
        BY <1>3, <1>7, <1>8
      <3> QED BY <1>8, <3>1 DEF Fits, Solitary, NetworkInv, UpdateInv, ExchangeInv
    <2> QED BY <1>1, <1>10, <2>1, <2>2, <2>3, OneMoreMessage DEF DeviceInv
  <1>14. DeviceMoves(d, w)
    BY <1>1, <1>3, <1>6, <1>7, <1>8, <1>9, <1>10 DEF DeviceMoves
  <1> QED BY <1>3, <1>9, <1>11, <1>12, <1>13, <1>14, DeviceMovesStep

\* A device that stops an exchange before its proof, or loses the network key outside one.
LEMMA Stops ==
    ASSUME TrustInv, NEW d \in Devices, NEW w \in DeviceType, device' = [device EXCEPT ![d] = w],
           UNCHANGED <<setup, keys, joins, store, air, issued, registered, admitted>>,
           device[d].network, device[d].phase # "proving",
           w.key = device[d].key, w.member = device[d].member, w.phase = "idle", w.pending = None
    PROVE  TrustInv'
  <1>1. DeviceInv(d) /\ TrustTypes /\ device \in [Devices -> DeviceType] /\ air \subseteq MessageType
    BY DEF TrustInv, TrustTypes
  <1>2. device'[d] = w /\ \A e \in Devices : Of(e)' = Of(e)
    BY <1>1 DEF Of
  <1>3. device[d].member
    BY <1>1 DEF DeviceInv, Attached
  <1>4. Attached(d)'
    BY <1>2, <1>3 DEF Attached
  <1>5. Usable(d)'
    <2>1. ~Proved(d)
      BY DEF Proved
    <2> QED BY <1>1, <1>2, <1>3, <2>1, SameKey
  <1>6. MessagesInv(d)'
    <2>1. \A m \in Of(d) : ~Solitary(m) /\ ~Proof(m)
      BY <1>1, Unproved
    <2>2. \A m \in Of(d) : Fits(d, m)'
      BY <1>1, <1>2, <2>1, PlainMessages
    <2> QED BY <1>1, <1>2, <2>2, FewerMessages DEF DeviceInv
  <1>7. DeviceMoves(d, w)
    BY <1>1, <1>2, <1>3 DEF DeviceMoves
  <1> QED BY <1>3, <1>4, <1>5, <1>6, <1>7, DeviceMovesStep

LEMMA GiveUpStep ==
    ASSUME TrustInv, NEW d \in Devices, GiveUp(d)
    PROVE  TrustInv'
  <1>1. DeviceInv(d) /\ device[d] \in DeviceType /\ device \in [Devices -> DeviceType]
    BY DEF TrustInv, TrustTypes
  <1>2. PICK w : w = [device[d] EXCEPT !.phase = "idle", !.pending = None]
    OBVIOUS
  <1>3. /\ w \in DeviceType /\ w.key = device[d].key /\ w.member = device[d].member
        /\ w.phase = "idle" /\ w.pending = None
    BY <1>1, <1>2 DEF DeviceType, Phases
  <1>4. device' = [device EXCEPT ![d] = w]
    BY <1>1, <1>2 DEF GiveUp
  <1>5. /\ UNCHANGED <<setup, keys, joins, store, air, issued, registered, admitted>>
        /\ device[d].network /\ device[d].phase # "proving"
    BY <1>1 DEF GiveUp, DeviceInv, Attached
  <1> QED BY <1>3, <1>4, <1>5, Stops

LEMMA LoseNetworkKeyStep ==
    ASSUME TrustInv, NEW d \in Devices, LoseNetworkKey(d)
    PROVE  TrustInv'
  <1>1. DeviceInv(d) /\ device[d] \in DeviceType /\ device \in [Devices -> DeviceType]
    BY DEF TrustInv, TrustTypes
  <1>2. PICK w : w = [device[d] EXCEPT !.network = FALSE]
    OBVIOUS
  <1>3. /\ w \in DeviceType /\ w.key = device[d].key /\ w.member = device[d].member
        /\ w.phase = device[d].phase /\ w.pending = device[d].pending
    BY <1>1, <1>2 DEF DeviceType
  <1>4. device' = [device EXCEPT ![d] = w]
    BY <1>1, <1>2 DEF LoseNetworkKey
  <1>5. /\ UNCHANGED <<setup, keys, joins, store, air, issued, registered, admitted>>
        /\ device[d].network /\ device[d].phase = "idle" /\ device[d].pending = None
    BY <1>1 DEF LoseNetworkKey, DeviceInv, Attached
  <1> QED BY <1>3, <1>4, <1>5, Stops

LEMMA FactoryResetStep ==
    ASSUME TrustInv, NEW d \in Devices, FactoryReset(d)
    PROVE  TrustInv'
  <1>1. /\ DeviceInv(d) /\ TrustTypes /\ SetupTypes /\ device[d] \in DeviceType
        /\ device \in [Devices -> DeviceType]
    BY DEF TrustInv, TrustTypes
  <1>2. PICK w : w = [New(d) EXCEPT !.counter = device[d].counter]
    OBVIOUS
  <1>3. /\ w \in DeviceType /\ w.key = Preconfigured[d] /\ w.member = FALSE /\ w.network = FALSE
        /\ w.phase = "idle" /\ w.pending = None
    <2>1. Preconfigured[d] \in Held \cup {Global} /\ device[d].counter \in Nat
      BY <1>1, KeysDiffer DEF SetupTypes, DeviceType
    <2> QED BY <1>2, <2>1 DEF New, DeviceType, Phases
  <1>4. /\ device' = [device EXCEPT ![d] = w] /\ air' = {m \in air : m.device # d}
        /\ joins' = joins \ Unpolled(d) /\ joins \subseteq Unpolled(d) \cup {j \in joins : j.device # d}
        /\ UNCHANGED <<setup, keys, store, issued, registered, admitted>>
    BY <1>2 DEF FactoryReset
  <1>5. device' \in [Devices -> DeviceType] /\ device'[d] = w /\ \A e \in Devices \ {d} : device'[e] = device[e]
    BY <1>1, <1>3, <1>4
  <1>6. TrustTypes'
    BY <1>1, <1>4, <1>5 DEF TrustTypes, SetupTypes, Seeded, Preconfigured
  <1>7. \A e \in Devices \ {d} : Same(e)
    BY <1>4, <1>5 DEF Same, Still, Of
  <1>8. Of(d)' = {} /\ \A j \in joins' : j.device # d
    BY <1>4 DEF Of
  <1>9. Attached(d)' /\ Usable(d)'
    BY <1>3, <1>4, <1>5 DEF Attached, Usable, Preconfigured
  <1>10. Registration(d)' /\ JoinsInv(d)' /\ MessagesInv(d)'
    BY <1>1, <1>4, <1>8 DEF DeviceInv, Registration, JoinsInv, MessagesInv, Preconfigured
  <1> QED BY <1>6, <1>7, <1>9, <1>10, OneDevice DEF DeviceInv

-----------------------------------------------------------------------------
(* The theorems *)

LEMMA TrustInitial ==
    ASSUME Init
    PROVE  TrustInv
  <1>1. SetupTypes
    BY DEF Init, SetupTypes, Seeded, Preconfigured
  <1>2. ASSUME NEW d \in Devices
        PROVE  /\ New(d) \in DeviceType /\ New(d).key = Preconfigured[d] /\ New(d).member = FALSE
               /\ New(d).network = FALSE /\ New(d).phase = "idle" /\ New(d).pending = None
    <2>1. Preconfigured[d] \in Held \cup {Global}
      BY <1>1, KeysDiffer DEF SetupTypes
    <2> QED BY <2>1 DEF New, DeviceType, Phases
  <1>3. NoKeys \in EntryType /\ NoKeys.provisional = FALSE
    BY DEF NoKeys, EntryType
  <1>4. /\ keys = [d \in Devices |-> NoKeys] /\ device = [d \in Devices |-> New(d)]
        /\ store = [d \in Devices |-> None] /\ joins = {} /\ air = {} /\ issued = 0 /\ registered = {}
    BY DEF Init
  <1>5. TrustTypes
    BY <1>1, <1>2, <1>3, <1>4 DEF TrustTypes
  <1>6. ASSUME NEW d \in Devices PROVE DeviceInv(d)
    <2>1. Attached(d) /\ Usable(d)
      BY <1>2, <1>4 DEF Attached, Usable
    <2>2. Registration(d)
      BY <1>3, <1>4 DEF Registration
    <2>3. JoinsInv(d) /\ MessagesInv(d)
      BY <1>4 DEF JoinsInv, MessagesInv, Of
    <2> QED BY <2>1, <2>2, <2>3 DEF DeviceInv
  <1> QED BY <1>5, <1>6 DEF TrustInv

LEMMA TrustStep ==
    ASSUME TrustInv, [Next]_vars
    PROVE  TrustInv'
  <1>1. CASE UNCHANGED vars
    BY <1>1, Unchanged DEF vars
  <1>2. ASSUME NEW open \in BOOLEAN, PermitJoins(open) PROVE TrustInv'
    BY <1>2, Unchanged DEF PermitJoins
  <1>3. CASE Restart
    BY <1>3, RestartStep
  <1>4. ASSUME NEW d \in Devices, SetProvisionalKey(d) \/ Associate(d) \/ RejoinUnsecured(d) PROVE TrustInv'
    BY <1>4, SetProvisionalKeyStep, AssociateStep, RejoinUnsecuredStep
  <1>5. ASSUME NEW d \in Devices, Remap(d) PROVE TrustInv'
    BY <1>5, Unchanged DEF Remap
  <1>6. ASSUME NEW d \in Devices, RequestKey(d) \/ VerifyKey(d) \/ GiveUp(d) PROVE TrustInv'
    BY <1>6, RequestKeyStep, VerifyKeyStep, GiveUpStep
  <1>7. ASSUME NEW d \in Devices, LoseNetworkKey(d) \/ FactoryReset(d) PROVE TrustInv'
    BY <1>7, LoseNetworkKeyStep, FactoryResetStep
  <1>8. ASSUME NEW d \in Devices, NEW status \in {"join", "rejoin", "secured", "left"}, NEW secured \in BOOLEAN,
               ReportDevice(d, status, secured)
        PROVE  TrustInv'
    BY <1>8, ReportDeviceStep
  <1>9. ASSUME NEW j \in joins, DeliverKey(j) PROVE TrustInv'
    BY <1>9, DeliverKeyStep
  <1>10. ASSUME NEW m \in air, HandleUpdateDevice(m) \/ HandleRequestKey(m) \/ HandleVerifyKey(m) \/ Takes(m)
         PROVE  TrustInv'
    BY <1>10, HandleUpdateDeviceStep, HandleRequestKeyStep, HandleVerifyKeyStep, TakesStep
  <1>11. ASSUME NEW m \in air, Lose(m) PROVE TrustInv'
    <2>1. air' = air \ {m} /\ UNCHANGED <<setup, keys, joins, store, device, issued, registered, admitted>>
      BY <1>11 DEF Lose, Took, Sent
    <2> QED BY <2>1, LoseStep
  <1> QED
    BY <1>1, <1>2, <1>3, <1>4, <1>5, <1>6, <1>7, <1>8, <1>9, <1>10, <1>11 DEF Next

\* The invariant that the three results below follow from: what a device, its entry, the client's
\* store, the tasklets and the messages of the device know of each other in every reachable state.
THEOREM TrustInvariant == Spec => []TrustInv
  <1>1. Init => TrustInv
    BY TrustInitial
  <1>2. TrustInv /\ [Next]_vars => TrustInv'
    BY TrustStep
  <1> QED BY <1>1, <1>2, PTL DEF Spec

\* issue_device_key keeps the old key until verify_device_key proved the new one: at every moment of
\* every exchange, with messages lost, repeated or overtaken, and across restarts with the keys the
\* client stored, the trust center can read what a device on the network secures.
THEOREM DevicesNeverStranded == Spec => []NeverStranded
  <1>1. ASSUME TrustInv PROVE NeverStranded
    <2> SUFFICES ASSUME NEW d \in Devices, device[d].network
                 PROVE  {device[d].key, device[d].pending} \cap Candidates(keys[d]) # {}
      BY DEF NeverStranded
    <2>1. DeviceInv(d) /\ TrustTypes
      BY <1>1 DEF TrustInv
    <2>2. device[d].key = Global \/ Agreed(d) \/ Proved(d)
      BY <2>1 DEF DeviceInv, Attached, Usable
    <2>3. CASE device[d].key = Global \/ Agreed(d)
      BY <2>3 DEF Agreed, Candidates
    <2>4. CASE Proved(d)
      <3>1. device[d].pending # None
        BY <2>1, <2>4 DEF DeviceInv, Attached, Proved
      <3> QED BY <2>4, <3>1 DEF Proved, Candidates, DeviceLinkKey
    <2> QED BY <2>2, <2>3, <2>4
  <1> QED BY <1>1, TrustInvariant, PTL

\* begin_join and join_link_key: the network key sent to a joiner is secured with the key it left the
\* factory with, however late the tasklet that sends it runs.
THEOREM JoinersCanRead == Spec => []JoinerCanRead
  <1>1. ASSUME TrustInv PROVE JoinerCanRead
    <2> SUFFICES ASSUME NEW m \in air, m.kind = "network", m.about = "new",
                        Preconfigured[m.device] = Code(m.device) => m.device \in registered
                 PROVE  m.under = Preconfigured[m.device]
      BY DEF JoinerCanRead
    <2>1. m.device \in Devices /\ m \in Of(m.device)
      BY <1>1 DEF TrustInv, TrustTypes, MessageType, Of
    <2>2. NetworkInv(m.device, m)
      BY <1>1, <2>1 DEF TrustInv, DeviceInv, MessagesInv, Fits
    <2> QED BY <2>2 DEF NetworkInv
  <1> QED BY <1>1, TrustInvariant, PTL

\* may_rejoin_unsecured and begin_join: the network key is in flight under the well-known key only
\* while an authorized join waits for it, unless the network allows unsecured rejoins.
THEOREM NetworkKeyNeverExposed == Spec => []NetworkKeyGuarded
  <1>1. ASSUME TrustInv PROVE NetworkKeyGuarded
    <2> SUFFICES ASSUME NEW m \in air, m.kind = "network", m.under = Global
                 PROVE  m.device \in admitted \/ AllowUnsecuredRejoins
      BY DEF NetworkKeyGuarded
    <2>1. m.device \in Devices /\ m \in Of(m.device)
      BY <1>1 DEF TrustInv, TrustTypes, MessageType, Of
    <2>2. NetworkInv(m.device, m)
      BY <1>1, <2>1 DEF TrustInv, DeviceInv, MessagesInv, Fits
    <2> QED BY <2>2 DEF NetworkInv
  <1> QED BY <1>1, TrustInvariant, PTL
=============================================================================
