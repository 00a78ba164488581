----------------------------- MODULE RadioProofs -----------------------------
(* Theorems about the radio and what is received over it: Radio, for any channels, handlers,   *)
(* requests and resets, and Reception, for any neighbours, broadcasts and timeouts.            *)
EXTENDS Radio, Reception, FiniteSetTheorems, TLAPS

-----------------------------------------------------------------------------
(* Radio *)

Tuned == Channels \cup {Wiped}

Kinds == {"none", "recovery", "sync", "setChannel", "scan", "energy"}

Points ==
    {"idle", "read", "lock", "channel", "rest", "short", "extended", "store", "compare", "begin",
     "retune", "record", "sweep", "transmit", "restore", "detect", "home", "goHome"}

TaskType ==
    [doing : Kinds, at : Points, channels : SUBSET Channels, channel : Tuned, table : SUBSET Addresses]

RcpType == [channel : Tuned, table : SUBSET Addresses, programmed : BOOLEAN]

\* The places of a task, by what it does.
Placed(p, t) ==
    \/ t.doing = "none" /\ t.at = "idle"
    \/ /\ p = "recovery" /\ t.doing = "recovery"
       /\ t.at \in {"read", "lock", "channel", "rest", "short", "extended", "store"}
    \/ p = "sync" /\ t.doing = "sync" /\ t.at \in {"read", "compare", "short", "extended", "store"}
    \/ p \in Handlers /\ t.doing = "setChannel" /\ t.at \in {"begin", "lock", "retune", "record"}
    \/ p \in Handlers /\ t.doing = "scan" /\ t.at \in {"begin", "lock", "sweep", "transmit", "restore"}
    \/ p \in Handlers /\ t.doing = "energy" /\ t.at \in {"begin", "lock", "detect", "home", "goHome"}

RadioTypes ==
    /\ rcp \in RcpType
    /\ home \in Tuned /\ mac \in Tuned
    /\ wanted \subseteq Addresses /\ written \subseteq Addresses
    /\ resets \in Nat
    /\ task \in [Tasks -> TaskType]
    /\ \A p \in Tasks : Placed(p, task[p])

\* The history variables have noticed what they are there to notice.
Noticed == (Racing => raced) /\ (Overlapping => overlapped)

\* Who holds the radio, and the receiver of the results of energy scans.
Holding ==
    /\ \A h \in Handlers :
          /\ task[h].at \in {"retune", "sweep", "transmit", "restore", "detect"} => lock = h
          /\ task[h].doing = "energy" /\ task[h].at # "begin" => energyLock = h
    /\ task["recovery"].at \in {"channel", "rest", "short", "extended"} => lock = "recovery"

\* While the sync and the recovery do not meet and no write fails: src_match_written is the RCP's
\* table while nobody writes it, a writer's own table appears there half by half, and a table
\* that was read is still the wanted one unless the sync is told to look again.
TableInv ==
    ~failed /\ ~overlapped =>
       /\ resets = 0 =>
            /\ At("recovery", "idle") /\ task["sync"].at \in {"idle", "read", "compare", "short"} =>
                  written = rcp.table
            /\ \A p \in {"recovery", "sync"} :
                  /\ At(p, "extended") => rcp.table \cap Short = task[p].table \cap Short
                  /\ At(p, "store") => rcp.table = task[p].table
       /\ ~notifying /\ ~permit =>
            /\ At("recovery", "idle") /\ At("sync", "idle") => written = wanted
            /\ \A p \in {"recovery", "sync"} :
                  task[p].at \notin {"idle", "read"} => task[p].table = wanted

\* Where a request has the radio away from the channel the stack is on.
Away == {"sweep", "transmit", "restore", "record", "home", "goHome"}

\* While no request fails and no two tasks race: a channel that was read is still the stack's, a
\* recovery that has set it leaves the radio there, and so does everybody who is not away.
ChannelInv ==
    ~failed /\ ~raced =>
       /\ \A h \in Handlers :
             task[h].doing = "scan" /\ task[h].at # "begin" => task[h].channel = mac
       /\ task["recovery"].at \notin {"idle", "read", "store"} => task["recovery"].channel = mac
       /\ resets = 0 /\ task["recovery"].at \in {"rest", "short", "extended"} => rcp.channel = mac
       /\ resets = 0 /\ task["recovery"].at \in {"idle", "store"} =>
            /\ (\A h \in Handlers : task[h].at \notin Away) => rcp.channel = mac /\ home = mac
            /\ \A h \in Handlers :
                  /\ task[h].at = "record" => rcp.channel = task[h].channel /\ home = task[h].channel
                  /\ task[h].at \in {"home", "goHome"} => home = mac
                  /\ task[h].at = "goHome" => task[h].channel = mac

RadioInv == RadioTypes /\ Noticed /\ Holding /\ TableInv /\ ChannelInv

\* What Next adds to a step.
Notices ==
    /\ raced' = (raced \/ Racing')
    /\ overlapped' = (overlapped \/ Overlapping')

\* One task moves to a place, the others stay.
Moves(p, doing, at, channel, table) ==
    /\ task' \in [Tasks -> TaskType]
    /\ \A q \in Tasks : q # p => task'[q] = task[q]
    /\ task'[p].doing = doing /\ task'[p].at = at /\ task'[p].channel = channel /\ task'[p].table = table

LEMMA Names ==
    /\ "recovery" \in Tasks /\ "sync" \in Tasks
    /\ \A h \in Handlers : h \in Tasks /\ h # "recovery" /\ h # "sync" /\ h # Free
  BY RadioAssumption DEF Tasks, Free

LEMMA GotoMoves ==
    ASSUME RadioTypes, NEW p \in Tasks, NEW at \in Points, Goto(p, at)
    PROVE  Moves(p, task[p].doing, at, task[p].channel, task[p].table)
  <1>1. task[p] \in TaskType
    BY DEF RadioTypes
  <1> QED BY <1>1 DEF RadioTypes, TaskType, Goto, Moves

LEMMA IdleType == Idle \in TaskType
  BY DEF Idle, TaskType, Tuned, Kinds, Points

LEMMA DoneMoves ==
    ASSUME RadioTypes, NEW p \in Tasks, Done(p)
    PROVE  Moves(p, "none", "idle", Wiped, {})
  <1>1. Idle.doing = "none" /\ Idle.at = "idle" /\ Idle.channel = Wiped /\ Idle.table = {}
    BY DEF Idle
  <1> QED BY <1>1, IdleType DEF RadioTypes, Done, Moves

\* What a step makes of the rest of the types.
StateTypes ==
    /\ rcp' \in RcpType
    /\ home' \in Tuned /\ mac' \in Tuned
    /\ wanted' \subseteq Addresses /\ written' \subseteq Addresses
    /\ resets' \in Nat

\* A move to a place of the task keeps the types.
LEMMA MoveTypes ==
    ASSUME RadioTypes, NEW p \in Tasks, NEW doing, NEW at, NEW channel, NEW table,
           Moves(p, doing, at, channel, table), StateTypes,
           Placed(p, [doing |-> doing, at |-> at])
    PROVE  RadioTypes'
  <1>1. Placed(p, task'[p])
    BY DEF Placed, Moves
  <1>2. \A q \in Tasks : Placed(q, task'[q])
    BY <1>1 DEF Moves, RadioTypes
  <1> QED BY <1>2 DEF RadioTypes, StateTypes, Moves

LEMMA SetMoves ==
    ASSUME RadioTypes, NEW p \in Tasks, NEW t \in TaskType, task' = [task EXCEPT ![p] = t]
    PROVE  Moves(p, t.doing, t.at, t.channel, t.table)
  BY DEF RadioTypes, Moves

\* What a command makes of the radio.
LEMMA EffectFacts ==
    ASSUME RadioTypes, NEW p \in Tasks
    PROVE  /\ Effect(p) \in RcpType
           /\ task[p].at \in {"channel", "restore", "goHome"} =>
                 Effect(p).channel = task[p].channel /\ Effect(p).table = rcp.table
           /\ task[p].at \notin {"channel", "restore", "goHome"} => Effect(p).channel = rcp.channel
           /\ task[p].at \notin {"short", "extended"} => Effect(p).table = rcp.table
           /\ task[p].at = "short" =>
                 Effect(p).table = (rcp.table \ Short) \cup (task[p].table \cap Short)
           /\ task[p].at = "extended" =>
                 Effect(p).table = (rcp.table \ Extended) \cup (task[p].table \cap Extended)
  <1>1. task[p] \in TaskType /\ rcp \in RcpType
    BY DEF RadioTypes
  <1>2. CASE task[p].at \in {"channel", "restore", "goHome"}
    <2>1. Effect(p) = [rcp EXCEPT !.channel = task[p].channel]
      BY <1>2 DEF Effect, At
    <2> QED BY <1>1, <1>2, <2>1 DEF RcpType, TaskType
  <1>3. CASE task[p].at = "rest"
    <2>1. Effect(p) = [rcp EXCEPT !.programmed = TRUE]
      BY <1>3 DEF Effect, At
    <2> QED BY <1>1, <1>3, <2>1 DEF RcpType
  <1>4. CASE task[p].at = "short"
    <2>1. Effect(p) = [rcp EXCEPT !.table = (rcp.table \ Short) \cup (task[p].table \cap Short)]
      BY <1>1, <1>4 DEF Effect, At, Replaced, RcpType
    <2>2. (rcp.table \ Short) \cup (task[p].table \cap Short) \subseteq Addresses
      BY <1>1 DEF RcpType, TaskType
    <2> QED BY <1>1, <1>4, <2>1, <2>2 DEF RcpType
  <1>5. CASE task[p].at = "extended"
    <2>1. Effect(p) = [rcp EXCEPT !.table = (rcp.table \ Extended) \cup (task[p].table \cap Extended)]
      BY <1>1, <1>5 DEF Effect, At, Replaced, RcpType
    <2>2. (rcp.table \ Extended) \cup (task[p].table \cap Extended) \subseteq Addresses
      BY <1>1 DEF RcpType, TaskType
    <2> QED BY <1>1, <1>5, <2>1, <2>2 DEF RcpType
  <1>6. CASE task[p].at \notin {"channel", "restore", "goHome", "rest", "short", "extended"}
    <2>1. Effect(p) = rcp
      BY <1>6 DEF Effect, At
    <2> QED BY <1>1, <1>6, <2>1
  <1> QED BY <1>2, <1>3, <1>4, <1>5, <1>6

\* A command that sets the channel.
LEMMA TuneFacts ==
    ASSUME RadioTypes, NEW c \in Tuned, NEW new, new = [rcp EXCEPT !.channel = c]
    PROVE  new \in RcpType /\ new.channel = c /\ new.table = rcp.table
  BY DEF RadioTypes, RcpType

\* The two halves of a table.
LEMMA Halves ==
    ASSUME NEW T, NEW t, T \subseteq Addresses, t \subseteq Addresses
    PROVE  /\ ((T \ Short) \cup (t \cap Short)) \cap Short = t \cap Short
           /\ T \cap Short = t \cap Short => (T \ Extended) \cup (t \cap Extended) = t
  BY DEF Addresses

-----------------------------------------------------------------------------
(* Frames *)

\* What a step that leaves the tables to themselves has to keep.
TableFrame ==
    /\ task'["recovery"] = task["recovery"] /\ task'["sync"] = task["sync"]
    /\ rcp'.table = rcp.table /\ UNCHANGED <<wanted, written, notifying, permit, resets>>
    /\ (failed => failed')

LEMMA TableKept ==
    ASSUME TableInv, TableFrame, Notices
    PROVE  TableInv'
  BY DEF TableInv, TableFrame, Notices, At

ChannelFrame ==
    /\ task'["recovery"] = task["recovery"] /\ \A h \in Handlers : task'[h] = task[h]
    /\ rcp'.channel = rcp.channel /\ UNCHANGED <<home, mac, resets>>
    /\ (failed => failed')

LEMMA ChannelKept ==
    ASSUME ChannelInv, ChannelFrame, Notices
    PROVE  ChannelInv'
  BY DEF ChannelInv, ChannelFrame, Notices

LEMMA NoticedStep ==
    ASSUME Notices PROVE Noticed'
  BY DEF Notices, Noticed

-----------------------------------------------------------------------------
(* The recovery task *)

LEMMA RecvResetStep ==
    ASSUME RadioInv, RecvReset, Notices
    PROVE  RadioInv'
  <1>0. task["recovery"] \in TaskType /\ "recovery" \in Tasks /\ RadioTypes
    BY Names DEF RadioInv, RadioTypes
  <1> DEFINE t == [[task["recovery"] EXCEPT !.at = "read"] EXCEPT !.doing = "recovery"]
  <1>1. t \in TaskType /\ t.doing = "recovery" /\ t.at = "read"
    BY <1>0 DEF TaskType, Kinds, Points
  <1>2. task' = [task EXCEPT !["recovery"] = t]
    BY <1>0 DEF RecvReset, RadioTypes
  <1> HIDE DEF t
  <1>3. Moves("recovery", "recovery", "read", t.channel, t.table)
    BY <1>0, <1>1, <1>2, SetMoves
  <1>4. RadioTypes'
    <2>1. StateTypes
      BY <1>0 DEF RecvReset, RadioTypes, StateTypes, state
    <2>2. Placed("recovery", [doing |-> "recovery", at |-> "read"])
      BY DEF Placed
    <2> QED BY <1>0, <1>3, <2>1, <2>2, MoveTypes
  <1>5. Holding'
    BY <1>3, Names DEF RadioInv, Holding, Moves, RecvReset, locks
  <1>6. TableInv'
    BY <1>3, Names DEF RadioInv, TableInv, Notices, Overlapping, Moves, At
  <1>7. ChannelInv'
    BY <1>3, Names DEF RadioInv, ChannelInv, Notices, Moves, RecvReset, state
  <1> QED BY <1>4, <1>5, <1>6, <1>7, NoticedStep DEF RadioInv

LEMMA ReadConfigurationStep ==
    ASSUME RadioInv, ReadConfiguration, Notices
    PROVE  RadioInv'
  <1>0. /\ task["recovery"] \in TaskType /\ "recovery" \in Tasks /\ RadioTypes
        /\ task["recovery"].doing = "recovery"
    BY Names DEF RadioInv, RadioTypes, ReadConfiguration, At, Placed
  <1> DEFINE t == [[[task["recovery"] EXCEPT !.at = "lock"] EXCEPT !.channel = mac] EXCEPT !.table = wanted]
  <1>1. t \in TaskType /\ t.doing = "recovery" /\ t.at = "lock" /\ t.channel = mac /\ t.table = wanted
    BY <1>0 DEF TaskType, Points, RadioTypes
  <1>2. task' = [task EXCEPT !["recovery"] = t]
    BY <1>0 DEF ReadConfiguration, RadioTypes
  <1> HIDE DEF t
  <1>3. Moves("recovery", "recovery", "lock", mac, wanted)
    BY <1>0, <1>1, <1>2, SetMoves
  <1>4. RadioTypes'
    <2>1. StateTypes
      BY <1>0 DEF ReadConfiguration, RadioTypes, StateTypes, state, link
    <2>2. Placed("recovery", [doing |-> "recovery", at |-> "lock"])
      BY DEF Placed
    <2> QED BY <1>0, <1>3, <2>1, <2>2, MoveTypes
  <1>5. Holding'
    BY <1>3, Names DEF RadioInv, Holding, Moves, ReadConfiguration, locks
  <1>6. TableInv'
    BY <1>3, Names DEF RadioInv, TableInv, Notices, Overlapping, Moves, At, ReadConfiguration, state
  <1>7. ChannelInv'
    BY <1>3, Names DEF RadioInv, ChannelInv, Notices, Moves, ReadConfiguration, state
  <1> QED BY <1>4, <1>5, <1>6, <1>7, NoticedStep DEF RadioInv

LEMMA LockRecoveryStep ==
    ASSUME RadioInv, LockRadio("recovery", "channel"), Notices
    PROVE  RadioInv'
  <1> DEFINE t == task["recovery"]
  <1>0. t \in TaskType /\ "recovery" \in Tasks /\ RadioTypes /\ t.doing = "recovery" /\ t.at = "lock"
    BY Names DEF RadioInv, RadioTypes, LockRadio, At, Placed
  <1>3. Moves("recovery", "recovery", "channel", t.channel, t.table)
    BY <1>0, GotoMoves DEF LockRadio, Points
  <1>4. RadioTypes'
    <2>1. StateTypes
      BY <1>0 DEF LockRadio, RadioTypes, StateTypes, state, link
    <2>2. Placed("recovery", [doing |-> "recovery", at |-> "channel"])
      BY DEF Placed
    <2> QED BY <1>0, <1>3, <2>1, <2>2, MoveTypes
  <1>5. Holding'
    BY <1>3, Names DEF RadioInv, Holding, Moves, LockRadio
  <1>6. TableInv'
    BY <1>0, <1>3, Names DEF RadioInv, TableInv, Notices, Overlapping, Moves, At, LockRadio, state, link
  <1>7. ChannelInv'
    BY <1>0, <1>3, Names DEF RadioInv, ChannelInv, Notices, Moves, LockRadio, state, link
  <1> QED BY <1>4, <1>5, <1>6, <1>7, NoticedStep DEF RadioInv

LEMMA ConfigureStep ==
    ASSUME RadioInv, Configure, Notices
    PROVE  RadioInv'
  <1> DEFINE t == task["recovery"]
             next == After("recovery")
  <1>0. t \in TaskType /\ "recovery" \in Tasks /\ RadioTypes /\ t.doing = "recovery"
    BY Names DEF RadioInv, RadioTypes, Configure, At, Placed
  <1>1. /\ t.at = "channel" => next = "rest"
        /\ t.at = "rest" => next = "short"
        /\ t.at = "short" => next = "extended"
        /\ t.at \in {"channel", "rest", "short"}
    BY DEF After, At, Configure
  <1>2. next \in {"rest", "short", "extended"}
    BY <1>1
  <1> HIDE DEF next
  <1>3. Moves("recovery", "recovery", next, t.channel, t.table)
    BY <1>0, <1>2, GotoMoves DEF Configure, Points, next
  <1>4. RadioTypes'
    <2>1. StateTypes
      BY <1>0, EffectFacts DEF Configure, Answered, RadioTypes, StateTypes, state
    <2>2. Placed("recovery", [doing |-> "recovery", at |-> next])
      BY <1>2 DEF Placed
    <2> QED BY <1>0, <1>3, <2>1, <2>2, MoveTypes
  <1>5. Holding'
    BY <1>1, <1>3, Names DEF RadioInv, Holding, Moves, Configure, locks
  <1>6. TableInv'
    <2>1. /\ next \in {"rest", "short"} => rcp'.table = rcp.table
          /\ next = "extended" => rcp'.table \cap Short = t.table \cap Short
      <3>1. rcp.table \subseteq Addresses /\ t.table \subseteq Addresses
        BY <1>0 DEF RadioTypes, RcpType, TaskType
      <3> QED BY <1>0, <1>1, <3>1, EffectFacts, Halves DEF Configure, Answered
    <2> QED BY <1>0, <1>1, <1>2, <1>3, <2>1, Names
        DEF RadioInv, TableInv, Notices, Overlapping, Moves, At, Configure, Answered, state
  <1>7. ChannelInv'
    <2>1. rcp'.channel = IF t.at = "channel" THEN t.channel ELSE rcp.channel
      BY <1>0, <1>1, EffectFacts DEF Configure, Answered
    <2> QED BY <1>0, <1>1, <1>2, <1>3, <2>1, Names
        DEF RadioInv, ChannelInv, Notices, Moves, Configure, Answered, state
  <1> QED BY <1>4, <1>5, <1>6, <1>7, NoticedStep DEF RadioInv

LEMMA ReconfiguredStep ==
    ASSUME RadioInv, Reconfigured, Notices
    PROVE  RadioInv'
  <1> DEFINE t == task["recovery"]
  <1>0. t \in TaskType /\ "recovery" \in Tasks /\ RadioTypes /\ t.doing = "recovery" /\ t.at = "extended"
    BY Names DEF RadioInv, RadioTypes, Reconfigured, At, Placed
  <1>3. Moves("recovery", "recovery", "store", t.channel, t.table)
    BY <1>0, GotoMoves DEF Reconfigured, Points
  <1>4. RadioTypes'
    <2>1. StateTypes
      BY <1>0, EffectFacts DEF Reconfigured, Answered, RadioTypes, StateTypes, TaskType
    <2>2. Placed("recovery", [doing |-> "recovery", at |-> "store"])
      BY DEF Placed
    <2> QED BY <1>0, <1>3, <2>1, <2>2, MoveTypes
  <1>5. Holding'
    BY <1>0, <1>3, Names DEF RadioInv, Holding, Moves, Reconfigured
  <1>6. TableInv'
    <2>1. ~failed /\ ~overlapped /\ resets = 0 => rcp'.table = t.table
      <3>1. rcp.table \subseteq Addresses /\ t.table \subseteq Addresses
        BY <1>0 DEF RadioTypes, RcpType, TaskType
      <3>2. ~failed /\ ~overlapped /\ resets = 0 => rcp.table \cap Short = t.table \cap Short
        BY <1>0 DEF RadioInv, TableInv, At
      <3>3. rcp'.table = (rcp.table \ Extended) \cup (t.table \cap Extended)
        BY <1>0, EffectFacts DEF Reconfigured, Answered
      <3> QED BY <3>1, <3>2, <3>3, Halves
    <2> QED BY <1>0, <1>3, <2>1, Names
        DEF RadioInv, TableInv, Notices, Overlapping, Moves, At, Reconfigured, Answered
  <1>7. ChannelInv'
    <2>1. rcp'.channel = rcp.channel
      BY <1>0, EffectFacts DEF Reconfigured, Answered
    <2>2. ~raced => \A h \in Handlers : task[h].at \notin Away
      <3> SUFFICES ASSUME NEW h \in Handlers, ~raced, task[h].at \in Away PROVE FALSE
        OBVIOUS
      <3>1. h # "recovery" /\ h \in Tasks /\ lock = "recovery" /\ ~Racing
        BY <1>0, Names DEF RadioInv, Holding, Noticed
      <3>2. task[h].at \notin {"sweep", "transmit", "restore"}
        BY <3>1 DEF RadioInv, Holding
      <3>3. task[h].doing \in {"setChannel", "energy"}
        BY <3>1, <3>2, Names DEF Away, RadioInv, RadioTypes, Placed
      <3> QED BY <1>0, <3>1, <3>3 DEF Racing, Retuning
    <2>3. \A h \in Handlers : task'[h] = task[h]
      BY <1>3, Names DEF Moves
    <2> QED BY <1>0, <1>3, <2>1, <2>2, <2>3, Names
        DEF RadioInv, ChannelInv, Notices, Moves, Reconfigured, Answered, Away
  <1> QED BY <1>4, <1>5, <1>6, <1>7, NoticedStep DEF RadioInv

LEMMA NoteTableStep ==
    ASSUME RadioInv, NoteTable, Notices
    PROVE  RadioInv'
  <1> DEFINE t == task["recovery"]
  <1>0. t \in TaskType /\ "recovery" \in Tasks /\ RadioTypes /\ t.at = "store"
    BY Names DEF RadioInv, RadioTypes, NoteTable, At
  <1>3. Moves("recovery", "none", "idle", Wiped, {})
    BY <1>0, DoneMoves DEF NoteTable
  <1>4. RadioTypes'
    <2>1. StateTypes
      BY <1>0 DEF NoteTable, RadioTypes, StateTypes, TaskType, link
    <2>2. Placed("recovery", [doing |-> "none", at |-> "idle"])
      BY DEF Placed
    <2> QED BY <1>0, <1>3, <2>1, <2>2, MoveTypes
  <1>5. Holding'
    BY <1>3, Names DEF RadioInv, Holding, Moves, NoteTable, locks
  <1>6. TableInv'
    <2>1. ~overlapped => task["sync"].at = "idle"
      BY <1>0 DEF RadioInv, Noticed, Overlapping, At
    <2> QED BY <1>0, <1>3, <2>1, Names DEF RadioInv, TableInv, Notices, Moves, At, NoteTable, link
  <1>7. ChannelInv'
    <2>3. \A h \in Handlers : task'[h] = task[h]
      BY <1>3, Names DEF Moves
    <2> QED BY <1>0, <1>3, <2>3, Names DEF RadioInv, ChannelInv, Notices, Moves, NoteTable, link
  <1> QED BY <1>4, <1>5, <1>6, <1>7, NoticedStep DEF RadioInv

LEMMA ConfigureFailsStep ==
    ASSUME RadioInv, ConfigureFails, Notices
    PROVE  RadioInv'
  <1> DEFINE t == task["recovery"]
  <1>0. /\ t \in TaskType /\ "recovery" \in Tasks /\ RadioTypes /\ t.doing = "recovery"
        /\ t.at \in {"channel", "rest", "short", "extended"}
    BY Names DEF RadioInv, RadioTypes, ConfigureFails, Placed
  <1>3. Moves("recovery", "recovery", "read", t.channel, t.table)
    BY <1>0, GotoMoves DEF ConfigureFails, Points
  <1>4. RadioTypes'
    <2>1. StateTypes
      BY <1>0, EffectFacts DEF ConfigureFails, Unanswered, RadioTypes, StateTypes, state
    <2>2. Placed("recovery", [doing |-> "recovery", at |-> "read"])
      BY DEF Placed
    <2> QED BY <1>0, <1>3, <2>1, <2>2, MoveTypes
  <1>5. Holding'
    BY <1>0, <1>3, Names DEF RadioInv, Holding, Moves, ConfigureFails
  <1>6. TableInv'
    BY <1>0, <1>3, Names DEF RadioInv, TableInv, Notices, Overlapping, Moves, At, ConfigureFails
  <1>7. ChannelInv'
    BY <1>0, <1>3, Names DEF RadioInv, ChannelInv, Notices, Moves, ConfigureFails, state
  <1> QED BY <1>4, <1>5, <1>6, <1>7, NoticedStep DEF RadioInv

LEMMA RecoversStep ==
    ASSUME RadioInv, Recovers, Notices
    PROVE  RadioInv'
  BY RecvResetStep, ReadConfigurationStep, LockRecoveryStep, ConfigureStep, ReconfiguredStep,
     NoteTableStep, ConfigureFailsStep DEF Recovers

-----------------------------------------------------------------------------
(* The sync of the source-match table *)

\* A step of the sync leaves the channel and the handlers alone.
LEMMA SyncChannel ==
    ASSUME RadioInv, NEW doing, NEW at, NEW channel, NEW table, Moves("sync", doing, at, channel, table),
           rcp'.channel = rcp.channel, UNCHANGED <<home, mac, resets>>, failed => failed', Notices
    PROVE  ChannelInv'
  <1>1. ChannelFrame
    BY Names DEF Moves, ChannelFrame
  <1> QED BY <1>1, ChannelKept DEF RadioInv

LEMMA SyncHolding ==
    ASSUME RadioInv, NEW doing, NEW at, NEW channel, NEW table, Moves("sync", doing, at, channel, table),
           UNCHANGED <<lock, energyLock>>
    PROVE  Holding'
  BY Names DEF Moves, RadioInv, Holding

LEMMA SyncWakesStep ==
    ASSUME RadioInv, SyncWakes, Notices
    PROVE  RadioInv'
  <1>0. task["sync"] \in TaskType /\ "sync" \in Tasks /\ RadioTypes /\ task["sync"].at = "idle"
    BY Names DEF RadioInv, RadioTypes, SyncWakes, At
  <1> DEFINE t == [[task["sync"] EXCEPT !.at = "read"] EXCEPT !.doing = "sync"]
  <1>1. t \in TaskType /\ t.doing = "sync" /\ t.at = "read"
    BY <1>0 DEF TaskType, Kinds, Points
  <1>2. task' = [task EXCEPT !["sync"] = t]
    BY <1>0 DEF SyncWakes, RadioTypes
  <1> HIDE DEF t
  <1>3. Moves("sync", "sync", "read", t.channel, t.table)
    BY <1>0, <1>1, <1>2, SetMoves
  <1>4. RadioTypes'
    <2>1. StateTypes
      BY <1>0 DEF SyncWakes, RadioTypes, StateTypes, link
    <2>2. Placed("sync", [doing |-> "sync", at |-> "read"])
      BY DEF Placed
    <2> QED BY <1>0, <1>3, <2>1, <2>2, MoveTypes
  <1>5. Holding'
    BY <1>3, SyncHolding DEF SyncWakes, locks
  <1>6. TableInv'
    BY <1>0, <1>3, Names DEF RadioInv, TableInv, Notices, Overlapping, Moves, At, SyncWakes, link
  <1>7. ChannelInv'
    BY <1>3, SyncChannel DEF SyncWakes, link
  <1> QED BY <1>4, <1>5, <1>6, <1>7, NoticedStep DEF RadioInv

LEMMA ReadTableStep ==
    ASSUME RadioInv, ReadTable, Notices
    PROVE  RadioInv'
  <1>0. /\ task["sync"] \in TaskType /\ "sync" \in Tasks /\ RadioTypes
        /\ task["sync"].at = "read" /\ task["sync"].doing = "sync"
    BY Names DEF RadioInv, RadioTypes, ReadTable, At, Placed
  <1> DEFINE t == [[task["sync"] EXCEPT !.at = "compare"] EXCEPT !.table = wanted]
  <1>1. t \in TaskType /\ t.doing = "sync" /\ t.at = "compare" /\ t.table = wanted
    BY <1>0 DEF TaskType, Points, RadioTypes
  <1>2. task' = [task EXCEPT !["sync"] = t]
    BY <1>0 DEF ReadTable, RadioTypes
  <1> HIDE DEF t
  <1>3. Moves("sync", "sync", "compare", t.channel, wanted)
    BY <1>0, <1>1, <1>2, SetMoves
  <1>4. RadioTypes'
    <2>1. StateTypes
      BY <1>0 DEF ReadTable, RadioTypes, StateTypes, state, link
    <2>2. Placed("sync", [doing |-> "sync", at |-> "compare"])
      BY DEF Placed
    <2> QED BY <1>0, <1>3, <2>1, <2>2, MoveTypes
  <1>5. Holding'
    BY <1>3, SyncHolding DEF ReadTable, locks
  <1>6. TableInv'
    BY <1>0, <1>3, Names DEF RadioInv, TableInv, Notices, Overlapping, Moves, At, ReadTable, state, link
  <1>7. ChannelInv'
    BY <1>3, SyncChannel DEF ReadTable, state, link
  <1> QED BY <1>4, <1>5, <1>6, <1>7, NoticedStep DEF RadioInv

LEMMA CompareTableStep ==
    ASSUME RadioInv, CompareTable, Notices
    PROVE  RadioInv'
  <1> DEFINE t == task["sync"]
  <1>0. t \in TaskType /\ "sync" \in Tasks /\ RadioTypes /\ t.at = "compare" /\ t.doing = "sync"
    BY Names DEF RadioInv, RadioTypes, CompareTable, At, Placed
  <1>1. StateTypes
    BY <1>0 DEF CompareTable, RadioTypes, StateTypes, state, link
  <1>2. CASE written = t.table
    <2>3. Moves("sync", "none", "idle", Wiped, {})
      BY <1>0, <1>2, DoneMoves DEF CompareTable
    <2>4. RadioTypes'
      <3>1. Placed("sync", [doing |-> "none", at |-> "idle"])
        BY DEF Placed
      <3> QED BY <1>0, <1>1, <2>3, <3>1, MoveTypes
    <2>5. Holding'
      BY <2>3, SyncHolding DEF CompareTable, locks
    <2>6. TableInv'
      BY <1>0, <1>2, <2>3, Names
         DEF RadioInv, TableInv, Noticed, Notices, Overlapping, Moves, At, CompareTable, state, link
    <2>7. ChannelInv'
      BY <2>3, SyncChannel DEF CompareTable, state, link
    <2> QED BY <2>4, <2>5, <2>6, <2>7, NoticedStep DEF RadioInv
  <1>3. CASE written # t.table
    <2>3. Moves("sync", "sync", "short", t.channel, t.table)
      BY <1>0, <1>3, GotoMoves DEF CompareTable, Points
    <2>4. RadioTypes'
      <3>1. Placed("sync", [doing |-> "sync", at |-> "short"])
        BY DEF Placed
      <3> QED BY <1>0, <1>1, <2>3, <3>1, MoveTypes
    <2>5. Holding'
      BY <2>3, SyncHolding DEF CompareTable, locks
    <2>6. TableInv'
      BY <1>0, <2>3, Names
         DEF RadioInv, TableInv, Notices, Overlapping, Moves, At, CompareTable, state, link
    <2>7. ChannelInv'
      BY <2>3, SyncChannel DEF CompareTable, state, link
    <2> QED BY <2>4, <2>5, <2>6, <2>7, NoticedStep DEF RadioInv
  <1> QED BY <1>2, <1>3

LEMMA WriteTableStep ==
    ASSUME RadioInv, WriteTable, Notices
    PROVE  RadioInv'
  <1> DEFINE t == task["sync"]
             next == After("sync")
  <1>0. /\ t \in TaskType /\ "sync" \in Tasks /\ RadioTypes /\ t.doing = "sync"
        /\ t.at \in {"short", "extended"}
    BY Names DEF RadioInv, RadioTypes, WriteTable, Placed
  <1>1. (t.at = "short" => next = "extended") /\ (t.at = "extended" => next = "store")
    BY DEF After, At
  <1>2. next \in {"extended", "store"}
    BY <1>0, <1>1
  <1> HIDE DEF next
  <1>3. Moves("sync", "sync", next, t.channel, t.table)
    BY <1>0, <1>2, GotoMoves DEF WriteTable, Points, next
  <1>4. RadioTypes'
    <2>1. StateTypes
      BY <1>0, EffectFacts DEF WriteTable, Answered, RadioTypes, StateTypes, state
    <2>2. Placed("sync", [doing |-> "sync", at |-> next])
      BY <1>2 DEF Placed
    <2> QED BY <1>0, <1>3, <2>1, <2>2, MoveTypes
  <1>5. Holding'
    BY <1>3, SyncHolding DEF WriteTable, locks
  <1>6. TableInv'
    <2>0. rcp.table \subseteq Addresses /\ t.table \subseteq Addresses
      BY <1>0 DEF RadioTypes, RcpType, TaskType
    <2>1. t.at = "short" => rcp'.table \cap Short = t.table \cap Short
      BY <1>0, <2>0, EffectFacts, Halves DEF WriteTable, Answered
    <2>2. t.at = "extended" /\ ~failed /\ ~overlapped /\ resets = 0 => rcp'.table = t.table
      <3>2. t.at = "extended" /\ ~failed /\ ~overlapped /\ resets = 0 =>
               rcp.table \cap Short = t.table \cap Short
        BY <1>0 DEF RadioInv, TableInv, At
      <3>3. t.at = "extended" => rcp'.table = (rcp.table \ Extended) \cup (t.table \cap Extended)
        BY <1>0, EffectFacts DEF WriteTable, Answered
      <3> QED BY <2>0, <3>2, <3>3, Halves
    <2> QED BY <1>0, <1>1, <1>2, <1>3, <2>1, <2>2, Names
        DEF RadioInv, TableInv, Notices, Overlapping, Moves, At, WriteTable, Answered, state
  <1>7. ChannelInv'
    <2>1. rcp'.channel = rcp.channel
      BY <1>0, EffectFacts DEF WriteTable, Answered
    <2> QED BY <1>3, <2>1, SyncChannel DEF WriteTable, Answered, state
  <1> QED BY <1>4, <1>5, <1>6, <1>7, NoticedStep DEF RadioInv

LEMMA TableWrittenStep ==
    ASSUME RadioInv, TableWritten, Notices
    PROVE  RadioInv'
  <1> DEFINE t == task["sync"]
  <1>0. t \in TaskType /\ "sync" \in Tasks /\ RadioTypes /\ t.at = "store"
    BY Names DEF RadioInv, RadioTypes, TableWritten, At
  <1>3. Moves("sync", "none", "idle", Wiped, {})
    BY <1>0, DoneMoves DEF TableWritten
  <1>4. RadioTypes'
    <2>1. StateTypes
      BY <1>0 DEF TableWritten, RadioTypes, StateTypes, TaskType, link
    <2>2. Placed("sync", [doing |-> "none", at |-> "idle"])
      BY DEF Placed
    <2> QED BY <1>0, <1>3, <2>1, <2>2, MoveTypes
  <1>5. Holding'
    BY <1>3, SyncHolding DEF TableWritten, locks
  <1>6. TableInv'
    <2>1. ~overlapped => task["recovery"].at = "idle"
      BY <1>0 DEF RadioInv, Noticed, Overlapping, At
    <2> QED BY <1>0, <1>3, <2>1, Names DEF RadioInv, TableInv, Notices, Moves, At, TableWritten, link
  <1>7. ChannelInv'
    BY <1>3, SyncChannel DEF TableWritten, link
  <1> QED BY <1>4, <1>5, <1>6, <1>7, NoticedStep DEF RadioInv

LEMMA WriteFailsStep ==
    ASSUME RadioInv, WriteFails, Notices
    PROVE  RadioInv'
  <1>0. "sync" \in Tasks /\ RadioTypes
    BY Names DEF RadioInv
  <1>3. Moves("sync", "none", "idle", Wiped, {})
    BY <1>0, DoneMoves DEF WriteFails
  <1>4. RadioTypes'
    <2>1. StateTypes
      BY <1>0, EffectFacts DEF WriteFails, Unanswered, RadioTypes, StateTypes, state
    <2>2. Placed("sync", [doing |-> "none", at |-> "idle"])
      BY DEF Placed
    <2> QED BY <1>0, <1>3, <2>1, <2>2, MoveTypes
  <1>5. Holding'
    BY <1>3, SyncHolding DEF WriteFails, locks
  <1>6. TableInv' /\ ChannelInv'
    BY DEF TableInv, ChannelInv, WriteFails
  <1> QED BY <1>4, <1>5, <1>6, NoticedStep DEF RadioInv

LEMMA SyncsStep ==
    ASSUME RadioInv, Syncs, Notices
    PROVE  RadioInv'
  BY SyncWakesStep, ReadTableStep, CompareTableStep, WriteTableStep, TableWrittenStep, WriteFailsStep
     DEF Syncs

\* The set of devices with frames queued changes, and the sync is told.
LEMMA ChangeWantedStep ==
    ASSUME RadioInv, NEW a \in Addresses, ChangeWanted(a), Notices
    PROVE  RadioInv'
  <1>1. RadioTypes'
    BY DEF RadioInv, RadioTypes, ChangeWanted, link
  <1>2. Holding'
    BY DEF RadioInv, Holding, ChangeWanted, locks
  <1>3. TableInv'
    BY DEF RadioInv, TableInv, ChangeWanted, link, At, Notices
  <1>4. ChannelInv'
    BY DEF RadioInv, ChannelInv, ChangeWanted, link, Notices
  <1> QED BY <1>1, <1>2, <1>3, <1>4, NoticedStep DEF RadioInv

LEMMA NotifySyncStep ==
    ASSUME RadioInv, NotifySync, Notices
    PROVE  RadioInv'
  <1>1. RadioTypes'
    BY DEF RadioInv, RadioTypes, NotifySync, link
  <1>2. Holding'
    BY DEF RadioInv, Holding, NotifySync, locks
  <1>3. TableInv'
    BY DEF RadioInv, TableInv, NotifySync, link, At, Notices
  <1>4. ChannelInv'
    BY DEF RadioInv, ChannelInv, NotifySync, link, Notices
  <1> QED BY <1>1, <1>2, <1>3, <1>4, NoticedStep DEF RadioInv

-----------------------------------------------------------------------------
(* Requests that retune the radio *)

\* Who shares the radio with a request, as long as nobody raced.
LEMMA AloneSetting ==
    ASSUME RadioInv, ~raced, NEW h \in Handlers, task[h].doing = "setChannel"
    PROVE  /\ task["recovery"].at = "idle"
           /\ \A g \in Handlers : g # h => task[g].doing = "none" /\ task[g].at = "idle"
  <1>1. ~Racing /\ RadioTypes
    BY DEF RadioInv, Noticed
  <1>2. task["recovery"].doing # "recovery"
    BY <1>1, Names DEF Racing, Retuning
  <1>3. task["recovery"].at = "idle"
    BY <1>1, <1>2, Names DEF RadioTypes, Placed
  <1>4. ASSUME NEW g \in Handlers, g # h PROVE task[g].doing = "none" /\ task[g].at = "idle"
    <2>1. task[g].doing \notin {"setChannel", "scan", "energy"}
      BY <1>1, <1>4, Names DEF Racing, Retuning
    <2> QED BY <1>1, <1>4, <2>1, Names DEF RadioTypes, Placed
  <1> QED BY <1>3, <1>4

LEMMA AloneScanning ==
    ASSUME RadioInv, ~raced, NEW h \in Handlers, task[h].doing = "scan"
    PROVE  \A g \in Handlers : task[g].at \notin {"record", "home", "goHome"}
  <1>1. ~Racing /\ RadioTypes
    BY DEF RadioInv, Noticed
  <1> SUFFICES ASSUME NEW g \in Handlers, task[g].at \in {"record", "home", "goHome"} PROVE FALSE
    OBVIOUS
  <1>2. task[g].doing \in {"setChannel", "energy"}
    BY <1>1, Names DEF RadioTypes, Placed
  <1> QED BY <1>1, <1>2, Names DEF Racing, Retuning

LEMMA AloneDetecting ==
    ASSUME RadioInv, ~raced, NEW h \in Handlers, task[h].doing = "energy", task[h].at # "begin"
    PROVE  /\ task["recovery"].at = "idle"
           /\ \A g \in Handlers : g # h => task[g].at \notin Away /\ task[g].doing # "scan"
  <1>1. ~Racing /\ RadioTypes /\ energyLock = h
    BY DEF RadioInv, Noticed, Holding
  <1>2. task["recovery"].doing # "recovery"
    BY <1>1, Names DEF Racing, Retuning
  <1>3. task["recovery"].at = "idle"
    BY <1>1, <1>2, Names DEF RadioTypes, Placed
  <1>4. ASSUME NEW g \in Handlers, g # h PROVE task[g].at \notin Away /\ task[g].doing # "scan"
    <2>1. task[g].doing \notin {"setChannel", "scan"}
      BY <1>1, <1>4, Names DEF Racing, Retuning
    <2>2. task[g].doing = "energy" => task[g].at = "begin"
      BY <1>1, <1>4 DEF RadioInv, Holding
    <2>3. task[g].at \in {"idle", "begin"}
      BY <1>1, <1>4, <2>1, <2>2, Names DEF RadioTypes, Placed
    <2> QED BY <2>1, <2>3 DEF Away
  <1> QED BY <1>3, <1>4

\* A step of a request leaves the tables alone.
LEMMA HandlerTable ==
    ASSUME RadioInv, NEW h \in Handlers, NEW doing, NEW at, NEW channel, NEW table,
           Moves(h, doing, at, channel, table), rcp'.table = rcp.table,
           UNCHANGED <<wanted, written, notifying, permit, resets>>, failed => failed', Notices
    PROVE  TableInv'
  <1>1. TableFrame
    BY Names DEF Moves, TableFrame
  <1> QED BY <1>1, TableKept DEF RadioInv

\* What a request releases, nobody else holds.
LEMMA ReleaseHolding ==
    ASSUME RadioInv, NEW h \in Handlers, NEW doing, NEW at, NEW channel, NEW table,
           Moves(h, doing, at, channel, table), Release(h), at \in {"idle", "record"}, doing # "energy"
    PROVE  Holding'
  <1>1. ASSUME NEW g \in Handlers
        PROVE  /\ task'[g].at \in {"retune", "sweep", "transmit", "restore", "detect"} => lock' = g
               /\ task'[g].doing = "energy" /\ task'[g].at # "begin" => energyLock' = g
    BY <1>1, Names DEF RadioInv, Holding, Moves, Release
  <1>2. task'["recovery"].at \in {"channel", "rest", "short", "extended"} => lock' = "recovery"
    BY Names DEF RadioInv, Holding, Moves, Release
  <1> QED BY <1>1, <1>2 DEF Holding

\* Another place, the same locks.
LEMMA StayHolding ==
    ASSUME RadioInv, NEW h \in Handlers, NEW at, NEW channel, NEW table,
           Moves(h, task[h].doing, at, channel, table), UNCHANGED locks,
           at \in {"retune", "sweep", "transmit", "restore", "detect"} =>
              task[h].at \in {"retune", "sweep", "transmit", "restore", "detect"},
           task[h].at # "begin"
    PROVE  Holding'
  BY Names DEF RadioInv, Holding, Moves, locks

LEMMA RequestFailsStep ==
    ASSUME RadioInv, NEW h \in Handlers, NEW new \in RcpType, NEW tries, RequestFails(h, new, tries), Notices
    PROVE  RadioInv'
  <1>0. h \in Tasks /\ RadioTypes
    BY Names DEF RadioInv
  <1>1. Moves(h, "none", "idle", Wiped, {})
    BY <1>0, DoneMoves DEF RequestFails
  <1>2. RadioTypes'
    <2>1. StateTypes
      BY <1>0 DEF RequestFails, Unanswered, RadioTypes, StateTypes, state
    <2>2. Placed(h, [doing |-> "none", at |-> "idle"])
      BY DEF Placed
    <2> QED BY <1>0, <1>1, <2>1, <2>2, MoveTypes
  <1>3. Holding'
    BY <1>1, ReleaseHolding DEF RequestFails
  <1>4. TableInv' /\ ChannelInv'
    BY DEF TableInv, ChannelInv, RequestFails
  <1> QED BY <1>2, <1>3, <1>4, NoticedStep DEF RadioInv

\* The RCP refuses: the request ends where it began.
LEMMA RefusedStep ==
    ASSUME RadioInv, NEW h \in Handlers, task[h].at \in {"retune", "detect"},
           Answered(rcp), Release(h), Done(h), UNCHANGED <<state, failed>>, Notices
    PROVE  RadioInv'
  <1>0. h \in Tasks /\ RadioTypes
    BY Names DEF RadioInv
  <1>1. Moves(h, "none", "idle", Wiped, {})
    BY <1>0, DoneMoves
  <1>2. RadioTypes'
    <2>1. StateTypes
      BY <1>0 DEF Answered, RadioTypes, StateTypes, state
    <2>2. Placed(h, [doing |-> "none", at |-> "idle"])
      BY DEF Placed
    <2> QED BY <1>0, <1>1, <2>1, <2>2, MoveTypes
  <1>3. Holding'
    BY <1>1, ReleaseHolding
  <1>4. TableInv'
    BY <1>1, HandlerTable DEF Answered, state
  <1>5. ChannelInv'
    BY <1>1, Names DEF RadioInv, ChannelInv, Moves, Answered, state, Notices, Away
  <1> QED BY <1>2, <1>3, <1>4, <1>5, NoticedStep DEF RadioInv

LEMMA RequestStep ==
    ASSUME RadioInv, NEW h \in Handlers, NEW kind \in Requests, NEW C \in Payloads(kind),
           Request(h, kind, C), Notices
    PROVE  RadioInv'
  <1>0. /\ h \in Tasks /\ RadioTypes /\ C \subseteq Channels /\ task[h].at = "idle"
        /\ kind \in {"setChannel", "scan", "energy"}
    BY Names, RadioAssumption DEF RadioInv, Payloads, Request, At
  <1> DEFINE t == [[[Idle EXCEPT !.doing = kind] EXCEPT !.at = "begin"] EXCEPT !.channels = C]
  <1>1. t \in TaskType /\ t.doing = kind /\ t.at = "begin"
    BY <1>0, IdleType DEF TaskType, Kinds, Points
  <1>2. task' = [task EXCEPT ![h] = t]
    BY DEF Request
  <1> HIDE DEF t
  <1>3. Moves(h, kind, "begin", t.channel, t.table)
    BY <1>0, <1>1, <1>2, SetMoves
  <1>4. RadioTypes'
    <2>1. StateTypes
      BY <1>0 DEF Request, RadioTypes, StateTypes, state, link
    <2>2. Placed(h, [doing |-> kind, at |-> "begin"])
      BY <1>0 DEF Placed
    <2> QED BY <1>0, <1>3, <2>1, <2>2, MoveTypes
  <1>5. Holding'
    BY <1>0, <1>3, Names DEF RadioInv, Holding, Moves, Request, locks
  <1>6. TableInv'
    BY <1>3, HandlerTable DEF Request, state, link
  <1>7. ChannelInv'
    BY <1>0, <1>3, Names DEF RadioInv, ChannelInv, Moves, Request, state, link, Notices, Away
  <1> QED BY <1>4, <1>5, <1>6, <1>7, NoticedStep DEF RadioInv

LEMMA BeginStep ==
    ASSUME RadioInv, NEW h \in Handlers, Begin(h), Notices
    PROVE  RadioInv'
  <1>0. h \in Tasks /\ RadioTypes /\ task[h] \in TaskType /\ task[h].at = "begin"
    BY Names DEF RadioInv, RadioTypes, Begin, At
  <1> DEFINE c == IF task[h].doing = "scan" THEN mac ELSE Wiped
             t == [[task[h] EXCEPT !.at = "lock"] EXCEPT !.channel = c]
  <1>1. t \in TaskType /\ t.doing = task[h].doing /\ t.at = "lock" /\ t.channel = c
    BY <1>0 DEF TaskType, Points, RadioTypes, Tuned
  <1>2. task' = [task EXCEPT ![h] = t]
    BY <1>0 DEF Begin, RadioTypes
  <1> HIDE DEF t
  <1>3. Moves(h, task[h].doing, "lock", c, t.table)
    BY <1>0, <1>1, <1>2, SetMoves
  <1>4. RadioTypes'
    <2>1. StateTypes
      BY <1>0 DEF Begin, RadioTypes, StateTypes, state, link
    <2>2. Placed(h, [doing |-> task[h].doing, at |-> "lock"])
      BY <1>0, Names DEF Placed, RadioTypes
    <2> QED BY <1>0, <1>3, <2>1, <2>2, MoveTypes
  <1>5. Holding'
    <2>1. ASSUME NEW g \in Handlers
          PROVE  /\ task'[g].at \in {"retune", "sweep", "transmit", "restore", "detect"} => lock' = g
                 /\ task'[g].doing = "energy" /\ task'[g].at # "begin" => energyLock' = g
      BY <1>0, <1>3, <2>1, Names DEF RadioInv, Holding, Moves, Begin
    <2>2. task'["recovery"] = task["recovery"] /\ lock' = lock
      BY <1>3, Names DEF Moves, Begin
    <2> QED BY <2>1, <2>2 DEF RadioInv, Holding
  <1>6. TableInv'
    BY <1>3, HandlerTable DEF Begin, state, link
  <1>7. ChannelInv'
    BY <1>0, <1>3, Names DEF RadioInv, ChannelInv, Moves, Begin, state, link, Notices, Away
  <1> QED BY <1>4, <1>5, <1>6, <1>7, NoticedStep DEF RadioInv

LEMMA LockHandlerStep ==
    ASSUME RadioInv, NEW h \in Handlers, LockRadio(h, FirstCommand(h)), Notices
    PROVE  RadioInv'
  <1> DEFINE next == FirstCommand(h)
             t == task[h]
  <1>0. h \in Tasks /\ RadioTypes /\ t \in TaskType /\ t.at = "lock"
    BY Names DEF RadioInv, RadioTypes, LockRadio, At
  <1>1. t.doing \in {"setChannel", "scan", "energy"}
    BY <1>0, Names DEF RadioTypes, Placed
  <1>2. /\ t.doing = "setChannel" => next = "retune"
        /\ t.doing = "scan" => next = "sweep"
        /\ t.doing = "energy" => next = "detect"
    BY DEF FirstCommand
  <1> HIDE DEF next
  <1>3. Moves(h, t.doing, next, t.channel, t.table)
    BY <1>0, <1>1, <1>2, GotoMoves DEF LockRadio, Points, next
  <1>4. RadioTypes'
    <2>1. StateTypes
      BY <1>0 DEF LockRadio, RadioTypes, StateTypes, state, link
    <2>2. Placed(h, [doing |-> t.doing, at |-> next])
      BY <1>1, <1>2 DEF Placed
    <2> QED BY <1>0, <1>3, <2>1, <2>2, MoveTypes
  <1>5. Holding'
    <2>1. ASSUME NEW g \in Handlers
          PROVE  /\ task'[g].at \in {"retune", "sweep", "transmit", "restore", "detect"} => lock' = g
                 /\ task'[g].doing = "energy" /\ task'[g].at # "begin" => energyLock' = g
      BY <1>0, <1>3, <2>1, Names DEF RadioInv, Holding, Moves, LockRadio
    <2>2. task'["recovery"] = task["recovery"]
      BY <1>3, Names DEF Moves
    <2>3. task["recovery"].at \notin {"channel", "rest", "short", "extended"}
      BY Names DEF RadioInv, Holding, LockRadio, Free
    <2> QED BY <2>1, <2>2, <2>3 DEF Holding
  <1>6. TableInv'
    BY <1>3, HandlerTable DEF LockRadio, state, link
  <1>7. ChannelInv'
    BY <1>0, <1>1, <1>2, <1>3, Names DEF RadioInv, ChannelInv, Moves, LockRadio, state, link, Notices, Away
  <1> QED BY <1>4, <1>5, <1>6, <1>7, NoticedStep DEF RadioInv

LEMMA RetuneStep ==
    ASSUME RadioInv, NEW h \in Handlers, NEW c \in Channels, Retune(h, c), Notices
    PROVE  RadioInv'
  <1> DEFINE new == [rcp EXCEPT !.channel = c]
  <1>0. /\ h \in Tasks /\ RadioTypes /\ task[h] \in TaskType /\ task[h].at = "retune"
        /\ task[h].doing = "setChannel" /\ c \in Tuned
    BY Names DEF RadioInv, RadioTypes, Retune, At, Placed, Tuned
  <1>1. new \in RcpType /\ new.channel = c /\ new.table = rcp.table
    BY <1>0, TuneFacts
  <1> HIDE DEF new
  <1>2. CASE /\ Answered(new) /\ home' = c /\ Release(h)
             /\ task' = [task EXCEPT ![h].at = "record", ![h].channel = c]
             /\ UNCHANGED <<mac, wanted, written, notifying, permit, failed>>
    <2> DEFINE t == [[task[h] EXCEPT !.at = "record"] EXCEPT !.channel = c]
    <2>1. t \in TaskType /\ t.doing = "setChannel" /\ t.at = "record" /\ t.channel = c
      BY <1>0 DEF TaskType, Points
    <2>2. task' = [task EXCEPT ![h] = t]
      BY <1>0, <1>2 DEF RadioTypes
    <2> HIDE DEF t
    <2>3. Moves(h, "setChannel", "record", c, t.table)
      BY <1>0, <2>1, <2>2, SetMoves
    <2>4. RadioTypes'
      <3>1. StateTypes
        BY <1>0, <1>1, <1>2 DEF Answered, RadioTypes, StateTypes
      <3>2. Placed(h, [doing |-> "setChannel", at |-> "record"])
        BY DEF Placed
      <3> QED BY <1>0, <2>3, <3>1, <3>2, MoveTypes
    <2>5. Holding'
      BY <1>2, <2>3, ReleaseHolding
    <2>6. TableInv'
      BY <1>1, <1>2, <2>3, HandlerTable DEF Answered
    <2>7. ChannelInv'
      <3>1. CASE raced
        BY <3>1 DEF ChannelInv, Notices
      <3>2. CASE ~raced
        <4>1. /\ task'["recovery"].at = "idle"
              /\ \A g \in Handlers : g # h => task'[g].doing = "none" /\ task'[g].at = "idle"
          BY <1>0, <2>3, <3>2, AloneSetting, Names DEF Moves
        <4> QED BY <1>1, <1>2, <2>3, <4>1 DEF ChannelInv, Moves, Answered, Away
      <3> QED BY <3>1, <3>2
    <2> QED BY <2>4, <2>5, <2>6, <2>7, NoticedStep DEF RadioInv
  <1>3. CASE Answered(rcp) /\ Release(h) /\ Done(h) /\ UNCHANGED <<state, failed>>
    BY <1>0, <1>3, RefusedStep
  <1>4. CASE RequestFails(h, new, 2)
    BY <1>1, <1>4, RequestFailsStep
  <1> QED BY <1>2, <1>3, <1>4 DEF Retune, new

LEMMA RecordChannelStep ==
    ASSUME RadioInv, NEW h \in Handlers, RecordChannel(h), Notices
    PROVE  RadioInv'
  <1>0. /\ h \in Tasks /\ RadioTypes /\ task[h] \in TaskType /\ task[h].at = "record"
        /\ task[h].doing = "setChannel"
    BY Names DEF RadioInv, RadioTypes, RecordChannel, At, Placed
  <1>1. Moves(h, "none", "idle", Wiped, {})
    BY <1>0, DoneMoves DEF RecordChannel
  <1>2. RadioTypes'
    <2>1. StateTypes
      BY <1>0 DEF RecordChannel, RadioTypes, StateTypes, TaskType, link
    <2>2. Placed(h, [doing |-> "none", at |-> "idle"])
      BY DEF Placed
    <2> QED BY <1>0, <1>1, <2>1, <2>2, MoveTypes
  <1>3. Holding'
    BY <1>0, <1>1, Names DEF RadioInv, Holding, Moves, RecordChannel, locks
  <1>4. TableInv'
    BY <1>1, HandlerTable DEF RecordChannel, link
  <1>5. ChannelInv'
    <2>1. CASE raced
      BY <2>1 DEF ChannelInv, Notices
    <2>2. CASE ~raced
      <3>1. /\ task["recovery"].at = "idle" /\ task'["recovery"].at = "idle"
            /\ \A g \in Handlers : task'[g].doing = "none" /\ task'[g].at = "idle"
        BY <1>0, <1>1, <2>2, AloneSetting, Names DEF Moves
      <3> QED BY <1>0, <2>2, <3>1 DEF RadioInv, ChannelInv, RecordChannel, link, Away
    <2> QED BY <2>1, <2>2
  <1> QED BY <1>2, <1>3, <1>4, <1>5, NoticedStep DEF RadioInv

\* A scan under way, which holds the radio, moves on.
LEMMA ScanStep ==
    ASSUME RadioInv, NEW h \in Handlers, task[h].doing = "scan",
           task[h].at \in {"sweep", "transmit"}, NEW at \in {"sweep", "transmit", "restore"}, NEW table,
           Moves(h, "scan", at, task[h].channel, table), UNCHANGED <<locks, failed, resets>>,
           rcp' \in RcpType, rcp'.table = rcp.table, home' \in Tuned,
           UNCHANGED <<mac, wanted, written, notifying, permit>>, Notices
    PROVE  RadioInv'
  <1>0. h \in Tasks /\ RadioTypes
    BY Names DEF RadioInv
  <1>1. RadioTypes'
    <2>1. StateTypes
      BY <1>0 DEF RadioTypes, StateTypes
    <2>2. Placed(h, [doing |-> "scan", at |-> at])
      BY DEF Placed
    <2> QED BY <1>0, <2>1, <2>2, MoveTypes
  <1>2. Holding'
    BY StayHolding
  <1>3. TableInv'
    BY HandlerTable
  <1>4. ChannelInv'
    <2>1. CASE raced
      BY <2>1 DEF ChannelInv, Notices
    <2>2. CASE ~raced
      <3>1. \A g \in Handlers : task[g].at \notin {"record", "home", "goHome"}
        BY <2>2, AloneScanning
      <3>2. \A g \in Handlers : task'[g].at \notin {"record", "home", "goHome"}
        BY <3>1, Names DEF Moves
      <3>3. task["recovery"].at \notin {"rest", "short", "extended"} /\ task'["recovery"] = task["recovery"]
        BY Names DEF RadioInv, Holding, Moves
      <3>4. \A g \in Handlers : task'[g].doing = "scan" /\ task'[g].at # "begin" /\ ~failed =>
               task'[g].channel = mac
        BY <2>2, Names DEF RadioInv, ChannelInv, Moves
      <3>5. task'[h].at \in Away
        BY DEF Moves, Away
      <3> QED BY <2>2, <3>2, <3>3, <3>4, <3>5 DEF RadioInv, ChannelInv
    <2> QED BY <2>1, <2>2
  <1> QED BY <1>1, <1>2, <1>3, <1>4, NoticedStep DEF RadioInv

LEMMA SweepStep ==
    ASSUME RadioInv, NEW h \in Handlers, NEW c \in Channels, Sweep(h, c), Notices
    PROVE  RadioInv'
  <1> DEFINE new == [rcp EXCEPT !.channel = c]
  <1>0. /\ h \in Tasks /\ RadioTypes /\ task[h] \in TaskType /\ task[h].at = "sweep"
        /\ task[h].doing = "scan" /\ c \in Tuned /\ rcp \in RcpType /\ home \in Tuned
    BY Names DEF RadioInv, RadioTypes, Sweep, At, Placed, Tuned
  <1>1. new \in RcpType /\ new.channel = c /\ new.table = rcp.table
    BY <1>0, TuneFacts
  <1> HIDE DEF new
  <1>2. CASE /\ Answered(new) /\ home' = c
             /\ task' = [task EXCEPT ![h].at = "transmit", ![h].channels = @ \ {c}]
             /\ UNCHANGED <<mac, wanted, written, notifying, permit, locks, failed>>
    <2> DEFINE t == [[task[h] EXCEPT !.at = "transmit"] EXCEPT !.channels = task[h].channels \ {c}]
    <2>1. t \in TaskType /\ t.doing = "scan" /\ t.at = "transmit" /\ t.channel = task[h].channel
      BY <1>0 DEF TaskType, Points
    <2>2. task' = [task EXCEPT ![h] = t]
      BY <1>0, <1>2 DEF RadioTypes, TaskType
    <2> HIDE DEF t
    <2>3. Moves(h, "scan", "transmit", task[h].channel, t.table)
      BY <1>0, <2>1, <2>2, SetMoves
    <2> QED BY <1>0, <1>1, <1>2, <2>3, ScanStep DEF Answered
  <1>3. CASE Goto(h, "restore")
    <2>1. Moves(h, "scan", "restore", task[h].channel, task[h].table)
      BY <1>0, <1>3, GotoMoves DEF Points
    <2>2. CASE Answered(rcp) /\ UNCHANGED <<state, locks, failed>>
      BY <1>0, <2>1, <2>2, ScanStep DEF Answered, state
    <2>3. CASE Unanswered(new, 2) /\ UNCHANGED <<state, locks, failed>>
      BY <1>0, <1>1, <2>1, <2>3, ScanStep DEF Unanswered, state
    <2> QED BY <2>2, <2>3, <1>2 DEF Sweep, new
  <1> QED BY <1>2, <1>3 DEF Sweep, new

LEMMA BeaconStep ==
    ASSUME RadioInv, NEW h \in Handlers, Beacon(h), Notices
    PROVE  RadioInv'
  <1>0. /\ h \in Tasks /\ RadioTypes /\ task[h] \in TaskType /\ task[h].at = "transmit"
        /\ task[h].doing = "scan" /\ rcp \in RcpType /\ home \in Tuned
    BY Names DEF RadioInv, RadioTypes, Beacon, At, Placed
  <1>1. rcp' = rcp /\ UNCHANGED resets
    BY DEF Beacon, Answered, Unanswered
  <1>2. PICK at \in {"sweep", "restore"} : Goto(h, at)
    BY DEF Beacon
  <1>3. Moves(h, "scan", at, task[h].channel, task[h].table)
    BY <1>0, <1>2, GotoMoves DEF Points
  <1> QED BY <1>0, <1>1, <1>3, ScanStep DEF Beacon, state

LEMMA RestoreStep ==
    ASSUME RadioInv, NEW h \in Handlers, Restore(h), Notices
    PROVE  RadioInv'
  <1> DEFINE c == task[h].channel
             new == [rcp EXCEPT !.channel = c]
  <1>0. /\ h \in Tasks /\ RadioTypes /\ task[h] \in TaskType /\ task[h].at = "restore"
        /\ task[h].doing = "scan" /\ c \in Tuned
    BY Names DEF RadioInv, RadioTypes, Restore, At, Placed, TaskType
  <1>1. new \in RcpType /\ new.channel = c /\ new.table = rcp.table
    BY <1>0, TuneFacts
  <1> HIDE DEF new
  <1>2. CASE /\ Answered(new) /\ home' = c /\ Release(h) /\ Done(h)
             /\ UNCHANGED <<mac, wanted, written, notifying, permit, failed>>
    <2>1. Moves(h, "none", "idle", Wiped, {})
      BY <1>0, <1>2, DoneMoves
    <2>2. RadioTypes'
      <3>1. StateTypes
        BY <1>0, <1>1, <1>2 DEF Answered, RadioTypes, StateTypes
      <3>2. Placed(h, [doing |-> "none", at |-> "idle"])
        BY DEF Placed
      <3> QED BY <1>0, <2>1, <3>1, <3>2, MoveTypes
    <2>3. Holding'
      BY <1>2, <2>1, ReleaseHolding
    <2>4. TableInv'
      BY <1>1, <1>2, <2>1, HandlerTable DEF Answered
    <2>5. ChannelInv'
      <3>1. CASE raced \/ failed
        BY <1>2, <3>1 DEF ChannelInv, Notices
      <3>2. CASE ~raced /\ ~failed
        <4>1. \A g \in Handlers : task'[g].at \notin {"record", "home", "goHome"}
          BY <1>0, <2>1, <3>2, AloneScanning, Names DEF Moves
        <4>2. task'["recovery"] = task["recovery"]
          BY <2>1, Names DEF Moves
        <4>3. c = mac
          BY <1>0, <3>2 DEF RadioInv, ChannelInv
        <4>4. \A g \in Handlers : task'[g].doing = "scan" /\ task'[g].at # "begin" => task'[g].channel = mac
          BY <2>1, <3>2, Names DEF RadioInv, ChannelInv, Moves
        <4> QED BY <1>1, <1>2, <3>2, <4>1, <4>2, <4>3, <4>4 DEF RadioInv, ChannelInv, Answered
      <3> QED BY <3>1, <3>2
    <2> QED BY <2>2, <2>3, <2>4, <2>5, NoticedStep DEF RadioInv
  <1>3. CASE RequestFails(h, new, 2)
    BY <1>1, <1>3, RequestFailsStep
  <1> QED BY <1>2, <1>3 DEF Restore, new

LEMMA DetectStep ==
    ASSUME RadioInv, NEW h \in Handlers, NEW c \in Channels, Detect(h, c), Notices
    PROVE  RadioInv'
  <1> DEFINE new == [rcp EXCEPT !.channel = c]
  <1>0. /\ h \in Tasks /\ RadioTypes /\ task[h] \in TaskType /\ task[h].at = "detect"
        /\ task[h].doing = "energy" /\ c \in Tuned
    BY Names DEF RadioInv, RadioTypes, Detect, At, Placed, Tuned
  <1>1. new \in RcpType /\ new.channel = c /\ new.table = rcp.table
    BY <1>0, TuneFacts
  <1> HIDE DEF new
  <1>2. CASE /\ Answered(new) /\ lock' = Free /\ Goto(h, "home")
             /\ UNCHANGED <<state, energyLock, failed>>
    <2>1. Moves(h, "energy", "home", task[h].channel, task[h].table)
      BY <1>0, <1>2, GotoMoves DEF Points
    <2>2. RadioTypes'
      <3>1. StateTypes
        BY <1>0, <1>1, <1>2 DEF Answered, RadioTypes, StateTypes, state
      <3>2. Placed(h, [doing |-> "energy", at |-> "home"])
        BY DEF Placed
      <3> QED BY <1>0, <2>1, <3>1, <3>2, MoveTypes
    <2>3. Holding'
      BY <1>0, <1>2, <2>1, Names DEF RadioInv, Holding, Moves
    <2>4. TableInv'
      BY <1>1, <1>2, <2>1, HandlerTable DEF Answered, state
    <2>5. ChannelInv'
      <3>1. CASE raced \/ failed
        BY <1>2, <3>1 DEF ChannelInv, Notices
      <3>2. CASE ~raced /\ ~failed
        <4>1. /\ task["recovery"].at = "idle" /\ task'["recovery"].at = "idle"
              /\ \A g \in Handlers : g # h => task[g].at \notin Away /\ task[g].doing # "scan"
          BY <1>0, <2>1, <3>2, AloneDetecting, Names DEF Moves
        <4>2. \A g \in Handlers : g # h => task'[g].at \notin Away /\ task'[g].doing # "scan"
          BY <2>1, <4>1, Names DEF Moves
        <4>3. task[h].at \notin Away /\ task'[h].at = "home" /\ task'[h].doing = "energy"
          BY <1>0, <2>1 DEF Away, Moves
        <4>4. resets = 0 => home = mac
          BY <3>2, <4>1, <4>3 DEF RadioInv, ChannelInv
        <4> QED BY <1>2, <4>1, <4>2, <4>3, <4>4 DEF ChannelInv, Answered, Away, state
      <3> QED BY <3>1, <3>2
    <2> QED BY <2>2, <2>3, <2>4, <2>5, NoticedStep DEF RadioInv
  <1>3. CASE Answered(rcp) /\ Release(h) /\ Done(h) /\ UNCHANGED <<state, failed>>
    BY <1>0, <1>3, RefusedStep
  <1>4. CASE RequestFails(h, new, 2)
    BY <1>1, <1>4, RequestFailsStep
  <1> QED BY <1>2, <1>3, <1>4 DEF Detect, new

LEMMA ReadHomeStep ==
    ASSUME RadioInv, NEW h \in Handlers, ReadHome(h), Notices
    PROVE  RadioInv'
  <1>0. /\ h \in Tasks /\ RadioTypes /\ task[h] \in TaskType /\ task[h].at = "home"
        /\ task[h].doing = "energy"
    BY Names DEF RadioInv, RadioTypes, ReadHome, At, Placed
  <1> DEFINE t == [[task[h] EXCEPT !.at = "goHome"] EXCEPT !.channel = home]
  <1>1. t \in TaskType /\ t.doing = "energy" /\ t.at = "goHome" /\ t.channel = home
    BY <1>0 DEF TaskType, Points, RadioTypes
  <1>2. task' = [task EXCEPT ![h] = t]
    BY <1>0 DEF ReadHome, RadioTypes
  <1> HIDE DEF t
  <1>3. Moves(h, "energy", "goHome", home, t.table)
    BY <1>0, <1>1, <1>2, SetMoves
  <1>4. RadioTypes'
    <2>1. StateTypes
      BY <1>0 DEF ReadHome, RadioTypes, StateTypes, state, link
    <2>2. Placed(h, [doing |-> "energy", at |-> "goHome"])
      BY DEF Placed
    <2> QED BY <1>0, <1>3, <2>1, <2>2, MoveTypes
  <1>5. Holding'
    BY <1>0, <1>3, StayHolding DEF ReadHome
  <1>6. TableInv'
    BY <1>3, HandlerTable DEF ReadHome, state, link
  <1>7. ChannelInv'
    <2>1. task'["recovery"] = task["recovery"] /\ task'[h].at = "goHome" /\ task'[h].channel = home
      BY <1>3, Names DEF Moves
    <2>2. \A g \in Handlers : g # h => task'[g] = task[g]
      BY <1>3, Names DEF Moves
    <2>3. task'[h].doing = "energy"
      BY <1>3 DEF Moves
    <2> QED BY <1>0, <2>1, <2>2, <2>3 DEF RadioInv, ChannelInv, ReadHome, state, link, Notices, Away
  <1> QED BY <1>4, <1>5, <1>6, <1>7, NoticedStep DEF RadioInv

LEMMA GoHomeStep ==
    ASSUME RadioInv, NEW h \in Handlers, GoHome(h), Notices
    PROVE  RadioInv'
  <1> DEFINE c == task[h].channel
             new == [rcp EXCEPT !.channel = c]
  <1>0. /\ h \in Tasks /\ RadioTypes /\ task[h] \in TaskType /\ task[h].at = "goHome"
        /\ task[h].doing = "energy" /\ c \in Tuned
    BY Names DEF RadioInv, RadioTypes, GoHome, At, Placed, TaskType
  <1>1. new \in RcpType /\ new.channel = c /\ new.table = rcp.table
    BY <1>0, TuneFacts
  <1> HIDE DEF new
  <1>2. CASE Answered(new) /\ Release(h) /\ Done(h) /\ UNCHANGED <<state, failed>>
    <2>1. Moves(h, "none", "idle", Wiped, {})
      BY <1>0, <1>2, DoneMoves
    <2>2. RadioTypes'
      <3>1. StateTypes
        BY <1>0, <1>1, <1>2 DEF Answered, RadioTypes, StateTypes, state
      <3>2. Placed(h, [doing |-> "none", at |-> "idle"])
        BY DEF Placed
      <3> QED BY <1>0, <2>1, <3>1, <3>2, MoveTypes
    <2>3. Holding'
      BY <1>2, <2>1, ReleaseHolding
    <2>4. TableInv'
      BY <1>1, <1>2, <2>1, HandlerTable DEF Answered, state
    <2>5. ChannelInv'
      <3>1. CASE raced \/ failed
        BY <1>2, <3>1 DEF ChannelInv, Notices
      <3>2. CASE ~raced /\ ~failed
        <4>1. /\ task["recovery"].at = "idle" /\ task'["recovery"].at = "idle"
              /\ \A g \in Handlers : g # h => task'[g].at \notin Away /\ task'[g].doing # "scan"
          BY <1>0, <2>1, <3>2, AloneDetecting, Names DEF Moves
        <4>2. task'[h].at = "idle" /\ task'[h].doing = "none"
          BY <2>1 DEF Moves
        <4>3. resets = 0 => home = mac /\ c = mac
          BY <1>0, <3>2, <4>1 DEF RadioInv, ChannelInv
        <4> QED BY <1>1, <1>2, <4>1, <4>2, <4>3 DEF ChannelInv, Answered, Away, state
      <3> QED BY <3>1, <3>2
    <2> QED BY <2>2, <2>3, <2>4, <2>5, NoticedStep DEF RadioInv
  <1>3. CASE RequestFails(h, new, 2)
    BY <1>1, <1>3, RequestFailsStep
  <1> QED BY <1>2, <1>3 DEF GoHome, new

LEMMA HandlesStep ==
    ASSUME RadioInv, NEW h \in Handlers, Handles(h), Notices
    PROVE  RadioInv'
  BY BeginStep, LockHandlerStep, RetuneStep, SweepStep, DetectStep, RecordChannelStep, BeaconStep,
     RestoreStep, ReadHomeStep, GoHomeStep DEF Handles

-----------------------------------------------------------------------------
(* Resets *)

\* What becomes of a task whose command a reset fails.
LEMMA InterruptedFacts ==
    ASSUME RadioTypes, NEW p \in Tasks, task[p].at \in Commanding
    PROVE  /\ Interrupted(p) \in TaskType /\ Placed(p, Interrupted(p))
           /\ p = "recovery" => Interrupted(p).at = "read"
           /\ p # "recovery" /\ Interrupted(p).doing # "none" =>
                 /\ task[p].doing = "scan" /\ task[p].at \in {"sweep", "transmit"}
                 /\ Interrupted(p).doing = "scan" /\ Interrupted(p).at = "restore"
                 /\ Interrupted(p).channel = task[p].channel
  <1>1. task[p] \in TaskType /\ Placed(p, task[p])
    BY DEF RadioTypes
  <1>2. CASE p = "recovery"
    <2>2. task[p].doing = "recovery" /\ task[p].at \notin {"sweep", "transmit"}
      BY <1>1, <1>2, Names DEF Placed, Commanding
    <2>1. Interrupted(p) = [task[p] EXCEPT !.at = "read"]
      BY <1>2, <2>2 DEF Interrupted
    <2> QED BY <1>1, <1>2, <2>1, <2>2 DEF TaskType, Points, Placed
  <1>3. CASE p # "recovery" /\ task[p].at \in {"sweep", "transmit"}
    <2>1. Interrupted(p) = [task[p] EXCEPT !.at = "restore"]
      BY <1>3 DEF Interrupted
    <2>2. task[p].doing = "scan" /\ p \in Handlers
      BY <1>1, <1>3 DEF Placed
    <2> QED BY <1>1, <1>3, <2>1, <2>2 DEF TaskType, Points, Placed
  <1>4. CASE p # "recovery" /\ task[p].at \notin {"sweep", "transmit"}
    <2>1. Interrupted(p) = Idle
      BY <1>4 DEF Interrupted
    <2>2. Idle.doing = "none" /\ Idle.at = "idle"
      BY DEF Idle
    <2> QED BY <1>4, <2>1, <2>2, IdleType DEF Placed
  <1> QED BY <1>2, <1>3, <1>4

LEMMA NotifyResetStep ==
    ASSUME RadioInv, NEW S \in SUBSET Tasks, NotifyReset(S), rcp' \in RcpType, Notices
    PROVE  RadioInv'
  <1>0. RadioTypes /\ Holding /\ TableInv /\ ChannelInv
    BY DEF RadioInv
  <1>1. \A p \in S : p \in Tasks /\ task[p].at \in Commanding
    BY DEF NotifyReset
  <1>2. /\ \A p \in Tasks : p \in S => task'[p] = Interrupted(p)
        /\ \A p \in Tasks : p \notin S => task'[p] = task[p]
    BY DEF NotifyReset
  <1>3. resets' \in Nat \ {0}
    BY <1>0, RadioAssumption DEF NotifyReset, Announced, RadioTypes
  <1>4. RadioTypes'
    <2>1. ASSUME NEW p \in Tasks PROVE task'[p] \in TaskType /\ Placed(p, task'[p])
      BY <1>0, <1>1, <1>2, <2>1, InterruptedFacts DEF RadioTypes
    <2>2. task' \in [Tasks -> TaskType]
      BY <2>1 DEF NotifyReset
    <2> QED BY <1>0, <1>3, <2>1, <2>2 DEF RadioTypes, NotifyReset, state
  <1>5. \A h \in Handlers : h \in S =>
           \/ task'[h].doing = "none" /\ task'[h].at = "idle"
           \/ /\ task[h].doing = "scan" /\ task[h].at \in {"sweep", "transmit"}
              /\ task'[h].doing = "scan" /\ task'[h].at = "restore" /\ task'[h].channel = task[h].channel
    <2> SUFFICES ASSUME NEW h \in Handlers, h \in S
                 PROVE  \/ task'[h].doing = "none" /\ task'[h].at = "idle"
                        \/ /\ task[h].doing = "scan" /\ task[h].at \in {"sweep", "transmit"}
                           /\ task'[h].doing = "scan" /\ task'[h].at = "restore"
                           /\ task'[h].channel = task[h].channel
      OBVIOUS
    <2>1. h \in Tasks /\ h # "recovery" /\ task'[h] = Interrupted(h) /\ Placed(h, Interrupted(h))
      BY <1>0, <1>1, <1>2, Names, InterruptedFacts
    <2>2. CASE Interrupted(h).doing = "none"
      BY <2>1, <2>2 DEF Placed
    <2>3. CASE Interrupted(h).doing # "none"
      BY <1>0, <1>1, <2>1, <2>3, InterruptedFacts
    <2> QED BY <2>2, <2>3
  <1>6. "recovery" \in S => task'["recovery"].at = "read"
    BY <1>0, <1>1, <1>2, Names, InterruptedFacts
  <1>7. Holding'
    <2>1. ASSUME NEW g \in Handlers
          PROVE  /\ task'[g].at \in {"retune", "sweep", "transmit", "restore", "detect"} => lock' = g
                 /\ task'[g].doing = "energy" /\ task'[g].at # "begin" => energyLock' = g
      <3>1. CASE g \in S
        BY <1>0, <1>5, <3>1 DEF Holding, NotifyReset
      <3>2. CASE g \notin S
        BY <1>0, <1>2, <3>2, Names DEF Holding, NotifyReset
      <3> QED BY <3>1, <3>2
    <2>2. task'["recovery"].at \in {"channel", "rest", "short", "extended"} => lock' = "recovery"
      BY <1>0, <1>2, <1>6, Names DEF Holding, NotifyReset
    <2> QED BY <2>1, <2>2 DEF Holding
  <1>8. TableInv'
    BY <1>0, <1>2, <1>3, <1>6, Names DEF TableInv, NotifyReset, Notices, At, state
  <1>9. ChannelInv'
    <2>1. mac' = mac /\ (failed => failed') /\ (raced => raced')
      BY DEF NotifyReset, Notices, state
    <2>2. ASSUME NEW h \in Handlers, task'[h].doing = "scan", task'[h].at # "begin", ~failed, ~raced
          PROVE  task'[h].channel = mac
      <3>1. CASE h \in S
        BY <1>0, <1>5, <2>2, <3>1 DEF ChannelInv
      <3>2. CASE h \notin S
        BY <1>0, <1>2, <2>2, <3>2, Names DEF ChannelInv
      <3> QED BY <3>1, <3>2
    <2>3. ASSUME task'["recovery"].at \notin {"idle", "read", "store"}, ~failed, ~raced
          PROVE  task'["recovery"].channel = mac
      BY <1>0, <1>2, <1>6, <2>3, Names DEF ChannelInv
    <2> QED BY <1>3, <2>1, <2>2, <2>3 DEF ChannelInv
  <1> QED BY <1>4, <1>7, <1>8, <1>9, NoticedStep DEF RadioInv

LEMMA RadioResetsStep ==
    ASSUME RadioInv, NEW S \in SUBSET Tasks, RadioResets(S), Notices
    PROVE  RadioInv'
  <1>1. rcp' \in RcpType
    BY DEF RadioResets, RcpType, Tuned
  <1> QED BY <1>1, NotifyResetStep DEF RadioResets

LEMMA PresumeResetStep ==
    ASSUME RadioInv, NEW S \in SUBSET Tasks, PresumeReset(S), Notices
    PROVE  RadioInv'
  <1>0. RadioTypes
    BY DEF RadioInv
  <1>1. ASSUME NEW p \in S PROVE CarriedOut(p) \subseteq RcpType
    <2>1. task[p].channels \subseteq Tuned /\ p \in Tasks
      BY <1>0, <1>1 DEF RadioTypes, TaskType, Tuned
    <2>2. \A c \in task[p].channels : [rcp EXCEPT !.channel = c] \in RcpType
      BY <1>0, <2>1, TuneFacts
    <2>3. Effect(p) \in RcpType
      BY <1>0, <2>1, EffectFacts
    <2> QED BY <2>2, <2>3 DEF CarriedOut
  <1>2. rcp' \in RcpType
    BY <1>0, <1>1 DEF PresumeReset, RadioTypes
  <1> QED BY <1>2, NotifyResetStep DEF PresumeReset

-----------------------------------------------------------------------------
(* The invariant and what follows *)

LEMMA RadioInitial == Init => RadioInv
  <1> SUFFICES ASSUME Init PROVE RadioInv
    OBVIOUS
  <1>1. Idle \in TaskType /\ Idle.doing = "none" /\ Idle.at = "idle"
    BY IdleType DEF Idle
  <1>2. \A p \in Tasks : task[p] = Idle
    BY DEF Init
  <1>3. rcp \in RcpType /\ rcp.channel = Configured /\ rcp.table = {}
    BY RadioAssumption DEF Init, RcpType, Tuned
  <1>4. RadioTypes
    BY <1>1, <1>2, <1>3, RadioAssumption DEF Init, RadioTypes, Placed, Tuned
  <1>5. Noticed
    BY <1>1, <1>2, Names DEF Noticed, Racing, Retuning, Overlapping, At
  <1>6. Holding
    BY <1>1, <1>2, Names DEF Holding
  <1>7. TableInv
    BY <1>1, <1>2, <1>3, Names DEF TableInv, At, Init
  <1>8. ChannelInv
    BY <1>1, <1>2, <1>3, Names DEF ChannelInv, Init
  <1> QED BY <1>4, <1>5, <1>6, <1>7, <1>8 DEF RadioInv

LEMMA RadioStep == RadioInv /\ [Next]_vars => RadioInv'
  <1> SUFFICES ASSUME RadioInv, [Next]_vars PROVE RadioInv'
    OBVIOUS
  <1>1. CASE Next
    <2>1. Notices
      BY <1>1 DEF Next, Notices
    <2>2. CASE \E S \in SUBSET Tasks : PresumeReset(S)
      BY <2>1, <2>2, PresumeResetStep
    <2>3. CASE Step
      <3>1. CASE Recovers
        BY <2>1, <3>1, RecoversStep
      <3>2. CASE Syncs
        BY <2>1, <3>2, SyncsStep
      <3>3. CASE \E a \in Addresses : ChangeWanted(a)
        BY <2>1, <3>3, ChangeWantedStep
      <3>4. CASE NotifySync
        BY <2>1, <3>4, NotifySyncStep
      <3>5. CASE \E h \in Handlers, kind \in Requests : \E C \in Payloads(kind) : Request(h, kind, C)
        BY <2>1, <3>5, RequestStep
      <3>6. CASE \E h \in Handlers : Handles(h)
        BY <2>1, <3>6, HandlesStep
      <3>7. CASE \E S \in SUBSET Tasks : RadioResets(S)
        BY <2>1, <3>7, RadioResetsStep
      <3> QED BY <2>3, <3>1, <3>2, <3>3, <3>4, <3>5, <3>6, <3>7 DEF Step
    <2> QED BY <1>1, <2>2, <2>3 DEF Next
  <1>2. CASE UNCHANGED vars
    <2>1. RadioTypes'
      BY <1>2 DEF RadioInv, RadioTypes, vars, state, link
    <2>2. Noticed'
      BY <1>2 DEF RadioInv, Noticed, Racing, Retuning, Overlapping, At, vars
    <2>3. Holding'
      BY <1>2 DEF RadioInv, Holding, vars, locks
    <2>4. TableInv'
      BY <1>2 DEF RadioInv, TableInv, At, vars, state, link
    <2>5. ChannelInv'
      BY <1>2 DEF RadioInv, ChannelInv, vars, state, link
    <2> QED BY <2>1, <2>2, <2>3, <2>4, <2>5 DEF RadioInv
  <1> QED BY <1>1, <1>2

\* However requests, resets, timeouts and the sync interleave, the channels and tables that the
\* tasks hold, those of the RCP and the locks stay in the relation RadioInv states.
THEOREM RadioInvariant == Spec => []RadioInv
  BY RadioInitial, RadioStep, PTL DEF Spec

\* set_channel, network_scan, energy_scan and the recovery leave the radio on the channel the stack
\* believes it is on, for any channels, handlers, resets and unanswered commands, unless a request
\* failed or two of them retuned the radio at once.
THEOREM ChannelsAgree == Spec => []ChannelAgrees
  <1>1. RadioInv => ChannelAgrees
    <2> SUFFICES ASSUME RadioInv, Quiet, ~failed, ~raced PROVE rcp.channel = mac /\ home = mac
      BY DEF ChannelAgrees
    <2>1. /\ task["recovery"].at = "idle" /\ resets = 0
          /\ \A h \in Handlers : task[h].at \notin Away
      BY Names DEF Quiet, Recovered, At, Away
    <2> QED BY <2>1 DEF RadioInv, ChannelInv
  <1> QED BY <1>1, RadioInvariant, PTL

\* sync_src_match and the recovery leave the source-match table as src_match_written says, and with
\* nothing under way as the frames queued for sleepy children want it, for any addresses and resets,
\* unless a write of the sync failed or met a recovery.
THEOREM TablesAgree == Spec => []TableAgrees
  <1>1. RadioInv => TableAgrees
    BY Names DEF RadioInv, TableInv, TableAgrees, Quiet, Recovered, At
  <1> QED BY <1>1, RadioInvariant, PTL

-----------------------------------------------------------------------------
(* Reception *)

Frames == Broadcasts \cup Messages

\* An entry of the broadcast transaction table.
Entry == [left : Nat, audience : SUBSET Routers, heard : SUBSET Routers]

TableTypes ==
    /\ DOMAIN transactions \subseteq Broadcasts
    /\ \A b \in DOMAIN transactions : transactions[b] \in Entry

ClockTypes ==
    /\ uptime \in Nat
    /\ DOMAIN age \subseteq Broadcasts /\ \A b \in DOMAIN age : age[b] \in Nat

\* What the network has sent, and how often we took it.
FrameTypes ==
    /\ DOMAIN duplicates \subseteq Frames /\ \A x \in DOMAIN duplicates : duplicates[x] \in Nat
    /\ since \in [Messages -> Nat]
    /\ upper \in [Frames -> 0 .. 1]

HistoryTypes ==
    /\ aired \in [Broadcasts -> SUBSET (Routers \cup {Us})]
    /\ processed \in [Broadcasts -> Nat]
    /\ impatient \in BOOLEAN

\* A data frame that reached the application is on the list of duplicates, and for as long as a
\* copy of it may follow.
Remembered(x, passed) == x \in DOMAIN duplicates /\ duplicates[x] <= passed

MessagesRemembered ==
    \A m \in Messages : upper[m] = 1 /\ since[m] < Rejection => Remembered(m, since[m])

BroadcastsRemembered ==
    \A b \in Broadcasts : upper[b] = 1 =>
        b \in DOMAIN age /\ (age[b] <= Lifetime => Remembered(b, age[b]))

\* A broadcast that began since the start, and that others may still repeat, has an open
\* transaction.
Tracked(b) ==
    /\ b \in DOMAIN age
    /\ age[b] <= Lifetime /\ age[b] < uptime =>
          b \in DOMAIN transactions /\ transactions[b].left + age[b] >= Window

OwnTracked == \A b \in Own : b \in DOMAIN age => Tracked(b)

OthersTracked == ~impatient => \A b \in Others : processed[b] >= 1 => Tracked(b)

\* Who counts as having relayed a broadcast transmitted it.
HeardOnAir == \A b \in DOMAIN transactions : transactions[b].heard \subseteq aired[b]

ReceptionInv ==
    /\ TableTypes /\ ClockTypes /\ FrameTypes /\ HistoryTypes
    /\ MessagesRemembered /\ BroadcastsRemembered
    /\ OwnTracked /\ OthersTracked /\ HeardOnAir
    /\ BroadcastOnce /\ NoFalseConflict /\ QuorumHonest

-----------------------------------------------------------------------------
(* The operators *)

\* Transactions whose window is open are retained, as they are.
LEMMA RetainedFacts ==
    ASSUME TableTypes
    PROVE  /\ DOMAIN Retained = {b \in DOMAIN transactions : transactions[b].left > 0}
           /\ \A b \in DOMAIN Retained : Retained[b] = transactions[b] /\ Retained[b] \in Entry /\ b \in Broadcasts
  BY DEF Retained, Restrict, TableTypes

\* A broadcast that may be repeated, once the first window is over, has its transaction open.
LEMMA TrackedIsRetained ==
    ASSUME TableTypes, ClockTypes, NEW b \in Broadcasts, Tracked(b), age[b] <= Lifetime, uptime >= Window
    PROVE  b \in DOMAIN Retained
  <1>1. Lifetime \in Nat /\ Window \in Nat /\ Lifetime < Window
    BY ReceptionAssumption
  <1>2. age[b] \in Nat /\ uptime \in Nat
    BY DEF ClockTypes, Tracked
  <1>3. age[b] < uptime
    BY <1>1, <1>2
  <1>4. b \in DOMAIN transactions /\ transactions[b].left + age[b] >= Window
    BY <1>3 DEF Tracked
  <1>5. transactions[b].left \in Nat
    BY <1>4 DEF TableTypes, Entry
  <1>6. transactions[b].left > 0
    BY <1>1, <1>2, <1>4, <1>5
  <1> QED BY <1>4, <1>6, RetainedFacts

\* What the delivery of a frame does to the list of duplicates and to the application.
Passed(x) ==
    /\ DOMAIN duplicates' = DOMAIN duplicates \cup {x} /\ duplicates'[x] = 0
    /\ \A y \in DOMAIN duplicates \ {x} : duplicates'[y] = duplicates[y]
    /\ \A y \in Frames \ {x} : upper'[y] = upper[y]

LEMMA DeliverFacts ==
    ASSUME FrameTypes, NEW x \in Frames, Deliver(x), upper[x] = 1 => x \in DOMAIN duplicates,
           since' \in [Messages -> Nat]
    PROVE  FrameTypes' /\ Passed(x)
  <1>1. /\ DOMAIN duplicates' = DOMAIN duplicates \cup {x} /\ duplicates'[x] = 0
        /\ \A y \in DOMAIN duplicates \ {x} : duplicates'[y] = duplicates[y]
    BY DEF With, Deliver, Refreshed
  <1>2. \A y \in DOMAIN duplicates' : duplicates'[y] \in Nat
    BY <1>1 DEF FrameTypes
  <1>3. upper[x] \in 0 .. 1
    BY DEF FrameTypes
  <1>4. upper' \in [Frames -> 0 .. 1] /\ \A y \in Frames \ {x} : upper'[y] = upper[y]
    <2>1. CASE Known(x)
      BY <2>1 DEF Deliver, FrameTypes
    <2>2. CASE ~Known(x)
      <3>1. upper[x] = 0
        BY <1>3, <2>2 DEF Known
      <3>2. upper' = [upper EXCEPT ![x] = 1]
        BY <2>2, <3>1 DEF Deliver
      <3> QED BY <3>2 DEF FrameTypes
    <2> QED BY <2>1, <2>2
  <1> QED BY <1>1, <1>2, <1>4 DEF FrameTypes, Passed

-----------------------------------------------------------------------------
(* The steps *)

LEMMA Untouched ==
    ASSUME ReceptionInv,
           UNCHANGED <<uptime, impatient, transactions, claims, duplicates, age, aired, since, processed, upper, conflict>>
    PROVE  ReceptionInv'
  <1>1. TableTypes' /\ ClockTypes' /\ FrameTypes' /\ HistoryTypes'
    BY DEF ReceptionInv, TableTypes, ClockTypes, FrameTypes, HistoryTypes
  <1>2. MessagesRemembered' /\ BroadcastsRemembered'
    BY DEF ReceptionInv, MessagesRemembered, BroadcastsRemembered, Remembered
  <1>3. OwnTracked' /\ OthersTracked'
    BY DEF ReceptionInv, OwnTracked, OthersTracked, Tracked
  <1>4. HeardOnAir' /\ BroadcastOnce' /\ NoFalseConflict' /\ QuorumHonest'
    BY DEF ReceptionInv, HeardOnAir, BroadcastOnce, NoFalseConflict, QuorumHonest
  <1> QED BY <1>1, <1>2, <1>3, <1>4 DEF ReceptionInv

LEMMA CopyStep ==
    ASSUME ReceptionInv, NEW b \in DOMAIN records, NEW leaves \in BOOLEAN, Copy(b, leaves)
    PROVE  ReceptionInv'
  <1>1. UNCHANGED <<uptime, impatient, transactions, claims, duplicates, age, since, processed, upper, conflict>>
    BY DEF Copy, history
  <1>2. aired' \in [Broadcasts -> SUBSET (Routers \cup {Us})] /\ \A a \in Broadcasts : aired[a] \subseteq aired'[a]
    BY DEF Copy, ReceptionInv, HistoryTypes
  <1>3. TableTypes' /\ ClockTypes' /\ FrameTypes' /\ HistoryTypes'
    BY <1>1, <1>2 DEF ReceptionInv, TableTypes, ClockTypes, FrameTypes, HistoryTypes
  <1>4. MessagesRemembered' /\ BroadcastsRemembered'
    BY <1>1 DEF ReceptionInv, MessagesRemembered, BroadcastsRemembered, Remembered
  <1>5. OwnTracked' /\ OthersTracked'
    BY <1>1 DEF ReceptionInv, OwnTracked, OthersTracked, Tracked
  <1>6. HeardOnAir'
    BY <1>1, <1>2 DEF ReceptionInv, HeardOnAir, TableTypes
  <1>7. BroadcastOnce' /\ NoFalseConflict' /\ QuorumHonest'
    BY <1>1 DEF ReceptionInv, BroadcastOnce, NoFalseConflict, QuorumHonest
  <1> QED BY <1>3, <1>4, <1>5, <1>6, <1>7 DEF ReceptionInv

\* As many of the audience as a quorum, or as there are, relayed the broadcast in sight of us,
\* hence on air.
LEMMA AckedIsRelayed ==
    ASSUME ReceptionInv, NEW b \in DOMAIN transactions, Acked(b)
    PROVE  Relayed(b)
  <1> DEFINE all == LiveAudience(b)
             heard == all \cap transactions[b].heard
             sent == all \cap aired[b]
  <1>1. IsFiniteSet(all)
    BY ReceptionAssumption, FS_Subset DEF LiveAudience, Live
  <1>2. heard \subseteq sent /\ sent \subseteq all
    BY DEF ReceptionInv, HeardOnAir
  <1>3. IsFiniteSet(sent) /\ IsFiniteSet(heard) /\ Cardinality(heard) <= Cardinality(all)
        /\ (Cardinality(all) = Cardinality(heard) => all = heard)
    BY <1>1, <1>2, FS_Subset
  <1>4. Cardinality(heard) <= Cardinality(sent)
    BY <1>2, <1>3, FS_Subset
  <1>5. Cardinality(heard) \in Nat /\ Cardinality(sent) \in Nat /\ Cardinality(all) \in Nat
    BY <1>1, <1>3, FS_CardinalityType
  <1>6. Cardinality(heard) >= Quorum \/ Cardinality(heard) >= Cardinality(all)
    BY DEF Acked
  <1>7. Quorum \in Nat
    BY ReceptionAssumption
  <1> HIDE DEF all, heard, sent
  <1>8. Cardinality(sent) >= Quorum \/ all = heard
    BY <1>3, <1>4, <1>5, <1>6, <1>7
  <1> QED BY <1>2, <1>8 DEF Relayed, all, sent

LEMMA QuorumStep ==
    ASSUME ReceptionInv, NEW b \in DOMAIN records, QuorumHeard(b)
    PROVE  ReceptionInv'
  <1>1. b \in DOMAIN transactions => Relayed(b)
    BY AckedIsRelayed DEF QuorumHeard
  <1>2. claims' = claims
    BY <1>1 DEF QuorumHeard
  <1>3. UNCHANGED <<uptime, impatient, transactions, duplicates, age, aired, since, processed, upper, conflict>>
    BY DEF QuorumHeard, network, history
  <1> QED BY <1>2, <1>3, Untouched

LEMMA SendStep ==
    ASSUME ReceptionInv, NEW b \in Own, SendBroadcast(b)
    PROVE  ReceptionInv'
  <1>0. b \in Broadcasts /\ b \notin Others /\ b \notin DOMAIN age /\ Window \in Nat
    BY ReceptionAssumption DEF SendBroadcast, Broadcasts
  <1>1. UNCHANGED <<uptime, impatient, claims, duplicates, aired, since, processed, upper, conflict>>
    BY DEF SendBroadcast, history
  <1>2. /\ DOMAIN age' = DOMAIN age \cup {b} /\ age'[b] = 0
        /\ \A a \in DOMAIN age \ {b} : age'[a] = age[a]
    BY DEF With, SendBroadcast
  <1>3. /\ DOMAIN transactions' = DOMAIN transactions \cup {b}
        /\ transactions'[b] = Transaction(Live(neighbors), {})
        /\ \A a \in DOMAIN transactions \ {b} : transactions'[a] = transactions[a]
    BY DEF With, SendBroadcast
  <1>4. transactions'[b] \in Entry /\ transactions'[b].left = Window /\ transactions'[b].heard = {}
    BY <1>0, <1>3 DEF Transaction, Entry, Live
  <1>5. TableTypes' /\ ClockTypes' /\ FrameTypes' /\ HistoryTypes'
    BY <1>0, <1>1, <1>2, <1>3, <1>4 DEF ReceptionInv, TableTypes, ClockTypes, FrameTypes, HistoryTypes
  <1>6. MessagesRemembered'
    BY <1>1 DEF ReceptionInv, MessagesRemembered, Remembered
  <1>7. BroadcastsRemembered'
    BY <1>0, <1>1, <1>2 DEF ReceptionInv, BroadcastsRemembered, Remembered
  <1>8. Tracked(b)'
    BY <1>0, <1>2, <1>3, <1>4 DEF Tracked
  <1>9. \A a \in Broadcasts \ {b} : Tracked(a) => Tracked(a)'
    BY <1>1, <1>2, <1>3 DEF Tracked
  <1>10. OwnTracked'
    BY <1>2, <1>8, <1>9 DEF ReceptionInv, OwnTracked, Broadcasts
  <1>11. OthersTracked'
    BY <1>0, <1>1, <1>9 DEF ReceptionInv, OthersTracked, Broadcasts
  <1>12. HeardOnAir'
    BY <1>1, <1>3, <1>4 DEF ReceptionInv, HeardOnAir
  <1>13. BroadcastOnce' /\ NoFalseConflict' /\ QuorumHonest'
    BY <1>1 DEF ReceptionInv, BroadcastOnce, NoFalseConflict, QuorumHonest
  <1> QED BY <1>5, <1>6, <1>7, <1>10, <1>11, <1>12, <1>13 DEF ReceptionInv

LEMMA UnicastStep ==
    ASSUME ReceptionInv, NEW r \in Routers, NEW c \in Counters, NEW m \in Messages, HearUnicast(r, c, m)
    PROVE  ReceptionInv'
  <1>0. m \in Frames /\ m \notin Broadcasts
    BY ReceptionAssumption DEF Frames
  <1>1. UNCHANGED <<uptime, impatient, transactions, claims, age, aired, processed, conflict>>
    BY DEF HearUnicast, sending
  <1>2. since' = [since EXCEPT ![m] = 0] /\ since' \in [Messages -> Nat] /\ since'[m] = 0
        /\ \A n \in Messages \ {m} : since'[n] = since[n]
    BY DEF HearUnicast, ReceptionInv, FrameTypes
  <1>3. upper[m] = 1 => m \in DOMAIN duplicates
    BY DEF HearUnicast, ReceptionInv, MessagesRemembered, Remembered
  <1>4. FrameTypes' /\ Passed(m)
    BY <1>0, <1>2, <1>3, DeliverFacts DEF HearUnicast, ReceptionInv
  <1>5. TableTypes' /\ ClockTypes' /\ HistoryTypes'
    BY <1>1 DEF ReceptionInv, TableTypes, ClockTypes, HistoryTypes
  <1>6. MessagesRemembered'
    BY <1>2, <1>4 DEF ReceptionInv, MessagesRemembered, Remembered, Passed, Frames
  <1>7. BroadcastsRemembered'
    BY <1>0, <1>1, <1>4 DEF ReceptionInv, BroadcastsRemembered, Remembered, Passed, Frames
  <1>8. OwnTracked' /\ OthersTracked'
    BY <1>1 DEF ReceptionInv, OwnTracked, OthersTracked, Tracked
  <1>9. HeardOnAir' /\ BroadcastOnce' /\ NoFalseConflict' /\ QuorumHonest'
    BY <1>1 DEF ReceptionInv, HeardOnAir, BroadcastOnce, NoFalseConflict, QuorumHonest
  <1> QED BY <1>4, <1>5, <1>6, <1>7, <1>8, <1>9 DEF ReceptionInv

LEMMA RestartStep ==
    ASSUME ReceptionInv, Restart
    PROVE  ReceptionInv'
  <1>1. UNCHANGED <<impatient, age, aired, since, processed, conflict>>
    BY DEF Restart, network
  <1>2. /\ uptime' = 0 /\ claims' = {} /\ DOMAIN transactions' = {} /\ DOMAIN duplicates' = {}
    BY DEF Restart, None
  <1>3. upper' = [x \in Frames |-> 0]
    BY DEF Restart, ReceptionInv, FrameTypes
  <1>4. TableTypes' /\ ClockTypes' /\ FrameTypes' /\ HistoryTypes'
    BY <1>1, <1>2, <1>3 DEF ReceptionInv, TableTypes, ClockTypes, FrameTypes, HistoryTypes
  <1>5. MessagesRemembered' /\ BroadcastsRemembered'
    BY <1>3 DEF MessagesRemembered, BroadcastsRemembered, Frames
  <1>6. \A b \in DOMAIN age : ~(age'[b] < uptime')
    BY <1>1, <1>2 DEF ReceptionInv, ClockTypes
  <1>7. OwnTracked' /\ OthersTracked'
    BY <1>1, <1>6 DEF ReceptionInv, OwnTracked, OthersTracked, Tracked
  <1>8. HeardOnAir' /\ BroadcastOnce' /\ NoFalseConflict' /\ QuorumHonest'
    BY <1>1, <1>2 DEF ReceptionInv, HeardOnAir, BroadcastOnce, NoFalseConflict, QuorumHonest
  <1> QED BY <1>4, <1>5, <1>7, <1>8 DEF ReceptionInv

LEMMA TickStep ==
    ASSUME ReceptionInv, Tick
    PROVE  ReceptionInv'
  <1>0. /\ Lifetime \in Nat /\ Window \in Nat /\ Rejection \in Nat
        /\ Lifetime < Window /\ Lifetime < Rejection
    BY ReceptionAssumption
  <1>1. UNCHANGED <<impatient, aired, processed, upper, conflict, claims>>
    BY DEF Tick, history
  <1>2. /\ DOMAIN age' = DOMAIN age
        /\ \A b \in DOMAIN age : age'[b] = IF age[b] > Lifetime THEN age[b] ELSE age[b] + 1
    BY DEF Tick
  <1>3. uptime' = IF uptime > Window THEN uptime ELSE uptime + 1
    BY DEF Tick
  <1>4. ClockTypes'
    BY <1>2, <1>3 DEF ReceptionInv, ClockTypes
  <1>5. /\ DOMAIN transactions' = DOMAIN transactions
        /\ \A b \in DOMAIN transactions :
              /\ transactions'[b] \in Entry /\ transactions'[b].left + 1 >= transactions[b].left
              /\ transactions'[b].heard = transactions[b].heard
    <2>1. SUFFICES ASSUME NEW b \in DOMAIN transactions
                   PROVE  /\ transactions'[b] \in Entry /\ transactions'[b].left + 1 >= transactions[b].left
                          /\ transactions'[b].heard = transactions[b].heard
      BY DEF Tick
    <2>2. transactions[b] \in Entry
      BY DEF ReceptionInv, TableTypes
    <2>3. transactions'[b] = [transactions[b] EXCEPT !.left = IF @ > 0 THEN @ - 1 ELSE 0]
      BY DEF Tick
    <2> QED BY <2>2, <2>3 DEF Entry
  <1>6. TableTypes' /\ HistoryTypes'
    BY <1>1, <1>5 DEF ReceptionInv, TableTypes, HistoryTypes
  <1>7. /\ DOMAIN duplicates' = {x \in DOMAIN duplicates : duplicates[x] + 1 < Rejection}
        /\ \A x \in DOMAIN duplicates' : duplicates'[x] = duplicates[x] + 1
    BY DEF Tick
  <1>8. since' \in [Messages -> Nat]
        /\ \A m \in Messages : since'[m] = IF since[m] < Rejection THEN since[m] + 1 ELSE since[m]
    BY DEF Tick, ReceptionInv, FrameTypes
  <1>9. FrameTypes'
    BY <1>1, <1>7, <1>8 DEF ReceptionInv, FrameTypes
  <1>10. MessagesRemembered'
    <2> SUFFICES ASSUME NEW m \in Messages, upper'[m] = 1, since'[m] < Rejection
                 PROVE  Remembered(m, since[m])'
      BY DEF MessagesRemembered
    <2>1. since[m] \in Nat /\ since[m] < Rejection /\ since'[m] = since[m] + 1
      BY <1>0, <1>8 DEF ReceptionInv, FrameTypes
    <2>2. m \in DOMAIN duplicates /\ duplicates[m] <= since[m] /\ duplicates[m] \in Nat
      BY <1>1, <2>1 DEF ReceptionInv, MessagesRemembered, Remembered, FrameTypes
    <2> QED BY <1>0, <1>7, <2>1, <2>2 DEF Remembered
  <1>11. BroadcastsRemembered'
    <2> SUFFICES ASSUME NEW b \in Broadcasts, upper'[b] = 1
                 PROVE  b \in DOMAIN age' /\ (age'[b] <= Lifetime => Remembered(b, age[b])')
      BY DEF BroadcastsRemembered
    <2>1. b \in DOMAIN age /\ age[b] \in Nat
      BY <1>1 DEF ReceptionInv, BroadcastsRemembered, ClockTypes
    <2>2. ASSUME age'[b] <= Lifetime PROVE Remembered(b, age[b])'
      <3>1. age[b] <= Lifetime /\ age'[b] = age[b] + 1
        BY <1>0, <1>2, <2>1, <2>2
      <3>2. b \in DOMAIN duplicates /\ duplicates[b] <= age[b] /\ duplicates[b] \in Nat
        BY <1>1, <3>1 DEF ReceptionInv, BroadcastsRemembered, Remembered, FrameTypes
      <3>3. duplicates[b] + 1 < Rejection
        BY <1>0, <2>1, <2>2, <3>1, <3>2
      <3> QED BY <1>7, <2>1, <3>1, <3>2, <3>3 DEF Remembered
    <2> QED BY <1>2, <2>1, <2>2
  <1>12. ASSUME NEW b \in Broadcasts, Tracked(b) PROVE Tracked(b)'
    <2>1. b \in DOMAIN age /\ age[b] \in Nat /\ uptime \in Nat
      BY <1>12 DEF Tracked, ReceptionInv, ClockTypes
    <2>2. ASSUME age'[b] <= Lifetime, age'[b] < uptime'
          PROVE  b \in DOMAIN transactions' /\ transactions'[b].left + age'[b] >= Window
      <3>1. age[b] <= Lifetime /\ age'[b] = age[b] + 1 /\ age[b] < uptime
        BY <1>0, <1>2, <1>3, <2>1, <2>2
      <3>2. b \in DOMAIN transactions /\ transactions[b].left + age[b] >= Window
        BY <1>12, <3>1 DEF Tracked
      <3>3. transactions[b].left \in Nat /\ transactions'[b].left \in Nat
        BY <1>5, <3>2 DEF ReceptionInv, TableTypes, Entry
      <3>4. transactions'[b].left + 1 >= transactions[b].left
        BY <1>5, <3>2
      <3> QED BY <1>0, <1>5, <2>1, <3>1, <3>2, <3>3, <3>4
    <2> QED BY <1>2, <2>1, <2>2 DEF Tracked
  <1>13. OwnTracked'
    BY <1>2, <1>12 DEF ReceptionInv, OwnTracked, Broadcasts
  <1>14. OthersTracked'
    BY <1>1, <1>12 DEF ReceptionInv, OthersTracked, Broadcasts
  <1>15. HeardOnAir' /\ BroadcastOnce' /\ NoFalseConflict' /\ QuorumHonest'
    BY <1>1, <1>5 DEF ReceptionInv, HeardOnAir, BroadcastOnce, NoFalseConflict, QuorumHonest
  <1> QED BY <1>4, <1>6, <1>9, <1>10, <1>11, <1>13, <1>14, <1>15 DEF ReceptionInv

\* What a broadcast heard from a router does to the transaction table, case by case: the table
\* keeps its open transactions, and that of the broadcast notes the router.
LEMMA BroadcastTable ==
    ASSUME ReceptionInv, NEW r \in Routers, NEW c \in Counters, NEW b \in Broadcasts, HearBroadcast(r, c, b)
    PROVE  /\ TableTypes'
           /\ \A a \in DOMAIN transactions : transactions[a].left > 0 =>
                 a \in DOMAIN transactions' /\ transactions'[a].left >= transactions[a].left
           /\ \A a \in DOMAIN transactions' \ {b} : a \in DOMAIN transactions /\ transactions'[a] = transactions[a]
           /\ b \in DOMAIN transactions' =>
                 transactions'[b].heard \subseteq (IF b \in DOMAIN transactions THEN transactions[b].heard ELSE {}) \cup {r}
  <1>0. TableTypes /\ Window \in Nat
    BY ReceptionAssumption DEF ReceptionInv
  <1>1. \A a \in DOMAIN transactions : transactions[a] \in Entry /\ transactions[a].left \in Nat
    BY <1>0 DEF TableTypes, Entry
  <1>2. CASE UNCHANGED transactions
    BY <1>0, <1>1, <1>2 DEF TableTypes
  <1>3. CASE b \in DOMAIN Retained /\ transactions' = [Retained EXCEPT ![b].heard = @ \cup {r}]
    <2>1. Retained[b] = transactions[b] /\ transactions[b] \in Entry /\ b \in DOMAIN transactions
      BY <1>0, <1>3, RetainedFacts
    <2>2. /\ DOMAIN transactions' = DOMAIN Retained
          /\ \A a \in DOMAIN Retained \ {b} : transactions'[a] = Retained[a]
          /\ transactions'[b] = [Retained[b] EXCEPT !.heard = Retained[b].heard \cup {r}]
      BY <1>3 DEF Retained, Restrict
    <2>3. /\ transactions'[b] \in Entry /\ transactions'[b].left = transactions[b].left
          /\ transactions'[b].heard = transactions[b].heard \cup {r}
      <3>1. Retained[b] \in Entry
        BY <2>1
      <3>2. transactions'[b] = [left |-> Retained[b].left, audience |-> Retained[b].audience,
                                heard |-> Retained[b].heard \cup {r}]
        BY <2>2, <3>1 DEF Entry
      <3>3. Retained[b].left = transactions[b].left /\ Retained[b].heard = transactions[b].heard
        BY <2>1
      <3> QED BY <3>1, <3>2, <3>3 DEF Entry
    <2>4. \A a \in DOMAIN Retained \ {b} : a \in DOMAIN transactions /\ transactions'[a] = transactions[a]
                                           /\ transactions'[a] \in Entry /\ a \in Broadcasts
      BY <1>0, <2>2, RetainedFacts
    <2>5. \A a \in DOMAIN transactions : transactions[a].left > 0 => a \in DOMAIN Retained
      BY <1>0, RetainedFacts
    <2>6. TableTypes'
      BY <2>2, <2>3, <2>4 DEF TableTypes
    <2>7. \A a \in DOMAIN transactions : transactions[a].left > 0 =>
             a \in DOMAIN transactions' /\ transactions'[a].left >= transactions[a].left
      <3> SUFFICES ASSUME NEW a \in DOMAIN transactions, transactions[a].left > 0
                   PROVE  a \in DOMAIN transactions' /\ transactions'[a].left >= transactions[a].left
        OBVIOUS
      <3>1. a \in DOMAIN Retained /\ a \in DOMAIN transactions' /\ transactions[a].left \in Nat
        BY <1>1, <2>2, <2>5
      <3>2. transactions'[a].left = transactions[a].left
        BY <2>3, <2>4, <3>1
      <3> QED BY <3>1, <3>2
    <2> QED BY <2>1, <2>2, <2>3, <2>4, <2>6, <2>7
  <1>4. CASE b \notin DOMAIN Retained /\ transactions' = With(Retained, b, Transaction(Live(neighbors'), {r}))
    <2>1. /\ DOMAIN transactions' = DOMAIN Retained \cup {b}
          /\ transactions'[b] = Transaction(Live(neighbors'), {r})
          /\ \A a \in DOMAIN Retained \ {b} : transactions'[a] = Retained[a]
      BY <1>4 DEF With
    <2>2. transactions'[b] \in Entry /\ transactions'[b].heard = {r}
      BY <1>0, <2>1 DEF Transaction, Entry, Live
    <2>3. \A a \in DOMAIN Retained : a # b /\ a \in DOMAIN transactions /\ transactions'[a] = transactions[a]
                                     /\ transactions'[a] \in Entry /\ a \in Broadcasts
      BY <1>0, <1>4, <2>1, RetainedFacts
    <2>4. \A a \in DOMAIN transactions : transactions[a].left > 0 => a \in DOMAIN Retained
      BY <1>0, RetainedFacts
    <2>5. TableTypes'
      BY <2>1, <2>2, <2>3 DEF TableTypes
    <2>6. \A a \in DOMAIN transactions : transactions[a].left > 0 =>
             a \in DOMAIN transactions' /\ transactions'[a].left >= transactions[a].left
      BY <1>1, <2>1, <2>3, <2>4
    <2> QED BY <2>1, <2>2, <2>3, <2>5, <2>6
  <1> QED BY <1>2, <1>3, <1>4 DEF HearBroadcast

\* A broadcast that is new to the table has a whole window before it.
LEMMA NewTransaction ==
    ASSUME NEW r \in Routers, NEW c \in Counters, NEW b \in Broadcasts, HearBroadcast(r, c, b),
           ~UNCHANGED <<processed, conflict>>
    PROVE  /\ ~Early /\ b \notin DOMAIN Retained
           /\ processed' = [processed EXCEPT ![b] = @ + 1]
           /\ conflict' = (conflict \/ TakenForOurs(b))
           /\ b \in DOMAIN transactions' /\ transactions'[b].left = Window
  BY DEF HearBroadcast, With, Transaction

LEMMA BroadcastStep ==
    ASSUME ReceptionInv, NEW r \in Routers, NEW c \in Counters, NEW b \in Broadcasts, HearBroadcast(r, c, b)
    PROVE  ReceptionInv'
  <1>0. /\ b \in Frames /\ b \notin Messages
        /\ Lifetime \in Nat /\ Window \in Nat /\ Lifetime < Window
        /\ TableTypes /\ ClockTypes /\ uptime \in Nat
    BY ReceptionAssumption DEF Frames, ReceptionInv, ClockTypes
  <1>1. UNCHANGED <<uptime, impatient, claims, since>>
    BY DEF HearBroadcast
  <1>2. b \in DOMAIN age => age[b] <= Lifetime
    BY DEF HearBroadcast
  <1>3. /\ DOMAIN age' = DOMAIN age \cup {b} /\ \A a \in DOMAIN age : age'[a] = age[a]
        /\ b \notin DOMAIN age => age'[b] = 0 /\ b \in Others
    BY DEF HearBroadcast, With
  <1>4. ClockTypes' /\ age'[b] \in Nat /\ age'[b] <= Lifetime
    BY <1>0, <1>1, <1>2, <1>3 DEF ClockTypes
  <1>5. /\ aired' \in [Broadcasts -> SUBSET (Routers \cup {Us})] /\ r \in aired'[b]
        /\ \A a \in Broadcasts : aired[a] \subseteq aired'[a]
    BY DEF HearBroadcast, ReceptionInv, HistoryTypes
  <1>6. upper[b] = 1 => b \in DOMAIN duplicates
    BY <1>2 DEF ReceptionInv, BroadcastsRemembered, Remembered
  <1>7. FrameTypes' /\ Passed(b)
    BY <1>0, <1>1, <1>6, DeliverFacts DEF HearBroadcast, ReceptionInv, FrameTypes
  <1>8. MessagesRemembered'
    BY <1>0, <1>1, <1>7 DEF ReceptionInv, MessagesRemembered, Remembered, Passed, Frames
  <1>9. BroadcastsRemembered'
    <2> SUFFICES ASSUME NEW a \in Broadcasts, upper'[a] = 1
                 PROVE  a \in DOMAIN age' /\ (age'[a] <= Lifetime => Remembered(a, age[a])')
      BY DEF BroadcastsRemembered
    <2>1. CASE a = b
      BY <1>3, <1>4, <1>7, <2>1 DEF Remembered, Passed
    <2>2. CASE a # b
      BY <1>3, <1>7, <2>2 DEF ReceptionInv, BroadcastsRemembered, Remembered, Passed, Frames
    <2> QED BY <2>1, <2>2
  <1>10. HeardOnAir'
    BY <1>0, <1>5, BroadcastTable DEF ReceptionInv, HeardOnAir, TableTypes
  <1>11. ASSUME NEW a \in Broadcasts, Tracked(a) PROVE Tracked(a)'
    <2>1. a \in DOMAIN age /\ age[a] \in Nat
      BY <1>0, <1>11 DEF Tracked, ClockTypes
    <2>2. ASSUME age[a] <= Lifetime, age[a] < uptime
          PROVE  a \in DOMAIN transactions' /\ transactions'[a].left + age[a] >= Window
      <3>1. a \in DOMAIN transactions /\ transactions[a].left + age[a] >= Window
        BY <1>11, <2>2 DEF Tracked
      <3>2. transactions[a].left \in Nat
        BY <1>0, <3>1 DEF TableTypes, Entry
      <3>3. transactions[a].left > 0
        BY <1>0, <2>1, <2>2, <3>1, <3>2
      <3>4. a \in DOMAIN transactions' /\ transactions'[a].left >= transactions[a].left
        BY <3>1, <3>3, BroadcastTable
      <3>5. transactions'[a].left \in Nat
        BY <3>4, BroadcastTable DEF TableTypes, Entry
      <3> QED BY <1>0, <2>1, <3>1, <3>2, <3>4, <3>5
    <2> QED BY <1>1, <1>3, <2>1, <2>2 DEF Tracked
  <1>12. ~(b \in Own /\ b \notin DOMAIN age)
    BY <1>3, ReceptionAssumption
  <1>13. OwnTracked'
    BY <1>3, <1>11, <1>12 DEF ReceptionInv, OwnTracked, Broadcasts
  <1>14. CASE UNCHANGED <<processed, conflict>>
    <2>1. OthersTracked'
      BY <1>1, <1>11, <1>14 DEF ReceptionInv, OthersTracked, Broadcasts
    <2>2. HistoryTypes' /\ BroadcastOnce' /\ NoFalseConflict' /\ QuorumHonest'
      BY <1>1, <1>5, <1>14 DEF ReceptionInv, HistoryTypes, BroadcastOnce, NoFalseConflict, QuorumHonest
    <2> QED BY <1>4, <1>7, <1>8, <1>9, <1>10, <1>13, <2>1, <2>2, BroadcastTable DEF ReceptionInv
  <1>15. CASE ~UNCHANGED <<processed, conflict>>
    <2>1. /\ ~Early /\ b \notin DOMAIN Retained
          /\ processed' = [processed EXCEPT ![b] = @ + 1]
          /\ conflict' = (conflict \/ TakenForOurs(b))
          /\ b \in DOMAIN transactions' /\ transactions'[b].left = Window
      BY <1>15, NewTransaction
    <2>2. uptime >= Window => ~(b \in DOMAIN age /\ Tracked(b))
      BY <1>0, <1>2, <2>1, TrackedIsRetained
    <2>3. uptime >= Window => b \in Others
      BY <1>12, <2>2 DEF ReceptionInv, OwnTracked, Broadcasts
    <2>4. ~TakenForOurs(b)
      BY <1>0, <2>3, ReceptionAssumption DEF TakenForOurs
    <2>5. Tracked(b)'
      BY <1>0, <1>3, <1>4, <2>1 DEF Tracked
    <2>6. /\ processed \in [Broadcasts -> Nat] /\ processed' \in [Broadcasts -> Nat]
          /\ processed'[b] = processed[b] + 1 /\ \A a \in Broadcasts \ {b} : processed'[a] = processed[a]
      BY <2>1 DEF ReceptionInv, HistoryTypes
    <2>7. OthersTracked'
      BY <1>1, <1>11, <2>5, <2>6 DEF ReceptionInv, OthersTracked, Broadcasts
    <2>8. HistoryTypes' /\ NoFalseConflict' /\ QuorumHonest'
      BY <1>1, <1>5, <2>1, <2>4, <2>6 DEF ReceptionInv, HistoryTypes, NoFalseConflict, QuorumHonest
    <2>9. BroadcastOnce'
      <3> SUFFICES ASSUME ~impatient, NEW a \in Broadcasts
                   PROVE  processed'[a] <= (IF a \in Own THEN 0 ELSE 1)
        BY <1>1 DEF BroadcastOnce
      <3>1. uptime >= Window
        BY <1>0, <2>1 DEF Early
      <3>2. b \in Others /\ b \notin Own
        BY <2>3, <3>1, ReceptionAssumption
      <3>3. ~Tracked(b)
        BY <2>2, <3>1 DEF Tracked
      <3>4. processed[b] = 0
        BY <2>6, <3>2, <3>3 DEF ReceptionInv, OthersTracked
      <3> QED BY <2>6, <3>2, <3>4 DEF ReceptionInv, BroadcastOnce
    <2> QED BY <1>4, <1>7, <1>8, <1>9, <1>10, <1>13, <2>7, <2>8, <2>9, BroadcastTable DEF ReceptionInv
  <1> QED BY <1>14, <1>15

-----------------------------------------------------------------------------
LEMMA ReceptionInitial ==
    ReceptionInit => ReceptionInv
  <1> SUFFICES ASSUME ReceptionInit PROVE ReceptionInv
    OBVIOUS
  <1>1. DOMAIN transactions = {} /\ DOMAIN duplicates = {} /\ DOMAIN age = {}
    BY DEF ReceptionInit, None
  <1>2. TableTypes /\ ClockTypes
    BY <1>1 DEF ReceptionInit, TableTypes, ClockTypes
  <1>3. FrameTypes
    BY <1>1 DEF ReceptionInit, FrameTypes, Frames
  <1>4. HistoryTypes
    BY DEF ReceptionInit, HistoryTypes
  <1>5. MessagesRemembered /\ BroadcastsRemembered
    BY DEF ReceptionInit, MessagesRemembered, BroadcastsRemembered
  <1>6. OwnTracked /\ OthersTracked
    BY <1>1 DEF ReceptionInit, OwnTracked, OthersTracked, Broadcasts
  <1>7. HeardOnAir /\ BroadcastOnce /\ NoFalseConflict /\ QuorumHonest
    BY <1>1 DEF ReceptionInit, HeardOnAir, BroadcastOnce, NoFalseConflict, QuorumHonest
  <1> QED BY <1>2, <1>3, <1>4, <1>5, <1>6, <1>7 DEF ReceptionInv

LEMMA ReceptionStep ==
    ReceptionInv /\ [ReceptionNext]_receptionVars => ReceptionInv'
  <1> SUFFICES ASSUME ReceptionInv, [ReceptionNext]_receptionVars PROVE ReceptionInv'
    OBVIOUS
  <1>1. CASE SendLinkStatus
    BY <1>1, Untouched DEF SendLinkStatus, sending, network, history
  <1>2. CASE Tick
    BY <1>2, TickStep
  <1>3. CASE Restart
    BY <1>3, RestartStep
  <1>4. ASSUME NEW r \in Routers, NEW c \in Counters,
               \/ Damaged(r, c) \/ Transit(r, c)
               \/ \E first, lists \in BOOLEAN : LinkStatus(r, c, first, lists)
        PROVE  ReceptionInv'
    BY <1>4, Untouched DEF Damaged, Transit, LinkStatus, sending, network, history
  <1>5. ASSUME NEW r \in Routers, NEW c \in Counters, NEW b \in Broadcasts, HearBroadcast(r, c, b)
        PROVE  ReceptionInv'
    BY <1>5, BroadcastStep
  <1>6. ASSUME NEW r \in Routers, NEW c \in Counters, NEW m \in Messages, HearUnicast(r, c, m)
        PROVE  ReceptionInv'
    BY <1>6, UnicastStep
  <1>7. ASSUME NEW b \in Own, SendBroadcast(b) PROVE ReceptionInv'
    BY <1>7, SendStep
  <1>8. ASSUME NEW b \in DOMAIN records, QuorumHeard(b) PROVE ReceptionInv'
    BY <1>8, QuorumStep
  <1>9. ASSUME NEW b \in DOMAIN records, Exhausted(b) PROVE ReceptionInv'
    BY <1>9, Untouched DEF Exhausted, network, history
  <1>10. ASSUME NEW b \in DOMAIN records, NEW leaves \in BOOLEAN, Copy(b, leaves) PROVE ReceptionInv'
    BY <1>10, CopyStep
  <1>11. CASE UNCHANGED receptionVars
    BY <1>11, Untouched DEF receptionVars, sending, network, history
  <1> QED BY <1>1, <1>2, <1>3, <1>4, <1>5, <1>6, <1>7, <1>8, <1>9, <1>10, <1>11 DEF ReceptionNext

\* The invariant of the tables: a frame the application has seen is on the list of duplicates as long
\* as copies may come, a broadcast that began since the start has an open transaction as long as it is
\* repeated, and whoever counts as a relayer has transmitted.
THEOREM ReceptionInvariant == ReceptionSpec => []ReceptionInv
  BY ReceptionInitial, ReceptionStep, PTL DEF ReceptionSpec

\* filter_broadcast lets a broadcast of another device pass once and our own never, over any number
\* of relays and restarts, provided the delivery time exceeds the time the network repeats it.
THEOREM BroadcastsPassOnce == ReceptionSpec => []BroadcastOnce
  BY ReceptionInvariant, PTL DEF ReceptionInv

\* No broadcast of our own is ever taken for that of a device with our address, also one from before a
\* restart and also without the startup wait.
THEOREM OwnAddressIsOurs == ReceptionSpec => []NoFalseConflict
  BY ReceptionInvariant, PTL DEF ReceptionInv

\* A broadcast that passively_acked finds delivered was transmitted by a quorum, or by all, of the
\* audience that is alive, for every quorum and every number of neighbours.
THEOREM AcksAreHonest == ReceptionSpec => []QuorumHonest
  BY ReceptionInvariant, PTL DEF ReceptionInv

\* Between two starts is_duplicate_aps_frame lets a data frame reach the application once, over any
\* number of copies within the rejection window of each other.
THEOREM DuplicatesRejected == ReceptionSpec => []DeliveredOnce
  <1>1. ReceptionInv => DeliveredOnce
    BY DEF ReceptionInv, FrameTypes, DeliveredOnce
  <1> QED BY <1>1, ReceptionInvariant, PTL

\* The counter a sender must exceed is never one it has not used, damaged frames included.
THEOREM CountersAreTheirs == ReceptionSpec => []CountersGenuine
  <1>1. ReceptionInit => CountersGenuine
    BY DEF ReceptionInit, None, CountersGenuine
  <1>2. CountersGenuine /\ [ReceptionNext]_receptionVars => CountersGenuine'
    <2> SUFFICES ASSUME CountersGenuine, [ReceptionNext]_receptionVars PROVE CountersGenuine'
      OBVIOUS
    <2>1. ASSUME NEW r \in Routers, NEW c \in Counters, Heard(r, c) PROVE CountersGenuine'
      BY <2>1 DEF Heard, Noted, With, Counters, New, Last, CountersGenuine
    <2>2. CASE UNCHANGED seen
      BY <2>2 DEF CountersGenuine
    <2>3. CASE Restart
      BY <2>3 DEF Restart, None, CountersGenuine
    <2>4. \/ UNCHANGED seen \/ Restart
          \/ \E r \in Routers, c \in Counters : Heard(r, c)
      BY DEF ReceptionNext, SendLinkStatus, Tick, Damaged, Noted, Transit, LinkStatus, HearBroadcast, HearUnicast,
         SendBroadcast, QuorumHeard, Exhausted, Copy, receptionVars
    <2> QED BY <2>1, <2>2, <2>3, <2>4
  <1> QED BY <1>1, <1>2, PTL DEF ReceptionSpec
=============================================================================
