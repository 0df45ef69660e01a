------------------------------- MODULE Restart -------------------------------
(***************************************************************************)
(* From Telegram to the disk and back again: the poll loop of src/runtime.rs, *)
(* the commands it dispatches, the two files they change, and the process that *)
(* ends (killed, stopped by a signal or the terminal, or by /shutdown) and is   *)
(* started again.  Telegram keeps an update until a poll asks for a later one,  *)
(* and the offset lives in the process: what was handed over but not confirmed  *)
(* is delivered again to the next process.                                      *)
(*                                                                         *)
(* A worker judges the sender of a command when it takes it, finds out what it  *)
(* asks for once the locks are free, and carries it out later still; meanwhile   *)
(* the clock moves, other workers do the same, and the poll loop changes the     *)
(* config itself when an owner adds the bot to a chat or a chat pairs.           *)
(*                                                                         *)
(* One change is made and saved at a time: how workers of different chats and   *)
(* /deny interleave is in ChatTurns, what write_atomic does in Persistence,     *)
(* which code pairs a chat in Pairing, the terminal in TerminalPrompt.          *)
(***************************************************************************)
EXTENDS Commands, FiniteSetsExt

CONSTANTS
  Default,       \* config.default_model
  Entry,         \* the [models] entry of each key, in the file or as a preset
  Presets,       \* keys of the wizard's presets
  Can,           \* what each key's endpoint supports: a set of features
  Messages,      \* what users may do: [kind, chat, sender, text]
  InitialConfig, \* config.toml at the first start
  QueueSize,     \* CHAT_QUEUE_SIZE
  StaleAfter,    \* PRIVILEGED_COMMAND_STALE_AFTER, in ticks
  MaxUpdates,    \* bound on the updates sent
  MaxTime,       \* bound on the ticks
  MaxStops,      \* bound on the ends of a process
  MaxFailures    \* bound on failed saves and polls

(***************************************************************************)
(* Config::validate.  Of an entry it looks at the wire format, the secret's    *)
(* name and the base URL; of the whole, at the default model and the pins.      *)
(***************************************************************************)
CleartextAllowed(e) ==
  /\ e.secret # "named" /\ e.wire = "compat"
  /\ e.url = "httpLocal" \/ (e.url = "http" /\ e.insecure)

EntryValid(e) ==
  /\ e.key = "token" /\ e.name # "empty"
  /\ e.wire = "compat" => e.url # "none"
  /\ e.wire # "compat" => e.secret = "named"
  /\ e.secret \in {"none", "named"}
  /\ e.url \notin {"empty", "invalid", "embedsCredentials"}
  /\ e.url \in {"none", "https"} \/ CleartextAllowed(e)

\* pins[k][c] is how often the entry of k lists chat c; a key without an entry lists none.
Configs == [models : SUBSET Keys, pins : [Keys -> [Chats -> Nat]], allowed : SUBSET Chats,
            owners : SUBSET STRING]

PinnedTo(cfg, c) == {k \in cfg.models : cfg.pins[k][c] > 0}

Valid(cfg) ==
  /\ Default \in cfg.models
  /\ \A k \in cfg.models : EntryValid(Entry[k])
  /\ \A k \in cfg.models, c \in Chats : cfg.pins[k][c] <= 1
  /\ \A c \in Chats : \A k, l \in PinnedTo(cfg, c) : k = l

Texts == [name : STRING, bot : STRING, args : Seq(STRING)]

\* A message, or a my_chat_member update by which the bot joins a chat.
UpdateKinds == {"message", "join"}

ASSUME RestartConstants ==
  /\ {QueueSize, StaleAfter, MaxUpdates, MaxTime, MaxStops, MaxFailures} \subseteq Nat
  /\ InitialConfig \in Configs /\ Valid(InitialConfig)
  /\ \A k \in Keys \ InitialConfig.models, c \in Chats : InitialConfig.pins[k][c] = 0
  /\ \A k \in Presets : k \in Keys /\ EntryValid(Entry[k])
  /\ Messages \subseteq [kind : UpdateKinds, chat : Chats, sender : STRING, text : Texts]

VARIABLES
  sent,          \* what users sent so far; the index is the update id
  confirmed,     \* updates up to this one are gone from Telegram
  clock,
  up,            \* the process runs
  seen,          \* offset - 1
  batch,         \* updates of the last poll that the loop has not looked at
  queues,        \* chat workers' channels
  hand,          \* the message each worker has taken, until it is carried out
  work,          \* the change that is being made
  config, rooms, \* in memory
  cfgFile, roomsFile,  \* on disk
  stopping,      \* /shutdown has been carried out
  given,         \* updates looked at by this process, in order
  executed, dropped, lost,
  used           \* stops and failures so far

telegramVars == <<sent, confirmed, clock>>
memoryVars == <<config, rooms>>
fileVars == <<cfgFile, roomsFile>>
fateVars == <<executed, dropped, lost>>
vars == <<telegramVars, up, seen, batch, queues, hand, work, memoryVars, fileVars, stopping,
          given, fateVars, used>>

Update == [kind : UpdateKinds, chat : Chats, sender : STRING, text : Texts, date : Nat]

NoWork == [id |-> 0, todo |-> <<>>]

NoHand == [id |-> 0]

\* at is when check_privileged judged the sender.
Taken(id, access, at, action) == [id |-> id, access |-> access, at |-> at, action |-> action]

Unresolved == [op |-> "unresolved"]

Init ==
  /\ sent = <<>> /\ confirmed = 0 /\ clock = 0
  /\ up = TRUE /\ seen = 0 /\ batch = <<>>
  /\ queues = [c \in Chats |-> <<>>]
  /\ hand = [c \in Chats |-> NoHand] /\ work = NoWork
  /\ config = InitialConfig /\ cfgFile = InitialConfig
  /\ rooms = [c \in Chats |-> DefaultSettings] /\ roomsFile = rooms
  /\ stopping = FALSE
  /\ given = <<>>
  /\ executed = {} /\ dropped = {} /\ lost = {}
  /\ used = [event \in {"stops", "failures"} |-> 0]

Count(event, bound) ==
  /\ used[event] < bound
  /\ used' = [used EXCEPT ![event] = @ + 1]

-----------------------------------------------------------------------------
(* What a command does.                                                     *)

PinOf(cfg, c) ==
  IF PinnedTo(cfg, c) = {} THEN NoName ELSE CHOOSE k \in PinnedTo(cfg, c) : TRUE

\* AccessConfig::from_config: model pins allow a chat too.
Allowed(cfg) == {c \in Chats : c \in cfg.allowed \/ PinOf(cfg, c) # NoName}

SelectedModel(cfg, room, c) ==
  CASE PinOf(cfg, c) # NoName -> PinOf(cfg, c)
    [] PinOf(cfg, c) = NoName /\ room.model # NoName -> room.model
    [] OTHER -> Default

\* AccessControl's owners: whoever pairs becomes one when that is saved.  A message
\* without a sender is no owner's.
Owners == (IF work = NoWork THEN config.owners ELSE work.config.owners) \ {NoName}

\* Mutant: an old message is as good as a fresh one.
OwnerOnly(sender, date) == IF sender \in Owners THEN "allowed" ELSE "notOwner"

CheckPrivileged(sender, date) ==
  CASE sender \notin Owners -> "notOwner"
    [] sender \in Owners /\ clock > date + StaleAfter -> "stale"
    [] OTHER -> "allowed"

Context(c, access, cfg, room) ==
  [settings |-> room, default |-> Default, keys |-> cfg.models, pinned |-> PinOf(cfg, c),
   can |-> IF SelectedModel(cfg, room, c) \in cfg.models THEN Can[SelectedModel(cfg, room, c)]
           ELSE Features,
   access |-> access]

Unpinned(cfg, c) == [cfg EXCEPT !.pins = [k \in Keys |-> [@[k] EXCEPT ![c] = 0]]]

\* Mutant: the chat's old pin is not released first.
PinAdded(cfg, c, key) == [cfg EXCEPT !.pins[key][c] = @ + 1]

PinMoved(cfg, c, key) == [Unpinned(cfg, c) EXCEPT !.pins[key][c] = @ + 1]

\* The config after an action sent in chat c.
NewConfig(a, c, cfg) ==
  CASE a.op = "pin" -> PinMoved(cfg, c, a.key)
    [] a.op = "unpin" /\ PinOf(cfg, c) # NoName ->
         [Unpinned(cfg, c) EXCEPT !.allowed = @ \cup {c}]
    [] a.op = "add" /\ a.key \in Presets -> [cfg EXCEPT !.models = @ \cup {a.key}]
    [] a.op \in {"allow", "join"} -> [cfg EXCEPT !.allowed = @ \cup {a.chat}]
    [] a.op = "paired" ->
         [cfg EXCEPT !.allowed = @ \cup {a.chat}, !.owners = @ \cup ({a.user} \ {NoName})]
    [] a.op = "deny" -> [Unpinned(cfg, a.chat) EXCEPT !.allowed = @ \ {a.chat}]
    [] OTHER -> cfg

ResetRoomModelContext(room) == [room EXCEPT !.thinking = NoName]

ModeOrModelSet(a, room) ==
  IF a.op = "setMode" THEN [room EXCEPT !.mode = a.mode]
  ELSE ResetRoomModelContext([room EXCEPT !.model = a.key])

SettingSet(a, room) ==
  CASE a.op = "setRole" -> [room EXCEPT !.role = a.role]
    [] a.op = "setThinking" -> [room EXCEPT !.thinking = a.level]
    [] a.op = "setFeature" ->
         [room EXCEPT !.features = IF a.enabled THEN @ \cup {a.feature} ELSE @ \ {a.feature}]

\* The settings of every room after it; cfg is the config before it.
NewRooms(a, c, cfg, rs) ==
  CASE a.op \in {"setMode", "setModel"} -> [rs EXCEPT ![c] = ModeOrModelSet(a, @)]
    [] a.op \in {"setRole", "setThinking", "setFeature"} -> [rs EXCEPT ![c] = SettingSet(a, @)]
    [] a.op = "pin" \/ (a.op = "unpin" /\ PinOf(cfg, c) # NoName) ->
         [rs EXCEPT ![c] = ResetRoomModelContext(@)]
    [] a.op = "deny" -> [rs EXCEPT ![a.chat] = DefaultSettings]
    [] OTHER -> rs

\* The saves it waits for, in order: an unchanged config is saved only by a pin,
\* and rooms.toml whenever a setting is set, changed or not.
Saves(a, c, cfg) ==
  (IF NewConfig(a, c, cfg) # cfg \/ a.op = "pin" THEN <<"config">> ELSE <<>>)
  \o (IF a.op \in {"setMode", "setModel", "setRole", "setThinking", "setFeature", "pin", "deny"}
         \/ (a.op = "unpin" /\ PinOf(cfg, c) # NoName) THEN <<"rooms">> ELSE <<>>)

\* What update u asks for in the state of cfg and rs; a message that is not a
\* command is a turn for the model, which changes none of this.
ActionOf(u, access, cfg, rs) ==
  IF IsCommand(u.text)
  THEN Resolve(u.text.name, u.text.args, Context(u.chat, access, cfg, rs[u.chat]))
  ELSE [op |-> "turn"]

\* AccessConfig in memory: /allow and a join add to it after the save, a pairing adds and
\* /deny removes before.
Access ==
  IF work # NoWork /\ work.action.op \in {"allow", "join"} THEN Allowed(work.config) ELSE Allowed(config)

-----------------------------------------------------------------------------
(* Telegram and its users.                                                  *)

Send ==
  /\ Len(sent) < MaxUpdates
  /\ \E m \in Messages :
       sent' = Append(sent, [kind |-> m.kind, chat |-> m.chat, sender |-> m.sender, text |-> m.text, date |-> clock])
  /\ UNCHANGED <<confirmed, clock, up, seen, batch, queues, hand, work, memoryVars, fileVars,
                 stopping, given, fateVars, used>>

Tick ==
  /\ clock < MaxTime
  /\ clock' = clock + 1
  /\ UNCHANGED <<sent, confirmed, up, seen, batch, queues, hand, work, memoryVars, fileVars,
                 stopping, given, fateVars, used>>

-----------------------------------------------------------------------------
(* The poll loop.                                                           *)

\* The loop saves a change of its own, and does nothing else meanwhile.
LoopBusy == work # NoWork /\ work.action.op \in {"join", "paired"}

\* A poll for offset makes Telegram forget the updates before it.
Asked == confirmed' = Max({confirmed, seen})

PollArrives ==
  /\ up /\ batch = <<>> /\ ~LoopBusy
  /\ Asked
  /\ batch' = [i \in 1 .. Len(sent) - confirmed' |-> confirmed' + i]
  /\ UNCHANGED <<sent, clock, up, seen, queues, hand, work, memoryVars, fileVars, stopping, given,
                 fateVars, used>>

\* The answer is lost or late, or another branch of the select wins.
PollLost ==
  /\ up /\ batch = <<>> /\ ~LoopBusy
  /\ Count("failures", MaxFailures)
  /\ Asked
  /\ UNCHANGED <<sent, clock, up, seen, batch, queues, hand, work, memoryVars, fileVars, stopping,
                 given, fateVars>>

\* Mutant: the offset runs one ahead.
OffsetAhead(id) == Max({seen, id + 1})

Seen(id) == Max({seen, id})

\* A change begins: a config that changes is saved before anything else happens to it,
\* and what needs no save is done with.
Begin(id, c, a) ==
  LET saves == Saves(a, c, config)
      todo == [id |-> id, todo |-> saves, action |-> a, config |-> config, rooms |-> rooms]
  IN
  /\ work = NoWork
  /\ work' = IF saves = <<>> THEN NoWork ELSE todo
  /\ executed' = IF saves = <<>> THEN executed \cup {id} ELSE executed
  /\ config' = NewConfig(a, c, config)
  /\ rooms' = IF saves # <<>> /\ Head(saves) = "rooms" THEN NewRooms(a, c, config, rooms)
              ELSE rooms

\* handle_update, of a message in an allowed chat
ToWorker(id) ==
  LET c == sent[id].chat IN
  /\ sent[id].kind = "message" /\ c \in Access
  /\ IF Len(queues[c]) < QueueSize
     THEN queues' = [queues EXCEPT ![c] = Append(@, id)] /\ UNCHANGED dropped
     ELSE dropped' = dropped \cup {id} /\ UNCHANGED queues  \* with a busy notice
  /\ UNCHANGED <<work, memoryVars, executed>>

\* A message of an unknown chat, with or without a wrong code; the bot joins a chat by
\* somebody who is no owner.
TurnedAway(id) ==
  /\ IF sent[id].kind = "message" THEN sent[id].chat \notin Access ELSE sent[id].sender \notin Owners
  /\ dropped' = dropped \cup {id}
  /\ UNCHANGED <<queues, work, memoryVars, executed>>

\* handle_membership_change, by an owner: no matter how old the update is.
Joins(id) == sent[id].kind = "join" /\ sent[id].sender \in Owners

\* handle_pair_attempt of an unknown chat; any code may be the right one here.
MayPair(id) ==
  LET text == sent[id].text IN
  /\ sent[id].kind = "message" /\ sent[id].chat \notin Access
  /\ IsCommand(text) /\ text.name = "pair" /\ text.args # <<>>

\* persist_paired_chat makes the sender an owner too.
Approved(id) ==
  LET c == sent[id].chat IN
  /\ \/ Joins(id) /\ Begin(id, c, [op |-> "join", chat |-> c])
     \/ MayPair(id) /\ Begin(id, c, [op |-> "paired", chat |-> c, user |-> sent[id].sender])
  /\ UNCHANGED <<queues, dropped>>

LookAtUpdate ==
  LET id == Head(batch) IN
  /\ up /\ batch # <<>> /\ ~LoopBusy
  /\ batch' = Tail(batch)
  /\ seen' = Seen(id)
  /\ given' = Append(given, id)
  /\ ToWorker(id) \/ TurnedAway(id) \/ Approved(id)
  /\ UNCHANGED <<telegramVars, up, hand, fileVars, stopping, lost, used>>

-----------------------------------------------------------------------------
(* The workers.                                                             *)

\* A worker does one thing at a time.
Busy(c) == hand[c] # NoHand \/ (work # NoWork /\ sent[work.id].chat = c)

\* A message leaves the channel, and its sender is judged.
Take(c) ==
  LET id == Head(queues[c])
      access == CheckPrivileged(sent[id].sender, sent[id].date)
  IN
  /\ up /\ queues[c] # <<>> /\ c \in Access /\ ~Busy(c)
  /\ queues' = [queues EXCEPT ![c] = Tail(@)]
  /\ hand' = [hand EXCEPT ![c] = Taken(id, access, clock, Unresolved)]
  /\ UNCHANGED <<telegramVars, up, seen, batch, work, memoryVars, fileVars, stopping, given,
                 fateVars, used>>

\* route_command, with the config and the rooms locked: no change is under way.
Route(c) ==
  LET h == hand[c] IN
  /\ up /\ h # NoHand /\ h.action = Unresolved /\ work = NoWork
  /\ hand' = [hand EXCEPT ![c] =
       Taken(h.id, h.access, h.at, ActionOf(sent[h.id], h.access, config, rooms))]
  /\ UNCHANGED <<telegramVars, up, seen, batch, queues, work, memoryVars, fileVars, stopping,
                 given, fateVars, used>>

\* /shutdown replies first; if the reply cannot be sent, the process goes on.
StopsAfter(a) == IF a.op = "shutdown" THEN {stopping, TRUE} ELSE {stopping}

\* handle_command.  /deny of another chat drops what its worker has, and has to do.
CarryOut(c) ==
  LET h == hand[c]
      aborted == IF h.action.op = "deny" THEN {h.action.chat} \ {c} ELSE {}
  IN
  /\ up /\ h # NoHand /\ h.action # Unresolved
  /\ Begin(h.id, c, h.action)
  /\ stopping' \in StopsAfter(h.action)
  /\ queues' = [d \in Chats |-> IF d \in aborted THEN <<>> ELSE queues[d]]
  /\ hand' = [d \in Chats |-> IF d \in aborted \cup {c} THEN NoHand ELSE hand[d]]
  /\ dropped' = dropped \cup UNION {Range(queues[d]) \cup ({hand[d].id} \ {0}) : d \in aborted}
  /\ UNCHANGED <<telegramVars, up, seen, batch, fileVars, given, lost, used>>

\* The write under way, in the file.
Written ==
  IF Head(work.todo) = "config" THEN cfgFile' = config /\ UNCHANGED roomsFile
  ELSE roomsFile' = rooms /\ UNCHANGED cfgFile

\* The answer is given.  A worker that denied its own chat ends, and its channel with it.
Finish(denied) ==
  LET c == sent[work.id].chat
      ends == denied /\ work.action.op = "deny" /\ work.action.chat = c
  IN
  /\ work' = NoWork
  /\ executed' = executed \cup {work.id}
  /\ dropped' = IF ends THEN dropped \cup Range(queues[c]) ELSE dropped
  /\ queues' = IF ends THEN [queues EXCEPT ![c] = <<>>] ELSE queues

Saved ==
  /\ up /\ work # NoWork
  /\ Written
  /\ IF Len(work.todo) > 1
     THEN /\ work' = [work EXCEPT !.todo = Tail(@)]
          /\ rooms' = NewRooms(work.action, sent[work.id].chat, work.config, rooms)
          /\ UNCHANGED <<executed, dropped, queues>>
     ELSE Finish(TRUE) /\ UNCHANGED rooms
  /\ UNCHANGED <<telegramVars, up, seen, batch, hand, config, stopping, given, lost, used>>

\* A refused change is taken back, except the removal of a denied room; the
\* answer to the user is the error.
SaveFails ==
  /\ up /\ work # NoWork
  /\ Count("failures", MaxFailures)
  /\ IF Head(work.todo) = "config" THEN config' = work.config /\ UNCHANGED rooms
     ELSE /\ rooms' = IF work.action.op = "deny" THEN rooms ELSE work.rooms
          /\ UNCHANGED config
  /\ Finish(Head(work.todo) = "rooms")
  /\ UNCHANGED <<telegramVars, up, seen, batch, hand, fileVars, stopping, given, lost>>

-----------------------------------------------------------------------------
(* The end of a process, and the next one.                                  *)

InHand ==
  Range(batch) \cup (UNION {Range(queues[c]) : c \in Chats})
  \cup (({work.id} \cup {hand[c].id : c \in Chats}) \ {0})

\* The write under way may still land.  What Telegram has forgotten is lost.
Stop ==
  /\ up
  /\ IF stopping THEN UNCHANGED used ELSE Count("stops", MaxStops)
  /\ up' = FALSE
  /\ IF work = NoWork THEN UNCHANGED fileVars ELSE Written \/ UNCHANGED fileVars
  /\ lost' = lost \cup {id \in InHand : id <= confirmed}
  /\ batch' = <<>> /\ queues' = [c \in Chats |-> <<>>]
  /\ hand' = [c \in Chats |-> NoHand] /\ work' = NoWork
  /\ stopping' = FALSE /\ seen' = 0 /\ given' = <<>>
  /\ UNCHANGED <<telegramVars, memoryVars, executed, dropped>>

\* load_validated and load_settings; the offset starts from 0.
StartAgain ==
  /\ ~up /\ Valid(cfgFile)
  /\ up' = TRUE
  /\ config' = cfgFile /\ rooms' = roomsFile
  /\ UNCHANGED <<telegramVars, seen, batch, queues, hand, work, fileVars, stopping, given, fateVars,
                 used>>

-----------------------------------------------------------------------------
Work == (\E c \in Chats : Take(c) \/ Route(c) \/ CarryOut(c)) \/ Saved \/ SaveFails
Loop == PollArrives \/ LookAtUpdate

Next == Send \/ Tick \/ Loop \/ PollLost \/ Work \/ Stop \/ StartAgain

Spec == Init /\ [][Next]_vars

-----------------------------------------------------------------------------
ActionOK(a, keys) ==
  /\ a.op \in {"pin", "setModel"} => a.key \in keys
  /\ a.op = "setMode" => a.mode \in Modes
  /\ a.op = "setRole" => a.role \in Seq(STRING)
  /\ a.op = "setThinking" => a.level \in Levels \cup {NoName}
  /\ a.op = "setFeature" => a.feature \in Features /\ a.enabled \in BOOLEAN
  /\ a.op \in {"allow", "deny", "join", "paired"} => a.chat \in Chats
  /\ a.op = "paired" => a.user \in STRING

WorkOK(w) ==
  /\ w.id \in DOMAIN sent /\ w.todo \in Seq({"config", "rooms"}) /\ w.todo # <<>>
  /\ w.config \in Configs /\ w.rooms \in [Chats -> RoomSettings]
  /\ ActionOK(w.action, w.config.models)

HandOK(h) ==
  /\ h.id \in DOMAIN sent /\ h.at \in Nat
  /\ h.access \in {"allowed", "notOwner", "stale"}
  /\ ActionOK(h.action, config.models)

HandsOK ==
  /\ DOMAIN hand = Chats
  /\ \A c \in Chats : hand[c] = NoHand \/ HandOK(hand[c])

TypeOK ==
  /\ sent \in Seq(Update)
  /\ confirmed \in Nat /\ clock \in Nat /\ seen \in Nat
  /\ batch \in Seq(DOMAIN sent) /\ queues \in [Chats -> Seq(DOMAIN sent)] /\ given \in Seq(Nat)
  /\ {config, cfgFile} \subseteq Configs
  /\ {rooms, roomsFile} \subseteq [Chats -> RoomSettings]
  /\ HandsOK
  /\ work = NoWork \/ WorkOK(work)
  /\ {up, stopping} \subseteq BOOLEAN
  /\ executed \cup dropped \cup lost \subseteq DOMAIN sent
  /\ used \in [{"stops", "failures"} -> Nat]

\* No update falls between Telegram and the workers: one that Telegram has
\* forgotten is in the process's hands, or was answered, or was dropped (by a full
\* queue, as an unknown chat's, or by a /deny), or was in the hands of a process that
\* ended.  And one process looks at an update once, and at updates in the order they
\* were sent, however many polls are lost.
NothingSlipsOrRepeats ==
  /\ \A id \in DOMAIN sent :
       id > confirmed \/ id \in InHand \cup executed \cup dropped \cup lost
  /\ \A i, j \in DOMAIN given : i < j => given[i] < given[j]

\* The config on disk is one that load_validated accepts: no sequence of
\* commands, failed saves and ends of the process locks the operator out.
LoadsAgain == Valid(cfgFile)

\* The worker of chat c carries out what it took.
Carries(c) ==
  hand[c] # NoHand /\ hand'[c] = NoHand /\ (work' = NoWork \/ work'.id = hand[c].id)

FromFreshOwner(h) ==
  sent[h.id].sender \in Owners /\ h.at <= sent[h.id].date + StaleAfter

\* The poll loop changes the config in two ways only: the chat of an owner's my_chat_member
\* update is allowed, or one that paired, with the sender of its code as an owner.
LoopAllows ==
  LET id == Head(batch)
      allowed == config.allowed \cup {sent[id].chat}
      owners == config.owners \cup ({sent[id].sender} \ {NoName})
  IN
  /\ batch # <<>>
  /\ \/ Joins(id) /\ config' = [config EXCEPT !.allowed = allowed]
     \/ MayPair(id) /\ config' = [config EXCEPT !.allowed = allowed, !.owners = owners]

\* A process ends by /shutdown only after a message of an owner that was at most a minute
\* old when this process took it, also when it had been delivered to an earlier process;
\* and its config changes only after such a message, or by one chat that the poll loop
\* allows, or back to what it was before a save that was refused.  So what old updates can
\* do is allow a chat an owner had added the bot to, or pair one with a right code, and
\* nothing else.
OldCommandsDoNotAct ==
  [][ up /\ up' =>
        /\ stopping' /\ ~stopping => \E c \in Chats : Carries(c) /\ FromFreshOwner(hand[c])
        /\ config' # config =>
             \/ \E c \in Chats : Carries(c) /\ FromFreshOwner(hand[c])
             \/ LoopAllows
             \/ work # NoWork /\ config' = work.config ]_vars

\* A command that is delivered a second time right after it was carried out
\* changes nothing more, in whatever state it is carried out.  The exceptions are
\* a bare /websearch and /imagegen, which toggle.
Carried(u, cfg, rs) ==
  LET a == ActionOf(u, IF u.sender \in Owners THEN "allowed" ELSE "notOwner", cfg, rs)
  IN  [config |-> NewConfig(a, u.chat, cfg), rooms |-> NewRooms(a, u.chat, cfg, rs)]

Toggles(text) == text.name \in {"websearch", "imagegen"} /\ text.args = <<>>

RedeliveryIsHarmless ==
  \A id \in confirmed + 1 .. Len(sent) :
    LET u == sent[id]
        once == Carried(u, config, rooms)
    IN  /\ work = NoWork /\ u.kind = "message" /\ ~Toggles(u.text)
        /\ u.chat \in Allowed(config) \cap Allowed(once.config)
        => Carried(u, once.config, once.rooms) = once
=============================================================================
