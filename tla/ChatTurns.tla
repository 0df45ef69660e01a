------------------------------ MODULE ChatTurns ------------------------------
(***************************************************************************)
(* The chat workers of src/runtime.rs at work on the rooms.                *)
(*                                                                         *)
(* Every allowed chat has one worker task, which handles one Telegram      *)
(* message at a time: a message for the model becomes a provider turn, a   *)
(* command changes the room, the config or another chat's access.  Workers *)
(* of different chats, and the terminal's reset, interleave at the points  *)
(* where the code awaits: the config lock, the rooms lock, the             *)
(* room-transaction lock of src/persistence.rs, the network, the disk.     *)
(* /deny flags and aborts the target's worker in the middle of whatever it *)
(* was doing, and cancellation takes effect only where a task is           *)
(* suspended: a task that was running runs on until its next await.        *)
(*                                                                         *)
(* Queues, worker registration and shutdown are not in this module.        *)
(***************************************************************************)
EXTENDS RoomState

CONSTANTS
  Chats,        \* chats the bot serves
  Nobody,       \* holder of a free lock
  Talkers,      \* chats that send messages for the model in this instance
  Commands,     \* commands each chat sends in this instance
  Stalls,       \* may a running task be held up while others do I/O?
  MaxTurns,     \* bound on model messages
  MaxCommands,  \* bound on commands
  MaxResets,    \* bound on terminal resets
  MaxFailures   \* bound on failed saves

Command ==
  [op : {"new", "unpin"}] \cup [op : {"mode"}, mode : Modes]
    \cup [op : {"model", "pin"}, model : Models]
    \cup [op : {"role"}, role : Roles \cup {NoRole}]
    \cup [op : {"allow", "deny"}, chat : Chats]

ASSUME ChatConstants ==
  /\ Nobody \notin Chats
  /\ Stalls \in BOOLEAN
  /\ Talkers \subseteq Chats
  /\ Commands \in [Chats -> SUBSET Command]
  /\ {MaxTurns, MaxCommands, MaxResets, MaxFailures} \subseteq Nat

VARIABLES
  rooms,       \* RoomStates: the room of each chat, or NoRoom
  lives,       \* how many rooms each chat has had
  allowed,     \* AccessControl.allowed_chat_ids, the live access set
  cfgAllowed,  \* config.telegram.allowed_chat_ids
  pin,         \* model whose telegram_chat_ids hold the chat
  pc,          \* what each chat's worker is doing
  cmd,         \* the command it handles
  turn,        \* PreparedChatRequest: what it captured of the room for a turn
  before,      \* settings mutate_room may have to put back
  undo,        \* config and access of the target before a config change
  cancelled,   \* the worker's cancellation flag
  aborted,     \* the worker's task has been aborted
  configLock, roomsLock, txnLock,  \* holders of the three async mutexes
  used         \* how much of each bound is spent

convVars == <<rooms, lives>>
accessVars == <<allowed, cfgAllowed, pin>>
flagVars == <<cancelled, aborted>>
lockVars == <<configLock, roomsLock, txnLock>>
vars == <<rooms, lives, allowed, cfgAllowed, pin, pc, cmd, turn, before, undo,
          cancelled, aborted, configLock, roomsLock, txnLock, used>>

Conversation == [wire : WireFormats \cup {NoWire}, history : Seq(Turn)]

Prepared == [gen : Nat, wire : WireFormats, model : Models, role : Roles \cup {NoRole},
             life : Nat, era : Nat, switched : BOOLEAN, prior : Conversation]

\* What a config change may have to put back: whether the target chat was in
\* the allowed list, its pin, and whether it had live access.
Undo == [allowed : BOOLEAN, pin : Models \cup {NoModel}, live : BOOLEAN]

NoCommand == [op |-> "none"]
NoTurn == [gen |-> 0, wire |-> WireOf[DefaultModel], model |-> DefaultModel,
           role |-> NoRole, life |-> 0, era |-> 0, switched |-> FALSE,
           prior |-> [wire |-> NoWire, history |-> <<>>]]
NoUndo == [allowed |-> FALSE, pin |-> NoModel, live |-> FALSE]

\* Awaiting the network or the disk: the task is certainly suspended.
Suspended == {"fetch", "call", "send", "newSend", "configSave", "roomSave", "purgeSave"}

WaitsForConfig == {"route", "begin", "config", "setup"}
WaitsForRooms == {"routeLocked", "beginLocked", "setupLocked", "commit", "fail", "new",
                  "mutating", "rollback", "purging"}
WaitsForTxn == {"mutate", "purge"}

Labels == {"idle", "answer", "grant"} \cup Suspended
            \cup WaitsForConfig \cup WaitsForRooms \cup WaitsForTxn

Init ==
  /\ rooms = [c \in Chats |-> NoRoom]
  /\ lives = [c \in Chats |-> 0]
  /\ allowed = Chats
  /\ cfgAllowed = Chats
  /\ pin = [c \in Chats |-> NoModel]
  /\ pc = [c \in Chats |-> "idle"]
  /\ cmd = [c \in Chats |-> NoCommand]
  /\ turn = [c \in Chats |-> NoTurn]
  /\ before = [c \in Chats |-> NoRoom]
  /\ undo = [c \in Chats |-> NoUndo]
  /\ cancelled = [c \in Chats |-> FALSE]
  /\ aborted = [c \in Chats |-> FALSE]
  /\ configLock = Nobody /\ roomsLock = Nobody /\ txnLock = Nobody
  /\ used = [turns |-> 0, commands |-> 0, resets |-> 0, failures |-> 0]

-----------------------------------------------------------------------------
(* Helpers *)

Goto(c, label) == pc' = [pc EXCEPT ![c] = label]

\* The handler returns: the worker waits for its next message.
Finish(c) ==
  /\ Goto(c, "idle")
  /\ cmd' = [cmd EXCEPT ![c] = NoCommand]
  /\ turn' = [turn EXCEPT ![c] = NoTurn]
  /\ before' = [before EXCEPT ![c] = NoRoom]
  /\ undo' = [undo EXCEPT ![c] = NoUndo]
  /\ cancelled' = [cancelled EXCEPT ![c] = FALSE]
  /\ aborted' = [aborted EXCEPT ![c] = FALSE]

Continue(c, label) ==
  /\ Goto(c, label)
  /\ UNCHANGED <<cmd, turn, before, undo, cancelled, aborted>>

Spend(what, bound) ==
  /\ used[what] < bound
  /\ used' = [used EXCEPT ![what] = @ + 1]

\* worker_can_reply
CanReply(c) == ~cancelled[c] /\ c \in allowed

\* The network or disk operation a worker awaits returns.  Unless Stalls, the
\* steps between two awaits take no time compared with such an operation: a
\* worker that has been aborted is gone before the next one returns.
Completes(c, label) ==
  /\ pc[c] = label
  /\ ~aborted[c]
  /\ Stalls \/ \A d \in Chats : ~aborted[d]

\* RoomStates::get_or_default
RoomOrDefault(c) == IF rooms[c] = NoRoom THEN NewRoom(lives[c] + 1) ELSE rooms[c]

PutRoom(c, r) ==
  /\ rooms' = [rooms EXCEPT ![c] = r]
  /\ lives' = [lives EXCEPT ![c] = r.life]

\* Mutant: the room stays.
KeepRoom(c) == UNCHANGED <<rooms, lives>>

DropRoom(c) ==
  /\ rooms' = [rooms EXCEPT ![c] = NoRoom]
  /\ UNCHANGED lives

ReleaseOf(lock, c) == IF lock = c THEN Nobody ELSE lock

\* Takes the config lock while the rooms lock may still be held by another.
LockConfig(c, from, to) ==
  /\ pc[c] = from
  /\ configLock = Nobody
  /\ configLock' = c
  /\ Continue(c, to)
  /\ UNCHANGED <<convVars, accessVars, roomsLock, txnLock, used>>

LockTxn(c, from, to) ==
  /\ pc[c] = from
  /\ txnLock = Nobody
  /\ txnLock' = c
  /\ Continue(c, to)
  /\ UNCHANGED <<convVars, accessVars, configLock, roomsLock, used>>

-----------------------------------------------------------------------------
(* A message for the model *)

\* The worker dequeues a message; the chat was allowed when it looked.  If the
\* previous worker was cancelled or aborted this is a new worker, so the flags
\* are clear either way.
StartMessage(c) ==
  /\ pc[c] = "idle"
  /\ c \in Talkers \cap allowed
  /\ Spend("turns", MaxTurns)
  /\ Continue(c, "fetch")
  /\ UNCHANGED <<convVars, accessVars, lockVars>>

\* content_parts_from_message fails (attachment too large, download error).
FetchFails(c) ==
  /\ Completes(c, "fetch")
  /\ Finish(c)
  /\ UNCHANGED <<convVars, accessVars, lockVars, used>>

FetchDone(c) ==
  /\ Completes(c, "fetch")
  /\ IF CanReply(c) THEN Continue(c, "begin") ELSE Finish(c)
  /\ UNCHANGED <<convVars, accessVars, lockVars, used>>

LockForTurn(c) == LockConfig(c, "begin", "beginLocked")

\* Mutant: the generation is read before begin_turn advances it.
CaptureEarly(r, begun, model) ==
  [gen |-> r.gen, wire |-> begun.wire, model |-> model, role |-> r.settings.role,
   life |-> begun.life, era |-> begun.era, switched |-> r.wire # begun.wire,
   prior |-> [wire |-> r.wire, history |-> r.history]]

\* PreparedChatRequest: what a turn captures of the room, once begun.
Capture(r, begun, model) ==
  [gen |-> begun.gen, wire |-> begun.wire, model |-> model, role |-> r.settings.role,
   life |-> begun.life, era |-> begun.era, switched |-> r.wire # begun.wire,
   prior |-> [wire |-> r.wire, history |-> r.history]]

\* build_chat_request: pick the model, begin the turn, capture the generation.
BeginRoomTurn(c) ==
  LET r == RoomOrDefault(c)
      model == SelectedModel(pin[c], r)
      begun == BeginTurn(r, WireOf[model])
  IN  /\ pc[c] = "beginLocked"
      /\ roomsLock = Nobody
      /\ PutRoom(c, begun)
      /\ turn' = [turn EXCEPT ![c] = Capture(r, begun, model)]
      /\ configLock' = Nobody
      /\ Goto(c, "call")
      /\ UNCHANGED <<accessVars, flagVars, cmd, before, undo, roomsLock, txnLock, used>>

ProviderAnswers(c) ==
  /\ Completes(c, "call")
  /\ IF CanReply(c) THEN Continue(c, "commit") ELSE Finish(c)
  /\ UNCHANGED <<convVars, accessVars, lockVars, used>>

\* Mutant: a failed provider call is retried without limit.
ProviderFailsRetries(c) ==
  /\ Completes(c, "call")
  /\ Continue(c, "begin")
  /\ UNCHANGED <<convVars, accessVars, lockVars, used>>

ProviderFails(c) ==
  /\ Completes(c, "call")
  /\ Continue(c, "fail")
  /\ UNCHANGED <<convVars, accessVars, lockVars, used>>

\* Mutant: only the existence of a room is checked.
AnyGeneration(c) == rooms[c] # NoRoom

\* The room is the one the turn was prepared for, as far as the code can tell.
SameGeneration(c) == rooms[c] # NoRoom /\ rooms[c].gen = turn[c].gen

FinishedTurn(c, size) ==
  LET t == turn[c]
  IN  [wire |-> t.wire, size |-> size, model |-> t.model, role |-> t.role,
       life |-> t.life, era |-> t.era]

\* append_turn_if_generation
Commit(c) ==
  /\ pc[c] = "commit"
  /\ roomsLock = Nobody
  /\ IF SameGeneration(c)
     THEN /\ \E size \in TurnSizes : PutRoom(c, AppendTurn(rooms[c], FinishedTurn(c, size)))
          /\ Continue(c, "answer")
     ELSE Finish(c) /\ UNCHANGED convVars
  /\ UNCHANGED <<accessVars, lockVars, used>>

\* restore_failed_turn
RestoreAfterFailure(c) ==
  /\ pc[c] = "fail"
  /\ roomsLock = Nobody
  /\ IF SameGeneration(c)
     THEN /\ PutRoom(c, RestoreFailedTurn(rooms[c], turn[c].switched, turn[c].prior))
          /\ Continue(c, "answer")
     ELSE Finish(c) /\ UNCHANGED convVars
  /\ UNCHANGED <<accessVars, lockVars, used>>

\* The second worker_can_reply, then the answer or the provider error is sent.
Answer(c) ==
  /\ pc[c] = "answer"
  /\ IF CanReply(c) THEN Continue(c, "send") ELSE Finish(c)
  /\ UNCHANGED <<convVars, accessVars, lockVars, used>>

Sent(c) ==
  /\ Completes(c, "send")
  /\ Finish(c)
  /\ UNCHANGED <<convVars, accessVars, lockVars, used>>

-----------------------------------------------------------------------------
(* Commands on the room *)

StartCommand(c) ==
  /\ pc[c] = "idle"
  /\ c \in allowed
  /\ Spend("commands", MaxCommands)
  /\ \E command \in Commands[c] : cmd' = [cmd EXCEPT ![c] = command]
  /\ Goto(c, "route")
  /\ UNCHANGED <<convVars, accessVars, flagVars, lockVars, turn, before, undo>>

LockForRoute(c) == LockConfig(c, "route", "routeLocked")

\* route_command resolves the command against the room, which it creates if
\* need be.  A pinned room rejects /model KEY.
Route(c) ==
  LET op == cmd[c].op
  IN  /\ pc[c] = "routeLocked"
      /\ roomsLock = Nobody
      /\ PutRoom(c, RoomOrDefault(c))
      /\ configLock' = Nobody
      /\ CASE op = "model" /\ pin[c] # NoModel -> Finish(c)
           [] op = "new" -> Continue(c, "new")
           [] op \in {"pin", "unpin", "allow", "deny"} -> Continue(c, "config")
           [] OTHER -> Continue(c, "mutate")
      /\ UNCHANGED <<accessVars, roomsLock, txnLock, used>>

\* /new keeps the rooms lock while its confirmation is sent.
NewChat(c) ==
  /\ pc[c] = "new"
  /\ roomsLock = Nobody
  /\ PutRoom(c, ResetHistory(RoomOrDefault(c)))
  /\ roomsLock' = c
  /\ Continue(c, "newSend")
  /\ UNCHANGED <<accessVars, configLock, txnLock, used>>

NewChatSent(c) ==
  /\ Completes(c, "newSend")
  /\ roomsLock' = Nobody
  /\ Finish(c)
  /\ UNCHANGED <<convVars, accessVars, configLock, txnLock, used>>

LockForMutation(c) == LockTxn(c, "mutate", "mutating")

\* Mutant: /role keeps the history.
MutationKeepsHistory(command, r) ==
  CASE command.op = "mode" ->
         LET moded == [r EXCEPT !.settings.mode = command.mode]
         IN  IF command.mode = "message" THEN ResetHistory(moded) ELSE moded
    [] command.op = "model" ->
         ResetRoomModelContext([r EXCEPT !.settings.model = command.model])
    [] command.op = "role" -> [r EXCEPT !.settings.role = command.role]
    [] OTHER -> ResetRoomModelContext(r)

\* The closure that handle_command passes to mutate_room
Mutation(command, r) ==
  CASE command.op = "mode" ->
         LET moded == [r EXCEPT !.settings.mode = command.mode]
         IN  IF command.mode = "message" THEN ResetHistory(moded) ELSE moded
    [] command.op = "model" ->
         ResetRoomModelContext([r EXCEPT !.settings.model = command.model])
    [] command.op = "role" ->
         ResetHistory([r EXCEPT !.settings.role = command.role])
    [] OTHER -> ResetRoomModelContext(r)

MutateRoom(c) ==
  /\ pc[c] = "mutating"
  /\ roomsLock = Nobody
  /\ before' = [before EXCEPT ![c] =
       IF rooms[c] = NoRoom THEN NoRoom ELSE rooms[c].settings]
  /\ PutRoom(c, Mutation(cmd[c], RoomOrDefault(c)))
  /\ Goto(c, "roomSave")
  /\ UNCHANGED <<accessVars, flagVars, lockVars, cmd, turn, undo, used>>

RoomSaved(c) ==
  /\ Completes(c, "roomSave")
  /\ txnLock' = Nobody
  /\ Finish(c)
  /\ UNCHANGED <<convVars, accessVars, configLock, roomsLock, used>>

RoomSaveFails(c) ==
  /\ Completes(c, "roomSave")
  /\ Spend("failures", MaxFailures)
  /\ Continue(c, "rollback")
  /\ UNCHANGED <<convVars, accessVars, lockVars>>

\* Settings come back, history does not; a room the mutation created goes.
RollbackSettings(c) ==
  /\ pc[c] = "rollback"
  /\ roomsLock = Nobody
  /\ IF before[c] = NoRoom THEN DropRoom(c)
     ELSE IF rooms[c] = NoRoom THEN UNCHANGED convVars
     ELSE PutRoom(c, [rooms[c] EXCEPT !.settings = before[c]])
  /\ txnLock' = Nobody
  /\ Finish(c)
  /\ UNCHANGED <<accessVars, configLock, roomsLock, used>>

-----------------------------------------------------------------------------
(* Commands on the config: the lock is held until the config is saved *)

\* The config and access of chat t, to be put back if the save fails.
Remembered(t) == [allowed |-> t \in cfgAllowed, pin |-> pin[t], live |-> t \in allowed]

SaveConfig(c, t) ==
  /\ configLock' = c
  /\ undo' = [undo EXCEPT ![c] = Remembered(t)]
  /\ Goto(c, "configSave")
  /\ UNCHANGED <<cmd, turn, before>>

\* Mutant: config commands do not wait for the config lock.
AtConfigUnlocked(c, op) == pc[c] = "config" /\ cmd[c].op = op

AtConfig(c, op) == pc[c] = "config" /\ cmd[c].op = op /\ configLock = Nobody

PinModel(c) ==
  /\ AtConfig(c, "pin")
  /\ pin' = [pin EXCEPT ![c] = cmd[c].model]
  /\ SaveConfig(c, c)
  /\ UNCHANGED <<convVars, allowed, cfgAllowed, flagVars, roomsLock, txnLock, used>>

UnpinModel(c) ==
  /\ AtConfig(c, "unpin")
  /\ IF pin[c] = NoModel
     THEN Finish(c) /\ UNCHANGED <<pin, cfgAllowed, configLock>>
     ELSE /\ pin' = [pin EXCEPT ![c] = NoModel]
          /\ cfgAllowed' = cfgAllowed \cup {c}
          /\ SaveConfig(c, c)
          /\ UNCHANGED flagVars
  /\ UNCHANGED <<convVars, allowed, roomsLock, txnLock, used>>

AllowInConfig(c) ==
  LET t == cmd[c].chat
  IN  /\ AtConfig(c, "allow")
      /\ IF t \in cfgAllowed
         THEN /\ undo' = [undo EXCEPT ![c] = Remembered(t)]
              /\ Goto(c, "grant")
              /\ UNCHANGED <<cfgAllowed, configLock, cmd, turn, before>>
         ELSE /\ cfgAllowed' = cfgAllowed \cup {t}
              /\ SaveConfig(c, t)
      /\ UNCHANGED <<convVars, allowed, pin, flagVars, roomsLock, txnLock, used>>

\* handle_deny_chat closes live access and stops the worker before it saves.
\* A chat that denies itself is flagged but not aborted.
CloseAccess(c) ==
  LET t == cmd[c].chat
  IN  /\ AtConfig(c, "deny")
      /\ cfgAllowed' = cfgAllowed \ {t}
      /\ pin' = [pin EXCEPT ![t] = NoModel]
      /\ allowed' = allowed \ {t}
      /\ cancelled' = [cancelled EXCEPT ![t] = pc[t] # "idle"]
      /\ aborted' = [aborted EXCEPT ![t] = @ \/ (t # c /\ pc[t] # "idle")]
      /\ IF t \in cfgAllowed \/ pin[t] # NoModel
         THEN SaveConfig(c, t)
         ELSE /\ Goto(c, "purge")
              /\ UNCHANGED <<configLock, cmd, turn, before, undo>>
      /\ UNCHANGED <<convVars, roomsLock, txnLock, used>>

ConfigSaved(c) ==
  LET op == cmd[c].op
  IN  /\ Completes(c, "configSave")
      /\ configLock' = Nobody
      /\ Continue(c, CASE op = "allow" -> "grant"
                       [] op = "deny" -> "purge"
                       [] OTHER -> "mutate")
      /\ UNCHANGED <<convVars, accessVars, roomsLock, txnLock, used>>

\* The config before the command comes back, and the access /deny had closed;
\* the work of an aborted worker does not.
ConfigSaveFails(c) ==
  LET t == IF cmd[c].op \in {"allow", "deny"} THEN cmd[c].chat ELSE c
      u == undo[c]
  IN  /\ Completes(c, "configSave")
      /\ Spend("failures", MaxFailures)
      /\ cfgAllowed' = IF u.allowed THEN cfgAllowed \cup {t} ELSE cfgAllowed \ {t}
      /\ pin' = [pin EXCEPT ![t] = u.pin]
      /\ allowed' = IF cmd[c].op = "deny" /\ u.live THEN allowed \cup {t} ELSE allowed
      /\ configLock' = Nobody
      /\ Finish(c)
      /\ UNCHANGED <<convVars, roomsLock, txnLock>>

\* After the config is saved and its lock released, /allow opens live access.
\* A chat that was not in the config before also gets the setup message.
Grant(c) ==
  LET t == cmd[c].chat
  IN  /\ pc[c] = "grant"
      /\ allowed' = allowed \cup {t}
      /\ IF ~undo[c].allowed /\ t # c THEN Continue(c, "setup") ELSE Finish(c)
      /\ UNCHANGED <<convVars, cfgAllowed, pin, lockVars, used>>

LockForSetup(c) == LockConfig(c, "setup", "setupLocked")

\* room_setup_reply reads the target's room, creating it if need be.
SetUpRoom(c) ==
  LET t == cmd[c].chat
  IN  /\ pc[c] = "setupLocked"
      /\ roomsLock = Nobody
      /\ PutRoom(t, RoomOrDefault(t))
      /\ configLock' = Nobody
      /\ Finish(c)
      /\ UNCHANGED <<accessVars, roomsLock, txnLock, used>>

LockForPurge(c) == LockTxn(c, "purge", "purging")

\* remove_room: a failed save leaves the room out of memory.
PurgeRoom(c) ==
  /\ pc[c] = "purging"
  /\ roomsLock = Nobody
  /\ DropRoom(cmd[c].chat)
  /\ Continue(c, "purgeSave")
  /\ UNCHANGED <<accessVars, lockVars, used>>

PurgeSaveEnds(c) ==
  /\ Completes(c, "purgeSave")
  /\ \/ UNCHANGED used
     \/ Spend("failures", MaxFailures)
  /\ txnLock' = Nobody
  /\ Finish(c)
  /\ UNCHANGED <<convVars, accessVars, configLock, roomsLock>>

-----------------------------------------------------------------------------
(* Cancellation, and the terminal *)

\* An aborted task ends where it is suspended, or waits for a lock another
\* task holds; the guards it owns are released, nothing else is undone.
CanDie(c) ==
  \/ pc[c] \in Suspended
  \/ pc[c] \in WaitsForConfig /\ configLock # Nobody
  \/ pc[c] \in WaitsForRooms /\ roomsLock # Nobody
  \/ pc[c] \in WaitsForTxn /\ txnLock # Nobody

Die(c) ==
  /\ aborted[c]
  /\ CanDie(c)
  /\ configLock' = ReleaseOf(configLock, c)
  /\ roomsLock' = ReleaseOf(roomsLock, c)
  /\ txnLock' = ReleaseOf(txnLock, c)
  /\ Finish(c)
  /\ UNCHANGED <<convVars, accessVars, used>>

\* "reset" typed in the terminal: reset_all_history, from the poll loop.
TerminalReset ==
  /\ roomsLock = Nobody
  /\ Spend("resets", MaxResets)
  /\ rooms' = [c \in Chats |-> IF rooms[c] = NoRoom THEN NoRoom ELSE ResetHistory(rooms[c])]
  /\ UNCHANGED <<lives, accessVars, pc, cmd, turn, before, undo, flagVars, lockVars>>

-----------------------------------------------------------------------------
ModelTurn(c) ==
  \/ FetchFails(c) \/ FetchDone(c) \/ LockForTurn(c) \/ BeginRoomTurn(c)
  \/ ProviderAnswers(c) \/ ProviderFails(c) \/ Commit(c)
  \/ RestoreAfterFailure(c) \/ Answer(c) \/ Sent(c)

RoomCommand(c) ==
  \/ LockForRoute(c) \/ Route(c) \/ NewChat(c) \/ NewChatSent(c)
  \/ LockForMutation(c) \/ MutateRoom(c) \/ RoomSaved(c) \/ RoomSaveFails(c)
  \/ RollbackSettings(c)

ConfigCommand(c) ==
  \/ PinModel(c) \/ UnpinModel(c) \/ AllowInConfig(c) \/ CloseAccess(c)
  \/ ConfigSaved(c) \/ ConfigSaveFails(c) \/ Grant(c) \/ LockForSetup(c)
  \/ SetUpRoom(c) \/ LockForPurge(c) \/ PurgeRoom(c) \/ PurgeSaveEnds(c)

Worker(c) == ModelTurn(c) \/ RoomCommand(c) \/ ConfigCommand(c) \/ Die(c)

\* Nothing is under way; TLC's deadlock check then looks for workers that
\* wait for one another.
Rest == (\A c \in Chats : pc[c] = "idle") /\ UNCHANGED vars

Next ==
  \/ \E c \in Chats : StartMessage(c) \/ StartCommand(c) \/ Worker(c)
  \/ TerminalReset
  \/ Rest

Spec == Init /\ [][Next]_vars

\* The executor polls every task that can proceed, the async mutexes are fair
\* queues, and every network request and disk write returns.
FairSpec == Spec /\ \A c \in Chats : WF_vars(Worker(c))
-----------------------------------------------------------------------------
(* Properties *)

\* Every variable stays in its domain.
TypeOK ==
  /\ rooms \in [Chats -> Room \cup {NoRoom}]
  /\ lives \in [Chats -> Nat]
  /\ allowed \in SUBSET Chats
  /\ cfgAllowed \in SUBSET Chats
  /\ pin \in [Chats -> Models \cup {NoModel}]
  /\ pc \in [Chats -> Labels]
  /\ cmd \in [Chats -> Command \cup {NoCommand}]
  /\ turn \in [Chats -> Prepared]
  /\ before \in [Chats -> Settings \cup {NoRoom}]
  /\ undo \in [Chats -> Undo]
  /\ cancelled \in [Chats -> BOOLEAN]
  /\ aborted \in [Chats -> BOOLEAN]
  /\ {configLock, roomsLock, txnLock} \subseteq Chats \cup {Nobody}
  /\ used \in [{"turns", "commands", "resets", "failures"} -> Nat]

\* A history is never sent to a provider of another wire format than the one
\* it is written in: all its turns have the room's format, through format
\* changes, failed turns that restore the old history, and late answers.
OneWireFormat ==
  \A c \in Chats : rooms[c] # NoRoom => WrittenIn(rooms[c].wire, rooms[c].history)

\* A turn that began before a reset of its room (/new, /role, /model, terminal
\* reset, ...) is not in the room's history after it, neither because its
\* answer came late nor because its failure restored what it had set aside.
NoResurrectedTurn ==
  \A c \in Chats : rooms[c] # NoRoom =>
    \A i \in DOMAIN rooms[c].history :
      rooms[c].history[i].life = rooms[c].life => rooms[c].history[i].era = rooms[c].era

\* The same across the removal of a denied room: a room's history holds only
\* turns of that room.
NoTurnOfARemovedRoom ==
  \A c \in Chats : rooms[c] # NoRoom =>
    \A i \in DOMAIN rooms[c].history : rooms[c].history[i].life = rooms[c].life

\* A history keeps within the limits on turns and bytes, also after a failed
\* turn put an older history back.
HistoryBounded ==
  \A c \in Chats : rooms[c] # NoRoom =>
    /\ Len(rooms[c].history) <= MaxHistoryTurns
    /\ BytesFrom(rooms[c].history, 1) <= MaxHistoryBytes

\* In message mode at most the latest exchange is kept, whether the mode was
\* set, put back by a failed save, or the turn was begun in another mode.
MessageModeKeepsLatestTurn ==
  \A c \in Chats : rooms[c] # NoRoom =>
    (rooms[c].settings.mode = "message" => Len(rooms[c].history) <= 1)

DenyUnderWay(c) ==
  \E d \in Chats : cmd[d] = [op |-> "deny", chat |-> c] /\ pc[d] # "idle"

PinUnderWay(c) ==
  cmd[c].op \in {"pin", "unpin"} /\ pc[c] \in {"configSave", "mutate", "mutating"}

\* Whenever an allowed chat is between commands, its history was produced under
\* the model and the role its next turn will use.  A /deny that is itself cut
\* short breaks this, see DeniedRoomIsEmpty: the history it leaves behind is
\* carried on under the default model once the chat is allowed again.
OneContextPerHistory ==
  \A c \in allowed : rooms[c] # NoRoom /\ ~DenyUnderWay(c) /\ ~PinUnderWay(c) =>
    \A i \in DOMAIN rooms[c].history :
      /\ rooms[c].history[i].model = SelectedModel(pin[c], rooms[c])
      /\ rooms[c].history[i].role = rooms[c].settings.role

\* Once /deny is through with a chat, no conversation of that chat is left.
DeniedRoomIsEmpty ==
  \A c \in Chats \ allowed :
    rooms[c] # NoRoom /\ ~DenyUnderWay(c) => rooms[c].history = <<>>

\* A /deny that runs to its end leaves the chat without a conversation, unless
\* the chat was allowed again meanwhile, or is being denied again: no turn in
\* flight when access closed puts one back, and the setup message of an older
\* /allow does so only together with a reset that makes the new room look like
\* the one the turn was prepared for.
DenyEmptiesRoom ==
  [][\A c, t \in Chats :
       pc[c] = "purgeSave" /\ ~aborted[c] /\ pc'[c] = "idle" /\ cmd[c].chat = t =>
         \/ t \in allowed \/ DenyUnderWay(t)'
         \/ rooms[t] = NoRoom \/ rooms[t].history = <<>>]_vars

\* /deny never aborts a worker that has changed the config in memory and waits
\* for the save that makes the change durable or takes it back.
DenyNeverInterruptsConfigSave ==
  [][\A c \in Chats : pc[c] = "configSave" => (aborted'[c] => aborted[c])]_vars

\* A provider's answer is thrown away only if the room was reset or removed
\* since the turn began, or the chat denied.
AnswerLostOnlyByReset ==
  [][\A c \in Chats :
       pc[c] = "commit" /\ pc'[c] = "idle" =>
         \/ aborted[c]
         \/ rooms[c] = NoRoom
         \/ rooms[c].life # turn[c].life
         \/ rooms[c].era # turn[c].era]_vars

\* A failed turn leaves format and history as it found them, unless the room
\* was reset meanwhile.
FailedTurnLeavesConversation ==
  [][\A c \in Chats :
       pc[c] = "fail" /\ pc'[c] = "answer" /\ rooms'[c].life = turn[c].life =>
         /\ rooms'[c].wire = turn[c].prior.wire
         /\ rooms'[c].history = turn[c].prior.history]_vars

\* Every message handled is handled to its end: no worker waits for ever for
\* a lock, although /new sends while it holds the rooms lock and every model
\* turn waits for the rooms lock while it holds the config lock.
WorkerFinishes == \A c \in Chats : (pc[c] # "idle") ~> (pc[c] = "idle")
=============================================================================
