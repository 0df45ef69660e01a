# A TLA+ model of tellm

tellm is a self-hosted Telegram bot: it long-polls Telegram, gives every
allowed chat ("room") a worker task, sends the chat's messages to an LLM
provider and the answer back, and lets owners run the bot with chat commands.
This directory holds TLA+ modules for the parts of it in which order,
interleaving and failure matter, the TLC configurations that check them on
small instances, and TLAPS proofs for every instance.

Paths below are relative to the repository; `src/` of the repository is
`src/src/` in `PROJECT.json`.

## 1. Inventory

| Part | State it keeps | Operations | What is hard | What makes it correct |
| --- | --- | --- | --- | --- |
| Rooms (`src/rooms.rs`) | settings, wire format, opaque history in whole turns, generation | begin a turn, append, restore after failure, reset, prune | a speculative format change that a later reset overtakes; generations | one wire format per history; nothing reset comes back; bounded |
| Model turns (`src/runtime.rs` `handle_model_message`, `src/model_turn.rs`) | what a turn captured of the room | fetch, capture, call, commit or restore, send | minutes may pass between capture and commit | a late answer never overwrites newer state, and is never lost without cause |
| Commands (`src/commands.rs`, `handle_command`) | none of their own; they change rooms, config, access | `/new /mode /model /role /reasoning ... /allow /deny /pair /shutdown` | two transactions per command, aborts in between | history matches the model and role in force |
| Chat dispatch (`src/runtime.rs`) | the poll loop's map of workers, the registry for `/deny`, queues, busy notices | route, spawn, register, queue, reap, cancel, abort, join | worker turnover against new messages and `/deny` | order per chat, one worker per chat, every worker can be stopped |
| Access and pairing (`src/access.rs`) | live access, owners, armed codes, attempt counters | arm, pair, allow, deny, privilege gate | memory, config and disk change at different moments | the three agree when nothing is under way |
| Persistence (`src/persistence.rs`, `write_atomic`) | one writer thread with a FIFO, a transaction lock | save config, save rooms, shutdown | abandoned writes, refused saves, crashes around the rename | writes land in order; a file is old or new, never torn; memory is what a restart would load |
| Secrets (`crates/tellm-config`) | keychain, fallback file with preference markers | get, set | two stores, each of which may fail | the last value stored is the value read |
| Ollama (`src/ollama.rs`) | the child process, the loaded models | ensure ready, remember, unload, stop | concurrent starters, cancelled starters, shutdown | one child, and none left behind |
| Terminal (`spawn_terminal_controls`, secret prompts) | the prompt in progress | reset, exit, prompt, answer, give up | a prompt given up while it is answered | an answer reaches only the prompt it was typed for |
| Polling (`Runtime::run`) | update offset in memory | poll, retry, dispatch, shut down | redelivery after a restart | an update is handled at most once per run |
| Telegram client (`crates/tellm-telegram`) | none that lasts | send with fallbacks, chunk, download, poll | partial sends, unconfirmed sends, oversized bodies | every part shown once and in order, or the user is told |
| Provider clients | none that lasts | build and parse JSON | nothing that order or failure could break | - |
| Wizard, console, test support | none | prompts, log lines, a mock server | nothing | - |

Parts talk through three async mutexes (config, rooms, access) and the
room-transaction mutex of `Persistence`, through one channel per chat, the
writer's channel and the shutdown channel, and through the registry by which
`/deny` reaches another chat's worker. Locks are taken in the order
config → rooms and config → access; room transaction → rooms.

## 2. Modules

### RoomState
`rooms.rs` as operators on a room record. A history is a sequence of whole
turns, since the code only ever drops whole turns. A turn carries its wire
format and size (which the code uses) and the model, role, *life* and *era* it
was produced under (which only the properties read: a life is one existence of
the room between two removals, an era is the time between two resets). These two
are history variables, defined independently of the code's `generation`, so that
the properties can say what the generation is for. `Pruned` is `push_turn`'s
loop, given in closed form.

### ChatTurns
Every chat's worker as a program counter over the handlers of `runtime.rs`. One
label per await: `fetch` (attachments), `begin`/`beginLocked` (config then rooms
lock), `call`, `commit`/`fail` (rooms lock), `answer`, `send` for a model
message; `route`, then `new`/`newSend`, `mutate`..`rollback` (`mutate_room`),
`config`/`configSave` (a config command up to the end of its save),
`grant`/`setup` (`/allow`) and `purge`..`purgeSave` (`/deny`) for commands.
`CloseAccess` changes config, live access and the target's flags in one step:
the config lock is held and the access lock is free between its two uses, so
nothing that the model keeps can come between.

An abort (`Die`) happens only where the task is suspended: in network or disk
I/O, or in the queue of a lock another task holds. It releases the locks the
task owns and undoes nothing else, which is what dropping the future does.
`Stalls` says how long a task that could run may be held up. With `Stalls =
TRUE` anything interleaves. With `FALSE`, an aborted worker is gone before the
next network or disk operation of another returns; this leaves out schedules in
which an aborted, runnable task is not polled for the time of a whole HTTP
request or a file sync, and is used for the runs about `/deny`.

Left out: the reply that ends a command (no state changes after it), the
notice of a format change, commands that only read, and the settings named in
the module. Messages that arrive meanwhile are in Dispatcher.

### Dispatcher
The poll loop and the life of the workers: lookup or spawn, register, send,
full and closed channels, respawn, the sweep after each turn of the loop
(`Retain`), the worker's two checks around `recv`, the idle timeout, the drop of
the registry guard before the channel, `/allow` and `/deny` (with failed saves),
shutdown and join. Spawning and registering are two steps because the code
spawns first and the worker may run, and even end, before it is registered. The
map entry of a respawned worker is made when it is registered; the code makes
it after the send, but nobody else reads that map.

### AccessPolicy
Where access is written down: the config in memory, the config file, the live
access set and the live owners. An operation is a record (kind, chat, user) that
an actor - a worker, or the poll loop - carries from label to label: `attempt`
(the code is judged, and a right one opens live access at once), `config` (the
config lock is awaited), `save`, then `grant` (`/allow`, an owner's adding the
bot), `owner` or `revoke` (pairing). `NewConfig` is what each operation makes of
the config; `Deny` closes live access and cuts the chat's worker off at whatever
lock it waits for. A worker that runs between two awaits when it is aborted is
taken to have finished, or not begun, that stretch. `Restart` loads the file
again, with or without a save that was under way. `raced` is a history variable:
the chats about which two decisions overlapped, for which memory and file need
not agree (see Findings); `AgreesUnlessRaced` says that all others do.

Left out: the setup message after an approval and the room `/deny` removes
(ChatTurns), and what the worker of a chat does with its messages. Any chat with
live access whose worker is free may send an owner's command; which user sends it
does not matter, as long as there is an owner.

### Pairing
`access.rs` over time: codes with an expiry, attempts with a window and a lock, and
the poll loop that arms, judges and prints under three holds of the access lock.
Codes are numbers in the order of issue; `issued`, `void` and `tries` are history
variables (whose code, of when; used or revoked; when codes were compared).
`allow_chat` and `deny_chat` come from other workers at any moment, the clock
moves at any moment, but never back. `Arm` prints a code only if it is newly issued,
as the loop does; one that `Reject` issues is printed by `Show`, unless the attempt
locked the chat out (`IssuedByLockout`).

Left out: a `/pair` that the worker of an allowed chat still holds when `/deny` closes
access. It is judged by the same `attempt_pair`, but outside the poll loop.

### Ollama
`src/ollama.rs` as the model turns use it. A turn goes through `probe`, `lock`
(`START_LOCK`), `reprobe`, `spawn` (the blocking thread), `spawned` (the process
is handed back), `wait`, `prepare` (capability and key, then `remember_model`),
`send` and `request`; `child` is `CHILD`, `tracked` is `LOADED_MODELS`, and
`unload` holds what each of the two callers of `unload_models_blocking` has left
to do and the model it is asking about. `Abort` drops a turn at any await: its
lock goes, but a blocking thread that spawns runs on (`detached`,
`SpawnDetached`), and a process already handed back is dropped, which does not end
it. `StopWorkers`, `TakeChild` and `StopChild` are the end of the bot. The
processes (`Bind`, `Ends`) and the user's own Ollama (`UserOllama`) are the
environment: whoever holds the port serves, the others end. `orphans`,
`givenUp`, `cutOff` and `reused` are history variables.

### SecretStore, TerminalPrompt
`SecretStore` is `mod secrets`: a write goes through `KeychainSet`,
`KeychainCheck` (the readback after an error), `FileSet` or `FileRemove`, each of
which may fail before or after it took effect; a read looks at the file, then at
the keychain, and a write may come in between. Values are numbered, so that the
properties can say which is older. `TerminalPrompt` extends it with the terminal
thread and the tasks of `/model add`: the thread copies the pending prompt out of
the slot (`ReadLine`) and sends the line later (`Deliver`), when that prompt may
be gone; a task reserves the slot, sends its notice, waits, stores what it got,
and frees the slot through its guard however it ends. A run of the composition
answers for both modules.

### DurableStore, Persistence
`DurableStore` is what the config directory promises: whole versions, written in
the order asked for, safe once reported. `Persistence` is how the code does it:
tasks that change a file's content in memory under its lock, hand the writer a
snapshot, wait, and take a refused change back (`Refused`) unless it was a
removal; a writer thread that goes through `write_atomic` step by step
(`WriteTemp`, `SyncTemp`, `Rename`, `SyncDirectory`, `Reply`); tasks that are
aborted while their snapshot is queued (`Abort`); a process that is killed, loses
power or is shut down between any two steps. Losing power undoes any set of
renames whose directory was not synced, and tears a file whose data was not.
`dirty` is a history variable for the two cases in which nobody takes a refused
change back. `Implements` is `DurableStore!Spec` under the mapping *pending* = the
writer's queue, *file* = the disk, *open* = the writer has not stopped.

### Commands, Restart
`Commands` is `commands.rs` as pure operators, from a text (name, bot, tokens) and
the context `route_command` gathers to an action or a reason for a refusal, with
`owner_gate` and every alias of the on and off words. `Restart` carries the
actions out (`NewConfig`, `NewRooms`, `Saves`: what a command does to the two
files, and in which order it saves them) and puts them between Telegram and the
disk: the poll with its offset, the batch, the chats' queues, refused saves, the
end of the process and the next start, which loads the files, refuses an invalid
config (`Valid` is `Config::validate`), and gets every unconfirmed update again.

A worker has a message in its `hand` for three steps, between which the clock moves,
other workers and the loop change the config, and the process may end: `Take` leaves
the channel and judges the sender (`CheckPrivileged`, with the owners in memory,
`Owners`), `Route` finds out what is asked for once config and rooms are not locked,
`CarryOut` makes the change once the config lock is free again. The sender is not
judged a second time, by the code either.

The poll loop makes two changes itself (`Approved`), and looks at no other update while
it saves one: an owner's adding the bot allows the chat (`Joins`, of an update of kind
"join"), however old the update is, and a `/pair` of an unknown chat may allow it and
make its sender an owner (`MayPair`).

Simplified: any code may be the right one for `MayPair`, whose codes are in Pairing; one
change at a time is made and saved, and how changes interleave is in ChatTurns and
AccessPolicy; a pairing's owner is one in memory once the save is answered.

### Delivery
One message and everything said about it: the bounded download of its
attachments, `ChunkText`, the three forms each piece is tried in, the images, the
picker, and the error the worker reports when one of these fails. A request may
be refused for one of the reasons the code tells apart, may fail, or may take
effect without a confirmation. Characters are letters, newlines and "astral"
ones, which count twice in Telegram's limit.

### ChatTurnsProofs, DispatcherProofs, AccessPolicyProofs, PairingProofs, PersistenceProofs, OllamaProofs, TerminalPromptProofs, TelegramProofs
TLAPS proofs about the module each is named after, and about what it extends;
`TelegramProofs` is about Restart, with its Commands, and about Delivery, whose
`DeliveryInit`, `DeliveryNext` and `DeliverySpec` are named so that both can be extended.

### MCChatTurns, MCPairing, MCRestart, MCDelivery
Constants for TLC that a `.cfg` cannot write: what each chat may send, formats,
a config to start from, attachments and answers, and the symmetry of Pairing's chats,
which nothing in that module tells apart.

## 3. Runs

| Run | Module / config | Instance |
| --- | --- | --- |
| `rooms` | MCChatTurns / ChatTurns_reset | one room, two wire formats, turns of size 1 and 4 against limits of 2 turns and 4 bytes (so pruning by number, by size, and of a turn too large all occur), 4 turns, 3 commands, 2 terminal resets, 1 failed save |
| `deny` | MCChatTurns / ChatTurns_deny | three rooms: one has turns, pins, unpins and denies itself, one allows and denies it, the third occupies the room transactions, with a failed save and a terminal reset; a pin or unpin aborted half-way leaves a history in another format than the next turn's, which is the only way a turn sets a history aside and may have to bring it back |
| `locks` | MCChatTurns / ChatTurns_live | liveness, with `/new`, `/mode`, `/model pin`, `/deny`, failed saves and stalls |
| `dispatch` | Dispatcher / Dispatcher | two chats, two messages, queue of one, two commands, one failed save; safety and liveness. `Dispatcher_wide.cfg` is the same with three messages, for the safety properties only |
| `access` | AccessPolicy / AccessPolicy | two workers and the poll loop, two chats, one user, three operations of any kind, one failed save, one restart, from every initial config |
| `pairing` | MCPairing / Pairing | two chats, alike; code lifetime 3, window and lock 2, limit 2 (the code: 600 s, 300 s, 300 s, 5), clock to 5, one `/allow` or `/deny` |
| `ollama` | Ollama / Ollama | two tasks, three turns, three processes, one abort, one `/ollama unload`, one process that ends or a user's Ollama that comes or goes; safety and liveness |
| `secrets` | TerminalPrompt / TerminalPrompt | two chats, two secrets, one reader, two prompts, two lines, two values after an old one; safety and liveness |
| `files` | Persistence / Persistence | two files, two tasks, two changes of each file, two failures, two ends of the process; the refinement of DurableStore |
| `restart` | MCRestart / Restart | any two of 21 updates of an owner and a guest: 18 messages in an allowed and a pinned chat, a `/pair` in an unknown one, the bot added to the pinned one by either; queues of one; three models, one of them a preset not yet added; one tick (after which an owner's command is stale), one failed save or lost poll, one end of the process besides `/shutdown` |
| `messages` | MCDelivery / Delivery | six kinds of attachments and six answers against pieces of 5 and 2 characters, a limit of 3 units and downloads of 2 bytes |
| `idle_reap` | Dispatcher / Dispatcher_idle | a violation, see Findings |

What they show.

* *One conversation* (`rooms`, `deny`): a history is in one wire format
  (`OneWireFormat`) and was produced under the model and role in force
  (`OneContextPerHistory`, in `rooms`, where nobody is denied); what was reset stays away (`NoResurrectedTurn`); limits
  hold after every restore (`HistoryBounded`, `MessageModeKeepsLatestTurn`); an
  answer is thrown away only for a reason (`AnswerLostOnlyByReset`) and a failed turn
  leaves no trace (`FailedTurnLeavesConversation`); a completed `/deny` leaves no
  conversation (`DenyEmptiesRoom`) and never interrupts a config save
  (`DenyNeverInterruptsConfigSave`).
* *Nobody waits for ever* (`locks`, `ollama`, `secrets`, `dispatch`): a worker that
  handles a message or a command finishes it (`WorkerFinishes`), a turn that needs
  the local endpoint goes on or fails (`EveryTurnEnds`), a prompt frees the terminal
  (`SlotIsFreed`), and a queued message is taken up unless its worker is stopped or
  leaves (`QueuedIsTaken`).
* *Workers* (`dispatch`): a chat's messages are handled in order by one worker
  (`StrictOrderPerChat`); every worker that may take a message can be found by
  `/deny` (`DenyReachesWorker`); what was queued at a denial is never handled
  (`RevokedIsNeverHandled`); the loop ends after its workers
  (`NoWorkerOutlivesTheLoop`).
* *Access* (`access`, `pairing`): memory follows the file (`MemoryMatchesFile`) and so
  do the owners (`OwnersAreDurable`); live access is the config's when nothing is
  under way (`AgreesUnlessRaced`); releasing a pin loses no chat (`OnlyDenyRemoves`); a
  pairing needs a fresh code of its own chat (`PairsWithFreshCode`), a chat compares
  at most `2 * (MaxAttempts - 1)` codes in any period of one window
  (`AttemptsBounded`; the bound is reached: with 5 attempts, 8 in 5 minutes), and the
  code of a chat is on the console between messages, unless the attempt that issued it
  locked the chat out (`CodeIsPrinted`).
* *Local server* (`ollama`): every running process of tellm's is one that it will stop,
  apart from `orphans` (`EveryChildIsKnown`); a server is replaced only if somebody
  stopped waiting for it too early (`ServerIsReplacedOnlyIfSlow`); what is in its memory
  will be unloaded, apart from `reused` (`LoadedIsTracked`).
* *Secrets* (`secrets`): a read that begins after a successful write never gives what
  that replaced (`NoOldKey`); a key is stored under the name it was typed for
  (`KeyGoesWhereItWasAskedFor`); a prompt ends early only with the terminal or by a late
  line for an earlier prompt of the same secret (`CutShortOnlyByNamesake`).
* *Files* (`files`): `Implements`; what was reported saved survives (`ReportedSurvives`);
  memory is what a restart would load (`MemoryMatchesDisk`).
* *Restarts* (`restart`): an update that Telegram has forgotten is in the process's hands,
  answered, dropped, or lost with a process that ended, and no process looks at one twice
  (`NothingSlipsOrRepeats`). Dropped are a message in an unknown chat, one that finds a full
  queue, of which the chat is told, and those a `/deny` purges, of which nobody is. The
  config on disk is always one the next start accepts (`LoadsAgain`); a command delivered
  twice in a row changes nothing more, save for the two that toggle
  (`RedeliveryIsHarmless`). A process is shut down by, and its config changes after, a
  message of an owner that was fresh when the process took it, however much later it was
  carried out; the exceptions are named in the property: a chat an owner adds the bot to,
  a chat that pairs with the sender as an owner, and a refused save (`OldCommandsDoNotAct`).
* *Messages* (`messages`): the user sees a beginning of the answer, in order, nothing twice
  (`ShownOnceInOrder`); a turn that ends has shown all of it or tried to say why not
  (`AnsweredOrTold`); the provider is never asked about a part of a file
  (`OnlyWholeInput`).

Why the bounds are enough. The actors of ChatTurns, Dispatcher and AccessPolicy
interact pairwise (a worker and the terminal, a requester and a target); two rooms
have every pairwise interleaving, and the third room of `deny` is there to occupy a
lock. Two wire formats are needed for a change and a change back; a history of two
turns with limits of two shows both a kept and a dropped turn; a message finds a queue
of one full as soon as another waits in it. A decision about a chat can overlap with one
other, and with a failed save, within three operations. With a limit of 2 two attempts
gather around the border of a window, and the clock runs long enough for a code to be
issued in the middle of an attempt, for the lock of that attempt to end, and for what
follows. In `ollama` one task starts the server, another
waits for the lock, and the third turn starts after the first has given up; three
processes are one that serves, one that replaces it and one that nobody registers. In
`secrets` a second prompt takes the slot while the first one's line is still in the
thread's hand, and both stores can hold an older value. In `files` a change of the same
file follows one that is written, refused or abandoned, and a second end of the process
finds what the first has left. In `restart` two messages are a command and its effect on
the next, or on its own redelivery; the state the second finds is any that one command
makes. One of them may wait in a worker's hand while the other is carried out, and a queue
of one is full when its worker is busy with the change of another chat. In `messages` six answers are the shapes at which chunking can go wrong: longer
than a piece, a newline at a cut, at the ends or alone, a piece longer in units than in
characters. Every bound is a constant of its module and each cfg gives it its value.

Two constants of ChatTurns choose what an instance is about: `Talkers` are the chats
that send messages for the model, and `Commands[c]` are the commands of chat c.
Deadlock is not checked where the system comes to rest: `ollama`, `secrets`, `files`,
`restart` and `messages` end when their bounds are used up or the bot has stopped. The
others have a step for that (`Rest`), and in Pairing another message may always come.

### Fairness
`FairSpec` of ChatTurns gives each worker weak fairness: the executor polls every
runnable task, tokio's mutexes queue their waiters in order, every network
client is built with a request timeout and a disk write returns. `FairSpec` of
Dispatcher gives it to the poll loop's steps between two polls and to each
worker's steps that wait for nothing outside. In Ollama each turn, each unloading
and each blocking thread is weakly fair (the wait for the server has a deadline,
every request a timeout), and taking `START_LOCK` strongly so, since a tokio mutex
hands itself to its waiters in order and none waits for a lock that is free again
and again. In TerminalPrompt the tasks, their timers, the stores and the thread's
hand-over are weakly fair; nobody has to type. Nothing is assumed of arrivals,
commands, failures, aborts, other processes or the user.

## 4. Findings

A disagreement of code and comment that a registered run shows:

* `idle_reap`: between the idle timeout and the drop of the receiver `try_send` still
  succeeds, and the message is lost; the comment in `send_to_chat_worker`
  (`src/runtime.rs:625`) counts on a refusal there.

Further behaviour that the properties above except, or whose counter-example a
configuration of its own shows (run it with `tlc -config`; the last line of each
names the property):

* `ChatTurns_recreate.cfg`: `RoomState::new` starts at generation 0, so after `/deny`
  and `/allow` a turn that was prepared for the removed room matches the new one
  (`src/rooms.rs:96`). `NoResurrectedTurn` is about the resets of one room.
* `ChatTurns_chain.cfg`: `/deny` clears the room in a second transaction
  (`src/runtime.rs:1365`). If its own worker is denied while it waits for the
  transaction lock, the target's room, with history, is still there when the target is
  allowed again. `DenyEmptiesRoom` is about a `/deny` that completes. If the target was
  pinned, the pin is gone and the history is not: it goes on under another model
  (`ChatTurns_context.cfg`), which is why `OneContextPerHistory` is about chats that
  nobody denies.
* `ChatTurns_setup.cfg`: even a `/deny` that completes may leave a conversation, if
  an `/allow` of the same chat lingers before its setup message
  (`room_setup_reply`, `src/runtime.rs:1736`). It creates the room anew after the
  `/deny` removed it, a reset from the terminal advances its generation to that of an
  aborted turn that has not yet noticed, and the turn is committed. It takes three
  decisions of two owners, a lock that is given out of order and a worker that goes
  without an await for as long as all this takes: `deny` has no such instance, and the
  theorems are about chats that nobody allows.
* `ChatTurns_pin.cfg`: `/model pin` is two transactions too (`src/runtime.rs:952`).
  Aborted between them by a `/deny` whose own save then fails, the chat is pinned to
  one model with the history of another.
* `AccessPolicy_race.cfg`: `/allow`, and the approval of a chat an owner adds the bot
  to, open live access after the config lock is released (`src/runtime.rs:1288`). A
  `/deny` that comes in between is saved, and undone in memory: the chat may use the
  bot until the next restart. The same gap, with other partners, gives the other
  `raced` cases: a pairing whose save fails takes away an access that an owner has
  granted meanwhile, and an `/allow` whose worker is denied before `grant` is in the
  file but not in memory.
* `Ollama_orphan.cfg`: a turn that is aborted while the blocking thread spawns the
  process leaves nobody to register it (`src/ollama.rs:319`); it outlives the bot,
  where the repository's README says that tellm stops what it started. These are
  the `orphans` of `EveryChildIsKnown`.
* A model that is used again while an unload of it waits for its answer is struck
  from the tracked ones afterwards (`src/ollama.rs:399`): `reused` in
  `LoadedIsTracked`.
* An unreadable `credentials.toml` is taken for an empty one, preference marker and
  all, and a stale keychain value is used (`crates/tellm-config/src/lib.rs:472`):
  `blind` in `NoOldKey`.
* A line that comes too late for its prompt clears the slot by the name of the secret,
  also when a newer prompt of that name is in it (`src/runtime.rs:1846`): `late` in
  `CutShortOnlyByNamesake`.
* A code that expires between arming and the attempt that locks the chat out is issued
  anew inside `attempt_pair` (`src/access.rs:219`), and not printed then. Nor is it by the
  messages that follow, as it is not new to them (`src/runtime.rs:545`): only by the next
  wrong code after the lock, or when the bot is added to the chat once more. It is the
  exception of `CodeIsPrinted`.
* An owner's adding the bot to a chat has no rule of freshness (`src/runtime.rs:449`),
  where owners' commands have one. An owner adds the bot and sends `/deny`, both are carried
  out, and the process is killed before its next poll. If it is started again after more
  than a minute it gets both again: the first re-allows the chat, the second is stale, and
  the chat stays allowed. `OldCommandsDoNotAct` names this among its exceptions, and a
  pairing, which needs a code that is valid in the process that gets it.
* Redelivery after a crash is harmless command by command, not for a pair of them: a
  command that was refused the first time may be carried out the second, because a
  later one has meanwhile made it possible. A message for the model is asked, and paid
  for, twice. A `/shutdown` whose confirmation was lost stops the next process too if
  that one starts within a minute.
* The picker of `/model` is followed by the plain text after any error, also when it
  was shown and only the confirmation was lost; `ShownOnceInOrder` is about texts and
  images.

## 5. Proofs

TypeOK of every module is a theorem (SecretStore's as a part of TerminalPrompt's).

`ChatTurnsProofs` proves, for all sets of chats, models, formats, roles and
commands and all bounds:

* `TypeCorrect`: `TypeOK`, with the strengthening that a worker beyond `route`
  has a command of the kind its label needs.
* `FormatsNeverMix` and `ResetIsFinal`: `OneWireFormat` and `NoResurrectedTurn`.
  Neither is inductive: a commit is safe only because the turn under way
  matches the room whenever their generations match. `ConversationInv` says it:
  what a room holds is in its format and of its era (`RoomCoherent`), what a
  turn has set aside is in the format and era it was taken from
  (`TurnCoherent`), and a turn whose life and generation are the room's has the
  room's era and format (`SameRoom`).
* `LatestTurnOnly`, `AnswersAreKept` and `FailureIsUndone`:
  `MessageModeKeepsLatestTurn`, `AnswerLostOnlyByReset` and
  `FailedTurnLeavesConversation`. `FoundInv` says what a turn finds when it comes back:
  within the era it began in, the room's generation is still its own, so a commit
  is refused only for a reset or a removal; a room whose format did not change has
  kept the history the turn set aside; and what a failed turn or a failed save may put
  back leaves at most one exchange in message mode.
* `HistoriesAreBounded`: `HistoryBounded`. What rooms hold and what turns have set
  aside is within both limits (`BoundInv`). That the closed form `Pruned` computes such
  a history needs induction over the positions of a history; the library's induction
  theorems have an operator as parameter, so `Induction` is derived here for sets of
  numbers, from the library's fact that < is well founded on Nat.
* `UndeniedKeepContext` and `OneContextWithoutDeny`: `OneContextPerHistory`, for the
  chats that no command denies, whatever is denied elsewhere; without `/deny` that is all
  of them. The property is false without that restriction (`ChatTurns_context.cfg`: a is
  pinned and has a history; b denies a, and is denied by d between its two transactions;
  d allows a). `ContextInv` says what model and role
  a history was made under: those the room selects, but the ones a failed save
  would put back while a pin is being saved; those a turn under way has captured; and those
  that go with the settings a failed room save would put back. `KeptInv` says that
  no config change takes such a chat's access.
* `ConfigSavesRunOn`: `DenyNeverInterruptsConfigSave`, from the invariant that a
  worker in a config save owns the config lock.
* `LocksAreOrdered` (`LockOrder`): who holds the config lock or the transaction lock waits
  for the rooms lock at most, and who holds the rooms lock for the network only, so that no
  ring of workers waits for one another. Each lock is held by exactly the worker whose label
  says so, aborted or not (`LocksHeld`). This is the part of `WorkerFinishes` that does not
  rest on fairness, for every number of chats.
* `DeniedForGood` and `DenyEmptiesWithoutAllow`: `DenyEmptiesRoom`, for the chats that no
  command allows, and of all of them if there is no `/allow`. Neither needs the assumption on
  timing of the run (`Stalls`). From the moment a `/deny` closes access, the chat has
  none and its worker is idle, aborted, or busy with that very `/deny`, and after it is
  saved no other `/deny` may fail and give access back (`ShutOut`); so no answer
  reaches the aborted worker, and none that had one before finds the removed room
  (`RoomEmptied`). For other chats the property is false (`ChatTurns_setup.cfg`).

`DispatcherProofs` proves, for all chats, owners, channel sizes and bounds, from
`DispatcherConstants`: `DispatcherTypeCorrect`, `ChatsStayInOrder`
(`StrictOrderPerChat`), `WorkersAreReached` (`DenyReachesWorker`), `LoopStopsLast`
(`NoWorkerOutlivesTheLoop`) and `RevokedStaysUnhandled` (`RevokedIsNeverHandled`). The
poll loop's map and the registry change at different moments, so `IInv` says how far
they may differ at each of the loop's steps (`MapsAgree`, `PollInStep`,
`WorkersInOrder`); that one task per chat may still take messages (`OneWorkerPerChat`)
and every task that listens can be found (`ListenersAreFound`); that a message goes to
one worker only (`RoutedOnce`) and is handled, held and queued in order (`InOrder`); and
that whoever holds a revoked message is cancelled (`RevokedIsCancelled`).

`AccessPolicyProofs` proves, for all chats, users, requesters and bounds, from
`AccessConstants`: `AccessTypeCorrect`, `MemoryFollowsFile` (`MemoryMatchesFile`),
`LiveOwnersAreStored` (`OwnersAreDurable`), `AccessAgrees` (`AgreesUnlessRaced`) and
`ChatsAreNotLost` (`OnlyDenyRemoves`). `IInv` adds that the lock is held
exactly while its holder saves, that what a failed save puts back is what the file
holds, that a config being saved has all stored owners and the operation's user if
any is new, and that who is about to become an owner is one in the file. `AgreeInv` is
about a chat that was never `raced`: one decision about it is under way at most, what the
operation has left to do is what will make live access and config agree, a config being
saved differs from the file in the operation's chat only, and otherwise they agree.

`PairingProofs` proves, for all lifetimes, windows and limits, from
`PairingConstants`: `PairingTypeCorrect`, `OnlyFreshCodesPair`
(`PairsWithFreshCode`), `CodesAreAnnounced` (`CodeIsPrinted`) and `GuessesAreBounded`
(`AttemptsBounded`). `IInv` adds that a
chat's code was issued to it, is not void and expires `Ttl` after its issue; that a
code in a message is one that somebody has seen; that attempts without a lock are
below the limit; and that in the middle of a message, apart from a code that the
locking attempt issued, only the code about to be shown may be unknown. `TriesCounted` is the argument about counting: the times of the
tries are in order; those of the account's own window are what it has counted; of those
before it at most `MaxAttempts - 2` are less than a window old; and a lock outlasts them
all.

`PersistenceProofs` proves, for all files, tasks and bounds, from
`PersistenceConstants`:

* `PersistenceTypeCorrect`: `TypeOK`, from which also follows that no file is torn.
* `ReportsSurvive` (`ReportedSurvives`) and `StoreIsImplemented` (`Implements`: the
  initial states map to initial states of DurableStore, and every step to a step of it
  or to a stutter). `OrderInv` is the invariant behind both: the writer has a job while
  it works on one and has synced what it renames (`WriterInStep`, `NothingTorn`), what
  is left of a write concerns what is on the disk (`DoneIsOnDisk`), and the queue is
  sorted, newer than the disk and than anything reported (`QueueIsNewer`,
  `VersionsInOrder`). Without the last, an old snapshot that an aborted task has left
  could be reported over a newer one.
* `MemoryFollowsDisk` (`MemoryMatchesDisk`). What a task puts back after a refusal is
  what the memory held before it, and that must be what the *rest of the queue* will
  leave on the disk, which may include snapshots of tasks that are gone. `MemoryInv`
  says so of the memory while nobody holds the lock (`UnlockedExpected`) and of what
  each waiting task would put back (`WaitingExpected`); `Expected` is "the newest
  version of the file that is queued below this one, or else what is on the disk".

`OllamaProofs` proves, for all turns, models and bounds, from `OllamaConstants`:
`OllamaTypeCorrect`, `NoUnknownChild` (`EveryChildIsKnown`), `ServersAreKept`
(`ServerIsReplacedOnlyIfSlow`) and `ModelsAreTracked` (`LoadedIsTracked`). What makes them
inductive: one turn at most is between taking `START_LOCK` and the end of its wait
(`OneStarter`); processes are numbered in the order of their start, so that a new one is
not in anybody's hands (`StartedInOrder`, `HandsHoldProcesses`); a process is in a turn's
hands only until the turn registers it (`HandsAreShort`); while no turn has given up, the
turn that started a child is the one that waits for it, and whoever is about to start
another has seen that the child does not serve (`ChildIsAwaited`); and a turn asks only
about a model that it has noted (`AskedIsTracked`).

`TerminalPromptProofs` proves, for all chats, secrets, readers and bounds, from the
constants' assumptions of both modules: `TerminalPromptTypeCorrect`,
`KeysAreFiledRight` (`KeyGoesWhereItWasAskedFor`), `PromptsEndForAReason`
(`CutShortOnlyByNamesake`) and `ReplacedKeysStayGone` (`NoOldKey`). The prompt in the slot
has a receiver (`SlotIsOpen`); a prompt with a receiver is in the slot, unless a late line
for a prompt of its name has cleared that, or the input has ended (`SlotOrLate`); a key in
the thread's hand or in a channel is in one place, goes to the prompt it was typed for, and
no write of it has begun (`Carried`, `CarriedOnce`, `BegunIsEntered`). For the stores: what
a read would find was not replaced, at any step of a write (`StoresAreNew`, `WriteIsNew`),
and what a read under way may yet find was not replaced when it began (`ReadsAreNew`).

`TelegramProofs` proves of Restart, for all messages, configs and bounds, from
`RestartConstants`: `RestartTypeCorrect` (with which arguments each resolved command has),
`UpdatesDoNotSlip` (`NothingSlipsOrRepeats`), `ConfigsLoadAgain` (`LoadsAgain`),
`OnlyFreshOwnersAct` (`OldCommandsDoNotAct`) and `RedeliveredOnce`
(`RedeliveryIsHarmless`).

* Updates: the offset is the highest update that was seen or that Telegram has been told
  of (`Passed`); a batch follows it (`BatchFollows`); every update up to it is somewhere
  (`Accounted`), and a process gives them out in order (`GivenInOrder`).
* Configs: every config in memory, on disk, in a save or to be put back is valid
  (`ConfigsAreValid`). This looks at every command that `Commands` can resolve.
* Commands: every action that changes the config or stops the bot is resolved only behind
  `CheckPrivileged`. Between that and the change lie several steps, so the proof needs
  `HandsFollow`: what a worker has in hand and judged "allowed" is of somebody who was an
  owner then and still is, and was fresh when it was taken; what it is to carry out was
  resolved behind that judgement, and can still be done with the config of now and with the
  one that a refused save brings back. Nobody is less of an owner after a change or after
  its refusal (`WorkIsWhole`, `ModelsStay`).
* Redelivery: the command that was carried out resolves the second time to the same
  action or to a refusal, and that action makes the same config and rooms of what it
  has made. The proof looks at each action in turn and uses `TypeOK` only: it holds in
  every state of the right types, not only in the reachable ones.

It proves of Delivery, for all messages, answers, piece sizes and limits, from
`DeliveryConstants` (sizes and limits are positive, and the picker's text is not blank,
as the code's constants and its fixed text are): `DeliveryTypeCorrect`,
`MessagesAreWhole` (`OnlyWholeInput`), `RepliesAreInOrder` (`ShownOnceInOrder`) and
`AnsweredInFull` (`AnsweredOrTold`).

* What `ChunkText` computes: it cuts a text that is not blank into consecutive pieces,
  none empty and none longer than the limit, from the first position to the last
  (`ChunkTextIs`). Its recursive function calls itself for a position further on, so the
  proof is an induction on the characters left (`Induction`, as in `ChatTurnsProofs`).
* `DeliveryInv` is the inductive invariant. What a reply has shown is in a row from its
  first position (`ShownInARow`), and what is still to be sent is in a row from there to
  its last, also while a rich piece is sent in smaller ones (`RestInARow`): either alone
  would not survive a piece that is cut again. Nothing is asked before every attachment
  is a content part (`AskedWhole`); a reply is begun only after those that may precede it,
  and one that was not begun has shown nothing (`InTurn`); images are those of the answer,
  and come after all of its text (`PhotosFollow`).
* `PiecesFit` and `RequestsAdvance` say more than the runs: each request carries between
  one character and the size of its form, and is for a later position than the one
  before it, or for the same one in the next form. A `send_message` thus ends after at
  most three requests per character, and makes no request twice.

Model-checked only:

* Liveness (`WorkerFinishes`, `QueuedIsTaken`, `EveryTurnEnds`, `SlotIsFreed`), which the
  proof system does not handle under fairness.
* `DenyEmptiesRoom` where a chat may be allowed again. It is checked under
  `Stalls = FALSE`, holds of the instance `deny`, and is false in general
  (`ChatTurns_setup.cfg`).
* `LostOnlyByDeny`, which is the property of the violated run.

## 6. Not modelled

* Provider clients: stateless building and parsing of JSON. A call is an outcome
  (`ProviderAnswers`, `ProviderFails`). Anthropic's loop over paused answers, the only
  control flow in them, repeats a request a bounded number of times within one call.
* The conversion of Markdown to Telegram's HTML: Delivery lets Telegram refuse any of
  it. A piece of HTML longer than its Markdown is covered by the same refusals.
* First-run wizard and console: sequential I/O before the bot starts, and log lines.
* The forms of the files (TOML), paths and permissions; the check of `rooms.toml` at
  start, which refuses what no command writes.
* The environment variables that override secrets: while one is set neither store is
  read or written for its name.
* The one-time hint to an unknown chat, the typing indicator, back-off delays and the
  throttling of log lines: no state that a property is about depends on them.
* The mock server for the tests.

## 7. Plan

The runs answer the questions the project asks, and the safety properties they check are
theorems, where they hold of every instance. What is left:

1. `DenyEmptiesRoom` for chats that may be allowed again: fair queues for the three locks,
   under which `ChatTurns_setup.cfg` has to be looked at anew.
2. The file a `/deny` leaves behind, and the room a restart finds: ChatTurns' rooms
   through Persistence's crashes.
