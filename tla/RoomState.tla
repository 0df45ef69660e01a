------------------------------ MODULE RoomState ------------------------------
(***************************************************************************)
(* The conversation state of one Telegram chat ("room") and the operations *)
(* src/rooms.rs defines on it.  A room holds durable settings, the wire    *)
(* format its opaque history is written in, the history itself, and the    *)
(* generation number that tells a finished provider call whether the room  *)
(* it was prepared for still exists in the same form.                      *)
(*                                                                         *)
(* Data is abstracted to what the properties tell apart.  A history is a   *)
(* sequence of whole turns (the code keeps JSON items and, beside them, how *)
(* many belong to each turn, and only ever removes whole turns).  A turn   *)
(* remembers its wire format and size, which the code uses, and the model, *)
(* role, life and era it was produced under, which only the properties     *)
(* read.  The settings that no property tells apart (thinking level, web   *)
(* search, image generation) are left out.                                 *)
(***************************************************************************)
EXTENDS Naturals, Sequences, FiniteSets, Functions

CONSTANTS
  Models,           \* keys of the configured models
  DefaultModel,     \* config.default_model
  NoModel,          \* model_key = None, and "not pinned"
  WireFormats,      \* wire formats of the providers
  NoWire,           \* wire_format = None
  WireOf,           \* wire format of each configured model
  Roles,            \* system prompts a user may set
  NoRole,           \* role = None
  NoRoom,           \* the chat has no entry in RoomStates
  TurnSizes,        \* approximate size of a turn, in bytes
  MaxHistoryTurns,  \* MAX_HISTORY_TURNS
  MaxHistoryBytes   \* MAX_HISTORY_BYTES

Modes == {"chat", "message"}

Settings == [model : Models \cup {NoModel}, mode : Modes, role : Roles \cup {NoRole}]

Turn == [wire : WireFormats, size : TurnSizes, model : Models,
         role : Roles \cup {NoRole}, life : Nat, era : Nat]

(***************************************************************************)
(* life numbers the successive rooms a chat has had (a denied room is      *)
(* removed and may later be created again); era counts the resets a user   *)
(* or command asked for within one life.  Neither exists in the code: they *)
(* say, independently of the generation, which conversation a turn belongs *)
(* to.  The generation is a u64 advanced by wrapping_add; 2^64 changes are *)
(* out of reach, so it is a natural number here.                           *)
(***************************************************************************)
Room == [settings : Settings, wire : WireFormats \cup {NoWire}, history : Seq(Turn),
         gen : Nat, life : Nat, era : Nat]

ASSUME RoomConstants ==
  /\ DefaultModel \in Models
  /\ NoModel \notin Models
  /\ NoWire \notin WireFormats
  /\ NoRole \notin Roles
  /\ NoRoom \notin Room
  /\ WireOf \in [Models -> WireFormats]
  /\ TurnSizes \subseteq Nat
  /\ MaxHistoryTurns \in Nat
  /\ MaxHistoryBytes \in Nat

DefaultSettings == [model |-> NoModel, mode |-> "chat", role |-> NoRole]

NewRoom(life) ==
  [settings |-> DefaultSettings, wire |-> NoWire, history |-> <<>>,
   gen |-> 0, life |-> life, era |-> 0]

-----------------------------------------------------------------------------
(* Bounding the history *)

\* history_bytes of the turns from position i to the end
BytesFrom(h, i) ==
  LET bytes[j \in 1 .. Len(h) + 1] == IF j > Len(h) THEN 0 ELSE h[j].size + bytes[j + 1]
  IN  bytes[i]

\* Mutant: one turn too many is kept.
FitsFromLoose(h, i) ==
  /\ Len(h) - i <= MaxHistoryTurns
  /\ BytesFrom(h, i) <= MaxHistoryBytes

FitsFrom(h, i) ==
  /\ Len(h) - i < MaxHistoryTurns
  /\ BytesFrom(h, i) <= MaxHistoryBytes

(***************************************************************************)
(* push_turn drops the oldest whole turn until both limits hold.  Sizes    *)
(* are not negative, so a suffix that fits keeps fitting when it shrinks,  *)
(* and the turns dropped are those whose suffix does not fit.  A turn      *)
(* larger than the byte limit is dropped as well, and leaves nothing.      *)
(***************************************************************************)
Pruned(h) ==
  LET dropped == Cardinality({i \in 1 .. Len(h) : ~FitsFrom(h, i)})
  IN  SubSeq(h, dropped + 1, Len(h))

-----------------------------------------------------------------------------
(* Operations of RoomState *)

InvalidateHistory(r) == [r EXCEPT !.history = <<>>, !.gen = @ + 1]

ResetHistory(r) == [InvalidateHistory(r) EXCEPT !.era = @ + 1]

\* Mutant: a change of wire format keeps the history.
BeginTurnKeepsHistory(r, wire) == IF r.wire = wire THEN r ELSE [r EXCEPT !.wire = wire]

\* A change of wire format empties the history speculatively: the caller keeps
\* the old format and history until the provider has answered.
BeginTurn(r, wire) ==
  IF r.wire = wire THEN r
  ELSE [InvalidateHistory(r) EXCEPT !.wire = wire]

\* Mutant: the mode is ignored.
PushTurnAnyMode(r, turn) == [r EXCEPT !.history = Pruned(Append(@, turn))]

PushTurn(r, turn) ==
  [r EXCEPT !.history = Pruned(IF r.settings.mode = "message" THEN <<turn>>
                               ELSE Append(@, turn))]

AppendTurn(r, turn) ==
  PushTurn(IF r.wire = turn.wire THEN r
           ELSE [InvalidateHistory(r) EXCEPT !.wire = turn.wire], turn)

\* Mutant: a failed turn brings back the format but not the history.
RestoreFormatOnly(r, switched, prior) ==
  IF switched THEN [r EXCEPT !.wire = prior.wire, !.gen = @ + 1] ELSE r

\* The history and format that begin_turn took away come back, under a new
\* generation; without a format change there is nothing to bring back.
RestoreFailedTurn(r, switched, prior) ==
  IF switched
  THEN [r EXCEPT !.wire = prior.wire, !.history = prior.history, !.gen = @ + 1]
  ELSE r

ResetRoomModelContext(r) == ResetHistory([r EXCEPT !.wire = NoWire])

SelectedModel(pinned, r) ==
  IF pinned # NoModel THEN pinned
  ELSE IF r.settings.model # NoModel THEN r.settings.model
  ELSE DefaultModel

\* What a history must satisfy to be replayed under a wire format.
WrittenIn(wire, history) == \A i \in DOMAIN history : history[i].wire = wire
=============================================================================
