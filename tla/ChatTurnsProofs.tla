-------------------------- MODULE ChatTurnsProofs --------------------------
(***************************************************************************)
(* Proofs about ChatTurns, for every set of chats, every bound and every   *)
(* assignment of wire formats to models.                                   *)
(***************************************************************************)
EXTENDS ChatTurns, TLAPS, SequenceTheorems, FiniteSetTheorems

-----------------------------------------------------------------------------
(* The operations of RoomState *)

\* Pruning keeps a suffix: every turn it keeps was in the history.
LEMMA PrunedType ==
  ASSUME NEW S, NEW h \in Seq(S)
  PROVE  /\ Pruned(h) \in Seq(S)
         /\ \A i \in DOMAIN Pruned(h) : \E j \in DOMAIN h : Pruned(h)[i] = h[j]
<1> DEFINE over == {i \in 1 .. Len(h) : ~FitsFrom(h, i)}
           k == Cardinality(over)
<1>1. Len(h) \in Nat
  OBVIOUS
<1>2. IsFiniteSet(1 .. Len(h))
  BY <1>1, FS_Interval
<1>3. IsFiniteSet(over)
  BY <1>2, FS_Subset
<1>4. k \in Nat
  BY <1>3, FS_CardinalityType
<1>5. Pruned(h) = SubSeq(h, k + 1, Len(h))
  BY DEF Pruned
<1> HIDE DEF k
<1>6. \A i \in (k + 1) .. Len(h) : h[i] \in S
  BY <1>4
<1>7. Pruned(h) \in Seq(S)
  BY <1>1, <1>4, <1>5, <1>6
<1>8. ASSUME NEW i \in DOMAIN Pruned(h)
      PROVE  \E j \in DOMAIN h : Pruned(h)[i] = h[j]
  <2>1. i \in Nat /\ i >= 1 /\ i + k <= Len(h) /\ Pruned(h)[i] = h[i + k]
    BY <1>1, <1>4, <1>5
  <2> QED
    BY <1>1, <1>4, <2>1
<1> QED
  BY <1>7, <1>8

LEMMA NewRoomType ==
  ASSUME NEW life \in Nat
  PROVE  NewRoom(life) \in Room
BY RoomConstants DEF NewRoom, DefaultSettings, Settings, Room, Modes

LEMMA InvalidateHistoryType ==
  ASSUME NEW r \in Room
  PROVE  /\ InvalidateHistory(r) \in Room
         /\ InvalidateHistory(r).history = <<>>
         /\ InvalidateHistory(r).gen = r.gen + 1
         /\ InvalidateHistory(r).life = r.life
         /\ InvalidateHistory(r).era = r.era
         /\ InvalidateHistory(r).wire = r.wire
         /\ InvalidateHistory(r).settings = r.settings
<1> DEFINE none == <<>>
           q == [r EXCEPT !.history = none]
<1>0. none \in Seq(Turn)
  OBVIOUS
<1> HIDE DEF none
<1>1. q \in Room /\ q.history = <<>> /\ q.gen = r.gen /\ q.life = r.life /\ q.era = r.era
      /\ q.wire = r.wire /\ q.settings = r.settings
  <2>1. q \in Room /\ q.history = none /\ q.gen = r.gen /\ q.life = r.life /\ q.era = r.era
        /\ q.wire = r.wire /\ q.settings = r.settings
    BY <1>0 DEF Room
  <2> QED
    BY <2>1 DEF none
<1>2. InvalidateHistory(r) = [q EXCEPT !.gen = r.gen + 1]
  BY DEF InvalidateHistory, none
<1> HIDE DEF q
<1> QED
  BY <1>1, <1>2 DEF Room

LEMMA ResetHistoryType ==
  ASSUME NEW r \in Room
  PROVE  /\ ResetHistory(r) \in Room
         /\ ResetHistory(r).history = <<>>
         /\ ResetHistory(r).gen = r.gen + 1
         /\ ResetHistory(r).life = r.life
         /\ ResetHistory(r).era = r.era + 1
         /\ ResetHistory(r).wire = r.wire
<1> DEFINE q == InvalidateHistory(r)
<1>1. q \in Room /\ q.history = <<>> /\ q.gen = r.gen + 1 /\ q.life = r.life /\ q.era = r.era
      /\ q.wire = r.wire
  BY InvalidateHistoryType
<1>2. ResetHistory(r) = [q EXCEPT !.era = q.era + 1]
  BY DEF ResetHistory
<1> HIDE DEF q
<1> QED
  BY <1>1, <1>2 DEF Room

LEMMA BeginTurnType ==
  ASSUME NEW r \in Room, NEW wire \in WireFormats
  PROVE  /\ BeginTurn(r, wire) \in Room
         /\ BeginTurn(r, wire).wire = wire
         /\ BeginTurn(r, wire).life = r.life
         /\ BeginTurn(r, wire).era = r.era
         /\ BeginTurn(r, wire).gen \in {r.gen, r.gen + 1}
         /\ BeginTurn(r, wire).history = <<>> \/ BeginTurn(r, wire) = r
<1> DEFINE q == InvalidateHistory(r)
<1>1. q \in Room /\ q.history = <<>> /\ q.gen = r.gen + 1 /\ q.life = r.life /\ q.era = r.era
  BY InvalidateHistoryType
<1>2. BeginTurn(r, wire) = IF r.wire = wire THEN r ELSE [q EXCEPT !.wire = wire]
  BY DEF BeginTurn
<1> HIDE DEF q
<1> QED
  BY <1>1, <1>2 DEF Room

LEMMA PushTurnType ==
  ASSUME NEW r \in Room, NEW t \in Turn
  PROVE  /\ PushTurn(r, t) \in Room
         /\ PushTurn(r, t).wire = r.wire
         /\ PushTurn(r, t).life = r.life
         /\ PushTurn(r, t).era = r.era
         /\ PushTurn(r, t).gen = r.gen
         /\ \A i \in DOMAIN PushTurn(r, t).history :
              \/ PushTurn(r, t).history[i] = t
              \/ \E j \in DOMAIN r.history : PushTurn(r, t).history[i] = r.history[j]
<1> DEFINE h == IF r.settings.mode = "message" THEN <<t>> ELSE Append(r.history, t)
<1>1. h \in Seq(Turn)
  BY DEF Room
<1>2. \A j \in DOMAIN h : h[j] = t \/ \E k \in DOMAIN r.history : h[j] = r.history[k]
  BY DEF Room
<1>3. PushTurn(r, t) = [r EXCEPT !.history = Pruned(h)]
  BY DEF PushTurn, Room
<1> HIDE DEF h
<1> DEFINE p == Pruned(h)
<1>4. p \in Seq(Turn) /\ \A i \in DOMAIN p : \E j \in DOMAIN h : p[i] = h[j]
  BY <1>1, PrunedType
<1> HIDE DEF p
<1> DEFINE q == [r EXCEPT !.history = p]
<1>5. q \in Room /\ q.history = p /\ q.wire = r.wire /\ q.life = r.life /\ q.era = r.era
      /\ q.gen = r.gen
  BY <1>4 DEF Room
<1>6. PushTurn(r, t) = q
  BY <1>3 DEF p
<1> HIDE DEF q
<1> QED
  BY <1>2, <1>4, <1>5, <1>6

LEMMA AppendTurnType ==
  ASSUME NEW r \in Room, NEW t \in Turn
  PROVE  /\ AppendTurn(r, t) \in Room
         /\ AppendTurn(r, t).wire = t.wire
         /\ AppendTurn(r, t).life = r.life
         /\ AppendTurn(r, t).era = r.era
         /\ \A i \in DOMAIN AppendTurn(r, t).history :
              \/ AppendTurn(r, t).history[i] = t
              \/ r.wire = t.wire
                 /\ \E j \in DOMAIN r.history : AppendTurn(r, t).history[i] = r.history[j]
<1>1. CASE r.wire = t.wire
  BY <1>1, PushTurnType DEF AppendTurn
<1>2. CASE r.wire # t.wire
  <2> DEFINE q == [InvalidateHistory(r) EXCEPT !.wire = t.wire]
  <2>1. q \in Room /\ q.wire = t.wire /\ q.history = <<>> /\ q.life = r.life /\ q.era = r.era
    <3> DEFINE e == InvalidateHistory(r)
    <3>1. e \in Room /\ e.history = <<>> /\ e.life = r.life /\ e.era = r.era
      BY InvalidateHistoryType
    <3>2. t.wire \in WireFormats
      BY DEF Turn
    <3>3. q = [e EXCEPT !.wire = t.wire]
      OBVIOUS
    <3> HIDE DEF e, q
    <3> QED
      BY <3>1, <3>2, <3>3 DEF Room
  <2>2. AppendTurn(r, t) = PushTurn(q, t)
    BY <1>2 DEF AppendTurn
  <2> HIDE DEF q
  <2> QED
    BY <2>1, <2>2, PushTurnType
<1> QED
  BY <1>1, <1>2

\* Settings a failed save puts back replace nothing else.
LEMMA SettingsType ==
  ASSUME NEW r \in Room, NEW settings \in Settings
  PROVE  /\ [r EXCEPT !.settings = settings] \in Room
         /\ [r EXCEPT !.settings = settings].wire = r.wire
         /\ [r EXCEPT !.settings = settings].history = r.history
         /\ [r EXCEPT !.settings = settings].gen = r.gen
         /\ [r EXCEPT !.settings = settings].life = r.life
         /\ [r EXCEPT !.settings = settings].era = r.era
BY DEF Room

LEMMA RestoreFailedTurnType ==
  ASSUME NEW r \in Room, NEW switched \in BOOLEAN, NEW prior \in Conversation
  PROVE  /\ RestoreFailedTurn(r, switched, prior) \in Room
         /\ RestoreFailedTurn(r, switched, prior).life = r.life
         /\ RestoreFailedTurn(r, switched, prior).era = r.era
         /\ \/ RestoreFailedTurn(r, switched, prior) = r
            \/ /\ RestoreFailedTurn(r, switched, prior).wire = prior.wire
               /\ RestoreFailedTurn(r, switched, prior).history = prior.history
<1> DEFINE q == [r EXCEPT !.wire = prior.wire]
           h == [q EXCEPT !.history = prior.history]
<1>1. q \in Room /\ q.life = r.life /\ q.era = r.era /\ q.gen = r.gen /\ q.wire = prior.wire
  BY DEF Room, Conversation
<1>2. RestoreFailedTurn(r, switched, prior) = IF switched THEN [h EXCEPT !.gen = r.gen + 1] ELSE r
  BY DEF RestoreFailedTurn
<1> HIDE DEF q
<1>3. h \in Room /\ h.life = r.life /\ h.era = r.era /\ h.gen = r.gen /\ h.wire = prior.wire
      /\ h.history = prior.history
  BY <1>1 DEF Room, Conversation
<1> HIDE DEF h
<1> QED
  BY <1>2, <1>3 DEF Room

LEMMA SelectedModelType ==
  ASSUME NEW r \in Room, NEW p \in Models \cup {NoModel}
  PROVE  SelectedModel(p, r) \in Models
BY RoomConstants DEF SelectedModel, Room, Settings

\* Whatever a command does to a room, the room stays one, in the same life; its
\* history is emptied under a new generation, or left alone with format,
\* generation and era.
LEMMA MutationType ==
  ASSUME NEW r \in Room, NEW command \in Command \cup {NoCommand}
  PROVE  /\ Mutation(command, r) \in Room
         /\ Mutation(command, r).life = r.life
         /\ \/ Mutation(command, r).history = <<>>
            \/ /\ Mutation(command, r).history = r.history
               /\ Mutation(command, r).wire = r.wire
               /\ Mutation(command, r).era = r.era
<1> DEFINE m == Mutation(command, r)
<1>1. [r EXCEPT !.wire = NoWire] \in Room /\ [r EXCEPT !.wire = NoWire].life = r.life
  BY DEF Room
<1>2. ResetRoomModelContext(r) \in Room /\ ResetRoomModelContext(r).life = r.life
      /\ ResetRoomModelContext(r).history = <<>>
  BY <1>1, ResetHistoryType DEF ResetRoomModelContext
<1>3. CASE command.op = "mode"
  <2> DEFINE q == [r EXCEPT !.settings.mode = command.mode]
  <2>1. command.mode \in Modes
    BY <1>3 DEF Command, NoCommand
  <2>2. q \in Room /\ q.life = r.life /\ q.history = r.history /\ q.wire = r.wire /\ q.era = r.era
    BY <2>1 DEF Room, Settings
  <2>3. m = IF command.mode = "message" THEN ResetHistory(q) ELSE q
    BY <1>3 DEF Mutation
  <2> HIDE DEF q
  <2> QED
    BY <2>2, <2>3, ResetHistoryType
<1>4. CASE command.op = "model"
  <2> DEFINE q == [[r EXCEPT !.settings.model = command.model] EXCEPT !.wire = NoWire]
  <2>1. command.model \in Models
    BY <1>4 DEF Command, NoCommand
  <2>2. q \in Room /\ q.life = r.life
    BY <2>1 DEF Room, Settings
  <2>3. m = ResetHistory(q)
    BY <1>4 DEF Mutation, ResetRoomModelContext
  <2> HIDE DEF q
  <2> QED
    BY <2>2, <2>3, ResetHistoryType
<1>5. CASE command.op = "role"
  <2> DEFINE q == [r EXCEPT !.settings.role = command.role]
  <2>1. command.role \in Roles \cup {NoRole}
    BY <1>5 DEF Command, NoCommand
  <2>2. q \in Room /\ q.life = r.life
    BY <2>1 DEF Room, Settings
  <2>3. m = ResetHistory(q)
    BY <1>5 DEF Mutation
  <2> HIDE DEF q
  <2> QED
    BY <2>2, <2>3, ResetHistoryType
<1>6. CASE command.op \notin {"mode", "model", "role"}
  BY <1>2, <1>6 DEF Mutation
<1> QED
  BY <1>3, <1>4, <1>5, <1>6
-----------------------------------------------------------------------------
(* Types.  A step of /allow or /deny uses the chat its command names, so the *)
(* types are inductive only together with what is handled at each label.     *)

CommandOK(c) ==
  /\ pc[c] \in {"grant", "setup", "setupLocked"} => cmd[c] \in Command /\ cmd[c].op = "allow"
  /\ pc[c] \in {"purge", "purging", "purgeSave"} => cmd[c] \in Command /\ cmd[c].op = "deny"

TypeInv == TypeOK /\ \A c \in Chats : CommandOK(c)

\* A command on a chat names one of the chats, a pin one of the models.
LEMMA CommandType ==
  ASSUME NEW command \in Command
  PROVE  /\ command \in Command
         /\ command.op \in {"allow", "deny"} => command.chat \in Chats
         /\ command.op = "pin" => command.model \in Models
BY ChatConstants DEF Command

LEMMA RoomOrDefaultType ==
  ASSUME TypeOK, NEW c \in Chats
  PROVE  /\ RoomOrDefault(c) \in Room
         /\ \/ RoomOrDefault(c) = rooms[c] /\ rooms[c] # NoRoom
            \/ RoomOrDefault(c) = NewRoom(lives[c] + 1) /\ rooms[c] = NoRoom
BY NewRoomType DEF RoomOrDefault, TypeOK

LEMMA PutRoomType ==
  ASSUME TypeOK, NEW c \in Chats, NEW r \in Room, PutRoom(c, r)
  PROVE  /\ rooms' \in [Chats -> Room \cup {NoRoom}]
         /\ lives' \in [Chats -> Nat]
<1>1. r.life \in Nat
  BY DEF Room
<1> QED
  BY <1>1 DEF TypeOK, PutRoom

LEMMA FinishType ==
  ASSUME TypeInv, NEW c \in Chats, Finish(c)
  PROVE  /\ pc' \in [Chats -> Labels]
         /\ cmd' \in [Chats -> Command \cup {NoCommand}]
         /\ turn' \in [Chats -> Prepared]
         /\ before' \in [Chats -> Settings \cup {NoRoom}]
         /\ undo' \in [Chats -> Undo]
         /\ cancelled' \in [Chats -> BOOLEAN]
         /\ aborted' \in [Chats -> BOOLEAN]
         /\ \A d \in Chats : CommandOK(d)'
<1>1. NoTurn \in Prepared
  BY RoomConstants DEF NoTurn, Prepared, Conversation
<1>2. NoUndo \in Undo
  BY DEF NoUndo, Undo
<1>3. "idle" \in Labels
  BY DEF Labels
<1>4. /\ pc' \in [Chats -> Labels]
      /\ cmd' \in [Chats -> Command \cup {NoCommand}]
      /\ turn' \in [Chats -> Prepared]
      /\ before' \in [Chats -> Settings \cup {NoRoom}]
      /\ undo' \in [Chats -> Undo]
      /\ cancelled' \in [Chats -> BOOLEAN]
      /\ aborted' \in [Chats -> BOOLEAN]
  BY <1>1, <1>2, <1>3 DEF TypeInv, TypeOK, Finish, Goto
<1>5. \A d \in Chats : CommandOK(d)'
  BY DEF TypeInv, TypeOK, CommandOK, Finish, Goto
<1> QED
  BY <1>4, <1>5

LEMMA ContinueType ==
  ASSUME TypeInv, NEW c \in Chats, NEW label \in Labels, Continue(c, label)
  PROVE  /\ pc' \in [Chats -> Labels]
         /\ cmd' \in [Chats -> Command \cup {NoCommand}]
         /\ turn' \in [Chats -> Prepared]
         /\ before' \in [Chats -> Settings \cup {NoRoom}]
         /\ undo' \in [Chats -> Undo]
         /\ cancelled' \in [Chats -> BOOLEAN]
         /\ aborted' \in [Chats -> BOOLEAN]
         /\ pc'[c] = label /\ cmd'[c] = cmd[c]
         /\ \A d \in Chats \ {c} : CommandOK(d)'
BY DEF TypeInv, TypeOK, CommandOK, Continue, Goto

LEMMA InitType == Init => TypeInv
<1> SUFFICES ASSUME Init PROVE TypeInv
  OBVIOUS
<1>1. NoTurn \in Prepared
  BY RoomConstants DEF NoTurn, Prepared, Conversation
<1>2. NoUndo \in Undo
  BY DEF NoUndo, Undo
<1>3. TypeOK
  BY <1>1, <1>2 DEF Init, TypeOK, Labels
<1>4. \A c \in Chats : CommandOK(c)
  BY DEF Init, CommandOK
<1> QED
  BY <1>3, <1>4 DEF TypeInv
\* Steps that leave rooms, access and config alone.
LEMMA QuietStepType ==
  ASSUME TypeInv, NEW c \in Chats,
         FetchFails(c) \/ FetchDone(c) \/ ProviderAnswers(c) \/ ProviderFails(c) \/ Answer(c)
           \/ Sent(c) \/ NewChatSent(c) \/ RoomSaved(c) \/ RoomSaveFails(c) \/ PurgeSaveEnds(c)
  PROVE  TypeInv'
<1> USE DEF TypeInv, TypeOK, convVars, accessVars, lockVars, Completes, Spend
<1>1. CASE FetchFails(c)
  BY <1>1, FinishType, ContinueType DEF FetchFails, CommandOK, Labels, Suspended, WaitsForConfig, WaitsForRooms
<1>2. CASE FetchDone(c)
  BY <1>2, FinishType, ContinueType DEF FetchDone, CommandOK, Labels, Suspended, WaitsForConfig, WaitsForRooms
<1>3. CASE ProviderAnswers(c)
  BY <1>3, FinishType, ContinueType DEF ProviderAnswers, CommandOK, Labels, Suspended, WaitsForConfig, WaitsForRooms
<1>4. CASE ProviderFails(c)
  BY <1>4, FinishType, ContinueType DEF ProviderFails, CommandOK, Labels, Suspended, WaitsForConfig, WaitsForRooms
<1>5. CASE Answer(c)
  BY <1>5, FinishType, ContinueType DEF Answer, CommandOK, Labels, Suspended, WaitsForConfig, WaitsForRooms
<1>6. CASE Sent(c)
  BY <1>6, FinishType, ContinueType DEF Sent, CommandOK, Labels, Suspended, WaitsForConfig, WaitsForRooms
<1>7. CASE NewChatSent(c)
  BY <1>7, FinishType, ContinueType DEF NewChatSent, CommandOK, Labels, Suspended, WaitsForConfig, WaitsForRooms
<1>8. CASE RoomSaved(c)
  BY <1>8, FinishType, ContinueType DEF RoomSaved, CommandOK, Labels, Suspended, WaitsForConfig, WaitsForRooms
<1>9. CASE RoomSaveFails(c)
  BY <1>9, FinishType, ContinueType DEF RoomSaveFails, CommandOK, Labels, Suspended, WaitsForConfig, WaitsForRooms
<1>10. CASE PurgeSaveEnds(c)
  BY <1>10, FinishType, ContinueType DEF PurgeSaveEnds, CommandOK, Labels, Suspended, WaitsForConfig, WaitsForRooms
<1> QED
  BY <1>1, <1>2, <1>3, <1>4, <1>5, <1>6, <1>7, <1>8, <1>9, <1>10

\* A model turn reads or replaces its own chat's room.
LEMMA ModelTurnType ==
  ASSUME TypeInv, NEW c \in Chats,
         StartMessage(c) \/ LockForTurn(c) \/ BeginRoomTurn(c) \/ Commit(c) \/ RestoreAfterFailure(c)
  PROVE  TypeInv'
<1> USE DEF TypeInv
<1>1. CASE StartMessage(c)
  BY <1>1, ContinueType DEF StartMessage, TypeOK, CommandOK, Labels, Suspended, Spend, convVars,
     accessVars, lockVars
<1>2. CASE LockForTurn(c)
  BY <1>2, ContinueType DEF LockForTurn, LockConfig, TypeOK, CommandOK, Labels, WaitsForRooms,
     convVars, accessVars
<1>3. CASE BeginRoomTurn(c)
  <2> DEFINE r == RoomOrDefault(c)
             model == SelectedModel(pin[c], r)
             begun == BeginTurn(r, WireOf[model])
  <2>1. r \in Room
    BY RoomOrDefaultType
  <2>2. model \in Models
    BY <2>1, SelectedModelType DEF TypeOK
  <2>3. WireOf[model] \in WireFormats
    BY <2>2, RoomConstants
  <2>4. begun \in Room /\ begun.wire = WireOf[model]
    BY <2>1, <2>3, BeginTurnType
  <2>5. PutRoom(c, begun) /\ turn' = [turn EXCEPT ![c] = Capture(r, begun, model)]
    BY <1>3 DEF BeginRoomTurn
  <2> HIDE DEF r, model, begun
  <2>6. Capture(r, begun, model) \in Prepared
    BY <2>1, <2>2, <2>3, <2>4 DEF Capture, Prepared, Conversation, Room, Settings
  <2>7. turn' \in [Chats -> Prepared]
    BY <2>5, <2>6 DEF TypeOK
  <2>8. rooms' \in [Chats -> Room \cup {NoRoom}] /\ lives' \in [Chats -> Nat]
    BY <2>4, <2>5, PutRoomType
  <2>9. pc' \in [Chats -> Labels] /\ \A d \in Chats : CommandOK(d)'
    BY <1>3 DEF BeginRoomTurn, Goto, TypeOK, CommandOK, Labels, Suspended
  <2> QED
    BY <1>3, <2>7, <2>8, <2>9 DEF BeginRoomTurn, TypeOK, accessVars, flagVars
<1>4. CASE Commit(c)
  <2>1. CASE SameGeneration(c)
    <3>1. PICK size \in TurnSizes : PutRoom(c, AppendTurn(rooms[c], FinishedTurn(c, size)))
      BY <1>4, <2>1 DEF Commit
    <3>2. FinishedTurn(c, size) \in Turn
      BY RoomConstants DEF FinishedTurn, Turn, TypeOK, Prepared
    <3>3. AppendTurn(rooms[c], FinishedTurn(c, size)) \in Room
      BY <2>1, <3>2, AppendTurnType DEF SameGeneration, TypeOK
    <3>4. rooms' \in [Chats -> Room \cup {NoRoom}] /\ lives' \in [Chats -> Nat]
      BY <3>1, <3>3, PutRoomType
    <3>5. Continue(c, "answer") /\ "answer" \in Labels
      BY <1>4, <2>1 DEF Commit, Labels
    <3> QED
      BY <1>4, <3>4, <3>5, ContinueType DEF Commit, TypeOK, CommandOK, accessVars, lockVars
  <2>2. CASE ~SameGeneration(c)
    BY <1>4, <2>2, FinishType DEF Commit, TypeOK, convVars, accessVars, lockVars
  <2> QED
    BY <2>1, <2>2
<1>5. CASE RestoreAfterFailure(c)
  <2> DEFINE r == RestoreFailedTurn(rooms[c], turn[c].switched, turn[c].prior)
  <2>1. CASE SameGeneration(c)
    <3>1. r \in Room
      BY <2>1, RestoreFailedTurnType DEF SameGeneration, TypeOK, Prepared
    <3>2. PutRoom(c, r) /\ Continue(c, "answer") /\ "answer" \in Labels
      BY <1>5, <2>1 DEF RestoreAfterFailure, Labels
    <3> HIDE DEF r
    <3>3. rooms' \in [Chats -> Room \cup {NoRoom}] /\ lives' \in [Chats -> Nat]
      BY <3>1, <3>2, PutRoomType
    <3> QED
      BY <1>5, <3>2, <3>3, ContinueType DEF RestoreAfterFailure, TypeOK, CommandOK, accessVars,
         lockVars
  <2>2. CASE ~SameGeneration(c)
    BY <1>5, <2>2, FinishType DEF RestoreAfterFailure, TypeOK, convVars, accessVars, lockVars
  <2> QED
    BY <2>1, <2>2
<1> QED
  BY <1>1, <1>2, <1>3, <1>4, <1>5

LEMMA RoomCommandType ==
  ASSUME TypeInv, NEW c \in Chats,
         StartCommand(c) \/ LockForRoute(c) \/ Route(c) \/ NewChat(c) \/ LockForMutation(c)
           \/ MutateRoom(c) \/ RollbackSettings(c)
  PROVE  TypeInv'
<1> USE DEF TypeInv
<1>1. CASE StartCommand(c)
  <2>1. PICK command \in Commands[c] : cmd' = [cmd EXCEPT ![c] = command]
    BY <1>1 DEF StartCommand
  <2>2. command \in Command
    BY ChatConstants
  <2> QED
    BY <1>1, <2>1, <2>2 DEF StartCommand, Goto, TypeOK, CommandOK, Labels, WaitsForConfig, Spend,
       convVars, accessVars, flagVars, lockVars
<1>2. CASE LockForRoute(c)
  BY <1>2, ContinueType DEF LockForRoute, LockConfig, TypeOK, CommandOK, Labels, WaitsForRooms,
     convVars, accessVars
<1>3. CASE Route(c)
  <2>1. rooms' \in [Chats -> Room \cup {NoRoom}] /\ lives' \in [Chats -> Nat]
    BY <1>3, RoomOrDefaultType, PutRoomType DEF Route
  <2>2. Finish(c) \/ \E label \in {"new", "config", "mutate"} : Continue(c, label)
    BY <1>3 DEF Route
  <2>3. {"new", "config", "mutate"} \subseteq Labels
    BY DEF Labels, WaitsForConfig, WaitsForRooms, WaitsForTxn
  <2> QED
    BY <1>3, <2>1, <2>2, <2>3, FinishType, ContinueType DEF Route, TypeOK, CommandOK, accessVars
<1>4. CASE NewChat(c)
  <2>1. rooms' \in [Chats -> Room \cup {NoRoom}] /\ lives' \in [Chats -> Nat]
    BY <1>4, RoomOrDefaultType, ResetHistoryType, PutRoomType DEF NewChat
  <2> QED
    BY <1>4, <2>1, ContinueType DEF NewChat, TypeOK, CommandOK, Labels, Suspended, accessVars
<1>5. CASE LockForMutation(c)
  BY <1>5, ContinueType DEF LockForMutation, LockTxn, TypeOK, CommandOK, Labels, WaitsForRooms,
     convVars, accessVars
<1>6. CASE MutateRoom(c)
  <2>1. cmd[c] \in Command \cup {NoCommand}
    BY CommandType DEF TypeOK
  <2>2. Mutation(cmd[c], RoomOrDefault(c)) \in Room
    BY <2>1, RoomOrDefaultType, MutationType
  <2>3. rooms' \in [Chats -> Room \cup {NoRoom}] /\ lives' \in [Chats -> Nat]
    BY <1>6, <2>2, PutRoomType DEF MutateRoom
  <2>4. before' \in [Chats -> Settings \cup {NoRoom}]
    BY <1>6 DEF MutateRoom, TypeOK, Room
  <2> QED
    BY <1>6, <2>3, <2>4 DEF MutateRoom, Goto, TypeOK, CommandOK, Labels, Suspended, accessVars,
       flagVars, lockVars
<1>7. CASE RollbackSettings(c)
  <2>1. CASE before[c] = NoRoom
    <3>1. DropRoom(c)
      BY <1>7, <2>1 DEF RollbackSettings
    <3> QED
      BY <1>7, <3>1, FinishType DEF RollbackSettings, DropRoom, TypeOK, accessVars
  <2>2. CASE before[c] # NoRoom /\ rooms[c] = NoRoom
    BY <1>7, <2>2, FinishType DEF RollbackSettings, TypeOK, accessVars, convVars
  <2>3. CASE before[c] # NoRoom /\ rooms[c] # NoRoom
    <3> DEFINE r == [rooms[c] EXCEPT !.settings = before[c]]
    <3>1. r \in Room
      <4>1. rooms[c] \in Room /\ before[c] \in Settings
        BY <2>3 DEF TypeOK
      <4> QED
        BY <4>1, SettingsType
    <3>2. PutRoom(c, r)
      BY <1>7, <2>3 DEF RollbackSettings
    <3> HIDE DEF r
    <3>3. rooms' \in [Chats -> Room \cup {NoRoom}] /\ lives' \in [Chats -> Nat]
      BY <3>1, <3>2, PutRoomType
    <3> QED
      BY <1>7, <3>3, FinishType DEF RollbackSettings, TypeOK, accessVars
  <2> QED
    BY <2>1, <2>2, <2>3
<1> QED
  BY <1>1, <1>2, <1>3, <1>4, <1>5, <1>6, <1>7

LEMMA ConfigCommandType ==
  ASSUME TypeInv, NEW c \in Chats,
         PinModel(c) \/ UnpinModel(c) \/ AllowInConfig(c) \/ CloseAccess(c) \/ ConfigSaved(c)
           \/ ConfigSaveFails(c) \/ Grant(c) \/ LockForSetup(c) \/ SetUpRoom(c)
           \/ LockForPurge(c) \/ PurgeRoom(c)
  PROVE  TypeInv'
<1> USE DEF TypeInv
<1>1. \A t \in Chats : Remembered(t) \in Undo
  BY DEF Remembered, Undo, TypeOK
<1>2. CASE PinModel(c)
  <2>1. cmd[c] \in Command /\ cmd[c].op = "pin"
    BY <1>2 DEF PinModel, AtConfig, TypeOK, NoCommand
  <2>2. cmd[c].model \in Models
    BY <2>1, CommandType
  <2> QED
    BY <1>1, <1>2, <2>2 DEF PinModel, SaveConfig, Goto, TypeOK, CommandOK, Labels, Suspended,
       convVars, flagVars
<1>3. CASE UnpinModel(c)
  <2>1. CASE pin[c] = NoModel
    BY <1>3, <2>1, FinishType DEF UnpinModel, TypeOK, convVars
  <2>2. CASE pin[c] # NoModel
    BY <1>1, <1>3, <2>2 DEF UnpinModel, SaveConfig, Goto, TypeOK, CommandOK, Labels, Suspended,
       convVars, flagVars
  <2> QED
    BY <2>1, <2>2
<1>4. CASE AllowInConfig(c)
  <2>1. cmd[c] \in Command /\ cmd[c].op = "allow"
    BY <1>4 DEF AllowInConfig, AtConfig, TypeOK, NoCommand
  <2>2. cmd[c].chat \in Chats
    BY <2>1, CommandType
  <2> QED
    BY <1>1, <1>4, <2>1, <2>2 DEF AllowInConfig, SaveConfig, Goto, TypeOK, CommandOK, Labels,
       Suspended, convVars, flagVars
<1>5. CASE CloseAccess(c)
  <2>1. cmd[c] \in Command /\ cmd[c].op = "deny"
    BY <1>5 DEF CloseAccess, AtConfig, TypeOK, NoCommand
  <2>2. cmd[c].chat \in Chats
    BY <2>1, CommandType
  <2> QED
    BY <1>1, <1>5, <2>1, <2>2 DEF CloseAccess, SaveConfig, Goto, TypeOK, CommandOK, Labels,
       Suspended, WaitsForTxn, convVars
<1>6. CASE ConfigSaved(c)
  <2> DEFINE label == CASE cmd[c].op = "allow" -> "grant"
                        [] cmd[c].op = "deny" -> "purge"
                        [] OTHER -> "mutate"
  <2>1. /\ label \in Labels
        /\ label \notin {"setup", "setupLocked", "purging", "purgeSave"}
        /\ label = "grant" => cmd[c].op = "allow"
        /\ label = "purge" => cmd[c].op = "deny"
    BY DEF Labels, WaitsForTxn
  <2>2. Continue(c, label)
    BY <1>6 DEF ConfigSaved
  <2> HIDE DEF label
  <2>3. cmd[c].op \in {"allow", "deny"} => cmd[c] \in Command
    BY DEF TypeOK, NoCommand
  <2> QED
    BY <1>6, <2>1, <2>2, <2>3, ContinueType DEF ConfigSaved, TypeOK, CommandOK, convVars, accessVars
<1>7. CASE ConfigSaveFails(c)
  <2> DEFINE t == IF cmd[c].op \in {"allow", "deny"} THEN cmd[c].chat ELSE c
  <2>1. cmd[c].op \in {"allow", "deny"} => cmd[c] \in Command
    BY DEF TypeOK, NoCommand
  <2>2. t \in Chats
    BY <2>1, CommandType
  <2> QED
    BY <1>7, <2>2, FinishType DEF ConfigSaveFails, TypeOK, Undo, Spend, convVars
<1>8. CASE Grant(c)
  <2>1. cmd[c].chat \in Chats /\ cmd[c] \in Command /\ cmd[c].op = "allow"
    BY <1>8, CommandType DEF Grant, CommandOK
  <2>2. Continue(c, "setup") \/ Finish(c)
    BY <1>8 DEF Grant
  <2> QED
    BY <1>8, <2>1, <2>2, ContinueType, FinishType DEF Grant, TypeOK, CommandOK, Labels,
       WaitsForConfig, convVars, lockVars
<1>9. CASE LockForSetup(c)
  BY <1>9, ContinueType DEF LockForSetup, LockConfig, TypeOK, CommandOK, Labels, WaitsForRooms,
     convVars, accessVars
<1>10. CASE SetUpRoom(c)
  <2>1. cmd[c].chat \in Chats
    BY <1>10, CommandType DEF SetUpRoom, CommandOK
  <2>2. rooms' \in [Chats -> Room \cup {NoRoom}] /\ lives' \in [Chats -> Nat]
    BY <1>10, <2>1, RoomOrDefaultType, PutRoomType DEF SetUpRoom
  <2> QED
    BY <1>10, <2>2, FinishType DEF SetUpRoom, TypeOK, accessVars
<1>11. CASE LockForPurge(c)
  BY <1>11, ContinueType DEF LockForPurge, LockTxn, TypeOK, CommandOK, Labels, WaitsForRooms,
     convVars, accessVars
<1>12. CASE PurgeRoom(c)
  BY <1>12, ContinueType, ZenonT(60) DEF PurgeRoom, DropRoom, TypeOK, CommandOK, Labels, Suspended,
     accessVars, lockVars
<1> QED
  BY <1>2, <1>3, <1>4, <1>5, <1>6, <1>7, <1>8, <1>9, <1>10, <1>11, <1>12

LEMMA DieType ==
  ASSUME TypeInv, NEW c \in Chats, Die(c)
  PROVE  TypeInv'
BY FinishType DEF Die, ReleaseOf, TypeInv, TypeOK, convVars, accessVars

LEMMA TerminalResetType ==
  ASSUME TypeInv, TerminalReset
  PROVE  TypeInv'
<1>1. rooms' \in [Chats -> Room \cup {NoRoom}]
  BY ResetHistoryType DEF TerminalReset, TypeInv, TypeOK
<1> QED
  BY <1>1 DEF TerminalReset, TypeInv, TypeOK, CommandOK, Spend, accessVars, flagVars, lockVars

LEMMA TypeStep == TypeInv /\ [Next]_vars => TypeInv'
<1> SUFFICES ASSUME TypeInv, [Next]_vars PROVE TypeInv'
  OBVIOUS
<1>1. ASSUME NEW c \in Chats, ModelTurn(c) PROVE TypeInv'
  BY <1>1, QuietStepType, ModelTurnType DEF ModelTurn
<1>2. ASSUME NEW c \in Chats, RoomCommand(c) PROVE TypeInv'
  BY <1>2, QuietStepType, RoomCommandType DEF RoomCommand
<1>3. ASSUME NEW c \in Chats, ConfigCommand(c) PROVE TypeInv'
  BY <1>3, QuietStepType, ConfigCommandType DEF ConfigCommand
<1>4. ASSUME NEW c \in Chats, StartMessage(c) \/ StartCommand(c) PROVE TypeInv'
  BY <1>4, ModelTurnType, RoomCommandType
<1>5. CASE UNCHANGED vars
  BY <1>5 DEF vars, TypeInv, TypeOK, CommandOK
<1>6. ASSUME NEW c \in Chats, Worker(c) PROVE TypeInv'
  BY <1>1, <1>2, <1>3, <1>6, DieType DEF Worker
<1> QED
  BY <1>4, <1>5, <1>6, TerminalResetType DEF Next, Rest

\* Every variable stays in its domain, for any number of chats and commands.
THEOREM TypeCorrect == Spec => []TypeOK
<1>1. TypeInv => TypeOK
  BY DEF TypeInv
<1> QED
  BY <1>1, InitType, TypeStep, PTL DEF Spec

-----------------------------------------------------------------------------
(* Conversations.  The generation alone does not identify a room: it starts *)
(* again at 0 when a removed room is created anew.  What holds is that while *)
(* a provider call is under way, a room of the same life and the same        *)
(* generation is in the same era and format, and that whatever the turn has  *)
(* set aside is of one format and belongs to the turn's life and era or to   *)
(* an earlier life.                                                          *)

\* No turn of the history is of a later life, or of another era of this one.
BelongsTo(history, life, era) ==
  \A i \in DOMAIN history :
    history[i].life <= life /\ (history[i].life = life => history[i].era = era)

RoomCoherent(r) == WrittenIn(r.wire, r.history) /\ BelongsTo(r.history, r.life, r.era)

InFlight(c) == pc[c] \in {"call", "commit", "fail"}

TurnCoherent(t) ==
  WrittenIn(t.prior.wire, t.prior.history) /\ BelongsTo(t.prior.history, t.life, t.era)

\* The room the turn was prepared for, if it is still there, has not gone back.
SameRoom(t, r) ==
  t.life = r.life =>
    t.gen <= r.gen /\ (t.gen = r.gen => t.era = r.era /\ t.wire = r.wire)

ConversationInv ==
  \A c \in Chats :
    /\ rooms[c] # NoRoom => rooms[c].life = lives[c] /\ RoomCoherent(rooms[c])
    /\ InFlight(c) => turn[c].life <= lives[c] /\ TurnCoherent(turn[c])
    /\ InFlight(c) /\ rooms[c] # NoRoom => SameRoom(turn[c], rooms[c])

LEMMA BelongsToLater ==
  ASSUME NEW h \in Seq(Turn), NEW l1 \in Nat, NEW e1 \in Nat, NEW l2 \in Nat, NEW e2 \in Nat,
         BelongsTo(h, l1, e1), l1 < l2 \/ (l1 = l2 /\ e1 = e2)
  PROVE  BelongsTo(h, l2, e2)
<1>1. \A i \in DOMAIN h : h[i].life \in Nat
  <2>1. \A i \in DOMAIN h : h[i] \in Turn
    OBVIOUS
  <2> QED
    BY <2>1 DEF Turn
<1> QED
  BY <1>1 DEF BelongsTo

LEMMA EmptyCoherent ==
  ASSUME NEW r, r.history = <<>>
  PROVE  RoomCoherent(r)
BY DEF RoomCoherent, WrittenIn, BelongsTo

LEMMA AppendCoherent ==
  ASSUME NEW r \in Room, NEW t \in Turn, RoomCoherent(r), t.life <= r.life,
         t.life = r.life => t.era = r.era
  PROVE  RoomCoherent(AppendTurn(r, t))
BY AppendTurnType DEF RoomCoherent, WrittenIn, BelongsTo

LEMMA RestoreCoherent ==
  ASSUME NEW r \in Room, NEW switched \in BOOLEAN, NEW prior \in Conversation, RoomCoherent(r),
         WrittenIn(prior.wire, prior.history), BelongsTo(prior.history, r.life, r.era)
  PROVE  RoomCoherent(RestoreFailedTurn(r, switched, prior))
BY RestoreFailedTurnType DEF RoomCoherent

LEMMA MutationCoherent ==
  ASSUME NEW r \in Room, NEW command \in Command \cup {NoCommand}, RoomCoherent(r)
  PROVE  RoomCoherent(Mutation(command, r))
BY MutationType, EmptyCoherent DEF RoomCoherent

\* No worker has a turn in flight that it had not before, or another turn.
TurnsKept == \A d \in Chats : InFlight(d)' => InFlight(d) /\ turn'[d] = turn[d]

LEMMA FinishKeepsTurns ==
  ASSUME TypeInv, NEW c \in Chats, Finish(c)
  PROVE  TurnsKept /\ ~InFlight(c)'
BY DEF TurnsKept, InFlight, Finish, Goto, TypeInv, TypeOK

LEMMA ContinueKeepsTurns ==
  ASSUME TypeInv, NEW c \in Chats, NEW label, Continue(c, label),
         label \in {"call", "commit", "fail"} => InFlight(c)
  PROVE  TurnsKept /\ pc'[c] = label
BY DEF TurnsKept, InFlight, Continue, Goto, TypeInv, TypeOK

\* Nothing about the conversations changes.
LEMMA NoRoomChange ==
  ASSUME ConversationInv, TurnsKept, UNCHANGED convVars
  PROVE  ConversationInv'
BY DEF ConversationInv, TurnsKept, convVars, InFlight, RoomCoherent, WrittenIn, TurnCoherent, SameRoom

\* One room is replaced: it must be coherent, not of an earlier life, and the
\* turn in flight for it, if there is one, must find it no earlier than before.
LEMMA OneRoomChange ==
  ASSUME TypeInv, ConversationInv, TurnsKept, NEW t \in Chats, NEW r \in Room, PutRoom(t, r),
         RoomCoherent(r), lives[t] <= r.life, InFlight(t)' => SameRoom(turn[t], r)
  PROVE  ConversationInv'
<1> USE DEF TypeInv, TypeOK
<1>1. \A d \in Chats \ {t} : rooms'[d] = rooms[d] /\ lives'[d] = lives[d]
  BY DEF PutRoom
<1>2. rooms'[t] = r /\ lives'[t] = r.life /\ r # NoRoom
  BY RoomConstants DEF PutRoom
<1>3. ASSUME NEW d \in Chats
      PROVE  rooms'[d] # NoRoom => rooms'[d].life = lives'[d] /\ RoomCoherent(rooms'[d])
  BY <1>1, <1>2 DEF ConversationInv
<1>4. ASSUME NEW d \in Chats, InFlight(d)'
      PROVE  /\ turn'[d].life <= lives'[d] /\ TurnCoherent(turn'[d])
             /\ rooms'[d] # NoRoom => SameRoom(turn'[d], rooms'[d])
  <2>1. InFlight(d) /\ turn'[d] = turn[d]
    BY <1>4 DEF TurnsKept
  <2>2. turn[d].life \in Nat /\ r.life \in Nat
    BY DEF Prepared, Room
  <2> QED
    BY <1>1, <1>2, <1>4, <2>1, <2>2 DEF ConversationInv
<1> QED
  BY <1>3, <1>4 DEF ConversationInv, InFlight, RoomCoherent, WrittenIn, TurnCoherent, SameRoom

LEMMA RoomRemoved ==
  ASSUME TypeInv, ConversationInv, TurnsKept, NEW t \in Chats, DropRoom(t)
  PROVE  ConversationInv'
<1>1. \A d \in Chats : lives'[d] = lives[d] /\ (rooms'[d] = NoRoom \/ rooms'[d] = rooms[d])
  BY DEF DropRoom, TypeInv, TypeOK
<1> QED
  BY <1>1 DEF ConversationInv, TurnsKept, InFlight, RoomCoherent, WrittenIn, TurnCoherent, SameRoom

\* The room a handler gets is coherent and of the latest life.
LEMMA RoomOrDefaultCoherent ==
  ASSUME TypeInv, ConversationInv, NEW c \in Chats
  PROVE  /\ RoomOrDefault(c) \in Room
         /\ RoomCoherent(RoomOrDefault(c))
         /\ lives[c] <= RoomOrDefault(c).life
         /\ InFlight(c) => SameRoom(turn[c], RoomOrDefault(c))
<1>1. CASE rooms[c] # NoRoom
  BY <1>1, RoomOrDefaultType DEF RoomOrDefault, ConversationInv, TypeInv, TypeOK
<1>2. CASE rooms[c] = NoRoom
  <2>1. RoomOrDefault(c) = NewRoom(lives[c] + 1) /\ lives[c] \in Nat
    BY <1>2 DEF RoomOrDefault, TypeInv, TypeOK
  <2>2. NewRoom(lives[c] + 1).history = <<>> /\ NewRoom(lives[c] + 1).life = lives[c] + 1
    BY DEF NewRoom
  <2>3. InFlight(c) => turn[c].life \in Nat /\ turn[c].life <= lives[c]
    BY DEF ConversationInv, TypeInv, TypeOK, Prepared
  <2> QED
    BY <2>1, <2>2, <2>3, NewRoomType, EmptyCoherent DEF SameRoom
<1> QED
  BY <1>1, <1>2

LEMMA InitConversation == Init => ConversationInv
BY DEF Init, ConversationInv, InFlight

\* A step that changes no room starts no turn in flight either.
LEMMA QuietStepKeepsTurns ==
  ASSUME TypeInv, NEW c \in Chats,
         \/ StartMessage(c) \/ StartCommand(c) \/ FetchFails(c) \/ FetchDone(c) \/ LockForTurn(c)
         \/ ProviderAnswers(c) \/ ProviderFails(c) \/ Answer(c) \/ Sent(c)
         \/ LockForRoute(c) \/ NewChatSent(c) \/ LockForMutation(c) \/ RoomSaved(c)
         \/ RoomSaveFails(c) \/ PinModel(c) \/ UnpinModel(c) \/ AllowInConfig(c) \/ CloseAccess(c)
         \/ ConfigSaved(c) \/ ConfigSaveFails(c) \/ Grant(c) \/ LockForSetup(c)
         \/ LockForPurge(c) \/ PurgeSaveEnds(c) \/ Die(c)
  PROVE  TurnsKept /\ UNCHANGED convVars
<1>1. CASE StartMessage(c) \/ FetchFails(c) \/ FetchDone(c) \/ LockForTurn(c)
  BY <1>1, FinishKeepsTurns, ContinueKeepsTurns
  DEF StartMessage, FetchFails, FetchDone, LockForTurn, LockConfig, Completes, convVars
<1>2. CASE ProviderAnswers(c) \/ ProviderFails(c) \/ Answer(c) \/ Sent(c)
  BY <1>2, FinishKeepsTurns, ContinueKeepsTurns
  DEF ProviderAnswers, ProviderFails, Answer, Sent, Completes, InFlight, convVars
<1>3. CASE LockForRoute(c) \/ NewChatSent(c) \/ LockForMutation(c) \/ RoomSaved(c) \/ RoomSaveFails(c)
  BY <1>3, FinishKeepsTurns, ContinueKeepsTurns
  DEF LockForRoute, NewChatSent, LockForMutation, RoomSaved, RoomSaveFails, LockConfig, LockTxn,
      convVars
<1>4. CASE StartCommand(c)
  BY <1>4 DEF StartCommand, Goto, TurnsKept, InFlight, TypeInv, TypeOK, convVars
<1>5. CASE PinModel(c) \/ UnpinModel(c)
  BY <1>5, FinishKeepsTurns
  DEF PinModel, UnpinModel, SaveConfig, Goto, TurnsKept, InFlight, TypeInv, TypeOK, convVars
<1>6. CASE AllowInConfig(c) \/ CloseAccess(c)
  BY <1>6
  DEF AllowInConfig, CloseAccess, SaveConfig, Goto, TurnsKept, InFlight, TypeInv, TypeOK, convVars
<1>7. CASE ConfigSaved(c) \/ ConfigSaveFails(c)
  <2> DEFINE label == CASE cmd[c].op = "allow" -> "grant"
                        [] cmd[c].op = "deny" -> "purge"
                        [] OTHER -> "mutate"
  <2>1. label \notin {"call", "commit", "fail"}
    OBVIOUS
  <2>2. Continue(c, label) \/ Finish(c)
    BY <1>7 DEF ConfigSaved, ConfigSaveFails
  <2>3. UNCHANGED convVars
    BY <1>7 DEF ConfigSaved, ConfigSaveFails
  <2> HIDE DEF label
  <2> QED
    BY <2>1, <2>2, <2>3, FinishKeepsTurns, ContinueKeepsTurns
<1>8. CASE Grant(c) \/ LockForSetup(c) \/ LockForPurge(c) \/ PurgeSaveEnds(c) \/ Die(c)
  BY <1>8, FinishKeepsTurns, ContinueKeepsTurns
  DEF Grant, LockForSetup, LockForPurge, PurgeSaveEnds, Die, LockConfig, LockTxn, convVars
<1> QED
  BY <1>1, <1>2, <1>3, <1>4, <1>5, <1>6, <1>7, <1>8

LEMMA QuietStepConversation ==
  ASSUME TypeInv, ConversationInv, NEW c \in Chats,
         \/ StartMessage(c) \/ StartCommand(c) \/ FetchFails(c) \/ FetchDone(c) \/ LockForTurn(c)
         \/ ProviderAnswers(c) \/ ProviderFails(c) \/ Answer(c) \/ Sent(c)
         \/ LockForRoute(c) \/ NewChatSent(c) \/ LockForMutation(c) \/ RoomSaved(c)
         \/ RoomSaveFails(c) \/ PinModel(c) \/ UnpinModel(c) \/ AllowInConfig(c) \/ CloseAccess(c)
         \/ ConfigSaved(c) \/ ConfigSaveFails(c) \/ Grant(c) \/ LockForSetup(c)
         \/ LockForPurge(c) \/ PurgeSaveEnds(c) \/ Die(c)
  PROVE  ConversationInv'
BY QuietStepKeepsTurns, NoRoomChange

\* A turn begins: what it sets aside is the room's history, and the room it
\* finds afterwards is the one it has just begun.
LEMMA BeginRoomTurnConversation ==
  ASSUME TypeInv, ConversationInv, NEW c \in Chats, BeginRoomTurn(c)
  PROVE  ConversationInv'
<1> DEFINE r == RoomOrDefault(c)
           model == SelectedModel(pin[c], r)
           begun == BeginTurn(r, WireOf[model])
           t == Capture(r, begun, model)
<1> USE DEF TypeInv, TypeOK
<1>1. r \in Room /\ RoomCoherent(r) /\ lives[c] <= r.life
  BY RoomOrDefaultCoherent
<1>2. WireOf[model] \in WireFormats
  BY <1>1, SelectedModelType, RoomConstants
<1>3. /\ begun \in Room /\ begun.wire = WireOf[model]
      /\ begun.life = r.life /\ begun.era = r.era
      /\ begun.history = <<>> \/ begun = r
  BY <1>1, <1>2, BeginTurnType
<1>4. RoomCoherent(begun)
  BY <1>1, <1>3, EmptyCoherent
<1>5. /\ t.gen = begun.gen /\ t.wire = begun.wire /\ t.life = begun.life /\ t.era = begun.era
      /\ t.prior.wire = r.wire /\ t.prior.history = r.history
  BY DEF Capture
<1>6. PutRoom(c, begun) /\ turn' = [turn EXCEPT ![c] = t] /\ pc' = [pc EXCEPT ![c] = "call"]
  BY DEF BeginRoomTurn, Goto
<1>7. TurnCoherent(t)
  BY <1>1, <1>3, <1>5 DEF TurnCoherent, RoomCoherent
<1>8. SameRoom(t, begun)
  BY <1>3, <1>5 DEF SameRoom, Room
<1>9. begun.life \in Nat /\ begun # NoRoom
  BY <1>3, RoomConstants DEF Room
<1> HIDE DEF r, model, begun, t
<1>10. rooms'[c] = begun /\ lives'[c] = begun.life /\ turn'[c] = t
  BY <1>6 DEF PutRoom
<1>11. ASSUME NEW d \in Chats \ {c}
       PROVE  rooms'[d] = rooms[d] /\ lives'[d] = lives[d] /\ turn'[d] = turn[d] /\ pc'[d] = pc[d]
  BY <1>6 DEF PutRoom
<1>12. t.life <= lives'[c]
  BY <1>3, <1>5, <1>9, <1>10
<1> QED
  BY <1>4, <1>7, <1>8, <1>10, <1>11, <1>12
  DEF ConversationInv, InFlight, RoomCoherent, WrittenIn, TurnCoherent, SameRoom

LEMMA CommitConversation ==
  ASSUME TypeInv, ConversationInv, NEW c \in Chats, Commit(c)
  PROVE  ConversationInv'
<1>1. CASE SameGeneration(c)
  <2> DEFINE r == rooms[c]
  <2>1. PICK size \in TurnSizes : PutRoom(c, AppendTurn(r, FinishedTurn(c, size)))
    BY <1>1 DEF Commit
  <2> DEFINE t == FinishedTurn(c, size)
             q == AppendTurn(r, t)
  <2>2. t \in Turn /\ t.life = turn[c].life /\ t.era = turn[c].era
    BY RoomConstants DEF FinishedTurn, Turn, TypeInv, TypeOK, Prepared
  <2>3. InFlight(c) /\ Continue(c, "answer")
    BY <1>1 DEF Commit, InFlight
  <2>4. r \in Room /\ r # NoRoom /\ r.gen = turn[c].gen
    BY <1>1 DEF SameGeneration, TypeInv, TypeOK
  <2>5. RoomCoherent(r) /\ r.life = lives[c] /\ turn[c].life <= r.life
        /\ (turn[c].life = r.life => turn[c].era = r.era)
    BY <2>3, <2>4 DEF ConversationInv, SameRoom
  <2>6. q \in Room /\ q.life = r.life /\ RoomCoherent(q)
    BY <2>2, <2>4, <2>5, AppendTurnType, AppendCoherent
  <2>7. TurnsKept /\ ~InFlight(c)'
    BY <2>3, ContinueKeepsTurns DEF InFlight
  <2>8. lives[c] <= r.life
    BY <2>5 DEF TypeInv, TypeOK
  <2> HIDE DEF r, t, q
  <2>9. PutRoom(c, q)
    BY <2>1 DEF q, t
  <2> QED
    BY <2>6, <2>7, <2>8, <2>9, OneRoomChange
<1>2. CASE ~SameGeneration(c)
  BY <1>2, FinishKeepsTurns, NoRoomChange DEF Commit
<1> QED
  BY <1>1, <1>2

LEMMA RestoreConversation ==
  ASSUME TypeInv, ConversationInv, NEW c \in Chats, RestoreAfterFailure(c)
  PROVE  ConversationInv'
<1>1. CASE SameGeneration(c)
  <2> DEFINE r == rooms[c]
             t == turn[c]
             q == RestoreFailedTurn(r, t.switched, t.prior)
  <2>1. PutRoom(c, q) /\ Continue(c, "answer") /\ InFlight(c)
    BY <1>1 DEF RestoreAfterFailure, InFlight
  <2>2. r \in Room /\ r # NoRoom /\ r.gen = t.gen
    BY <1>1 DEF SameGeneration, TypeInv, TypeOK
  <2>3. /\ t \in Prepared /\ t.prior \in Conversation /\ t.switched \in BOOLEAN
        /\ t.life \in Nat /\ t.era \in Nat /\ r.life \in Nat /\ r.era \in Nat
        /\ t.prior.history \in Seq(Turn)
    BY <2>2 DEF TypeInv, TypeOK, Prepared, Conversation, Room
  <2>4. RoomCoherent(r) /\ r.life = lives[c] /\ t.life <= r.life
        /\ (t.life = r.life => t.era = r.era) /\ TurnCoherent(t)
    BY <2>1, <2>2 DEF ConversationInv, SameRoom
  <2>5. BelongsTo(t.prior.history, r.life, r.era) /\ WrittenIn(t.prior.wire, t.prior.history)
    BY <2>3, <2>4, BelongsToLater DEF TurnCoherent
  <2>6. q \in Room /\ q.life = r.life /\ RoomCoherent(q)
    BY <2>2, <2>3, <2>4, <2>5, RestoreFailedTurnType, RestoreCoherent
  <2>7. TurnsKept /\ ~InFlight(c)'
    BY <2>1, ContinueKeepsTurns DEF InFlight
  <2>8. lives[c] <= r.life
    BY <2>4 DEF TypeInv, TypeOK
  <2> HIDE DEF r, t, q
  <2> QED
    BY <2>1, <2>6, <2>7, <2>8, OneRoomChange
<1>2. CASE ~SameGeneration(c)
  BY <1>2, FinishKeepsTurns, NoRoomChange DEF RestoreAfterFailure
<1> QED
  BY <1>1, <1>2

LEMMA RouteConversation ==
  ASSUME TypeInv, ConversationInv, NEW c \in Chats, Route(c)
  PROVE  ConversationInv'
<1>1. PutRoom(c, RoomOrDefault(c)) /\ ~InFlight(c)
  BY DEF Route, InFlight
<1>2. Finish(c) \/ \E label \in {"new", "config", "mutate"} : Continue(c, label)
  BY DEF Route
<1>3. TurnsKept
  BY <1>2, FinishKeepsTurns, ContinueKeepsTurns
<1>4. ~InFlight(c)'
  BY <1>1, <1>3 DEF TurnsKept
<1> QED
  BY <1>1, <1>3, <1>4, RoomOrDefaultCoherent, OneRoomChange

LEMMA NewChatConversation ==
  ASSUME TypeInv, ConversationInv, NEW c \in Chats, NewChat(c)
  PROVE  ConversationInv'
<1> DEFINE r == ResetHistory(RoomOrDefault(c))
<1>1. PutRoom(c, r) /\ Continue(c, "newSend")
  BY DEF NewChat
<1>2. r \in Room /\ RoomCoherent(r) /\ lives[c] <= r.life
  BY RoomOrDefaultCoherent, ResetHistoryType, EmptyCoherent
<1>3. TurnsKept /\ ~InFlight(c)'
  BY <1>1, ContinueKeepsTurns DEF InFlight
<1> QED
  BY <1>1, <1>2, <1>3, OneRoomChange

LEMMA MutateRoomConversation ==
  ASSUME TypeInv, ConversationInv, NEW c \in Chats, MutateRoom(c)
  PROVE  ConversationInv'
<1> DEFINE r == Mutation(cmd[c], RoomOrDefault(c))
<1>1. PutRoom(c, r)
  BY DEF MutateRoom
<1>2. cmd[c] \in Command \cup {NoCommand}
  BY CommandType DEF TypeInv, TypeOK
<1>3. r \in Room /\ RoomCoherent(r) /\ lives[c] <= r.life
  BY <1>2, RoomOrDefaultCoherent, MutationType, MutationCoherent
<1>4. TurnsKept /\ ~InFlight(c)'
  BY DEF MutateRoom, Goto, TurnsKept, InFlight, TypeInv, TypeOK
<1> QED
  BY <1>1, <1>3, <1>4, OneRoomChange

LEMMA RollbackConversation ==
  ASSUME TypeInv, ConversationInv, NEW c \in Chats, RollbackSettings(c)
  PROVE  ConversationInv'
<1>1. TurnsKept /\ ~InFlight(c)'
  BY FinishKeepsTurns DEF RollbackSettings
<1>2. CASE before[c] = NoRoom
  BY <1>1, <1>2, RoomRemoved DEF RollbackSettings
<1>3. CASE before[c] # NoRoom /\ rooms[c] = NoRoom
  BY <1>1, <1>3, NoRoomChange DEF RollbackSettings
<1>4. CASE before[c] # NoRoom /\ rooms[c] # NoRoom
  <2> DEFINE r == [rooms[c] EXCEPT !.settings = before[c]]
  <2>1. rooms[c] \in Room /\ before[c] \in Settings
    BY <1>4 DEF TypeInv, TypeOK
  <2>2. /\ r \in Room /\ r.wire = rooms[c].wire /\ r.history = rooms[c].history
        /\ r.life = rooms[c].life /\ r.era = rooms[c].era
    BY <2>1, SettingsType
  <2>3. RoomCoherent(rooms[c]) /\ rooms[c].life = lives[c]
    BY <1>4 DEF ConversationInv
  <2>4. PutRoom(c, r)
    BY <1>4 DEF RollbackSettings
  <2> HIDE DEF r
  <2>5. RoomCoherent(r)
    BY <2>2, <2>3 DEF RoomCoherent
  <2>6. lives[c] <= r.life
    BY <2>2, <2>3 DEF TypeInv, TypeOK
  <2> QED
    BY <1>1, <2>2, <2>4, <2>5, <2>6, OneRoomChange
<1> QED
  BY <1>2, <1>3, <1>4

\* The setup message of /allow may reach a chat with a turn in flight.
LEMMA SetUpRoomConversation ==
  ASSUME TypeInv, ConversationInv, NEW c \in Chats, SetUpRoom(c)
  PROVE  ConversationInv'
<1>1. PICK t \in Chats : t = cmd[c].chat
  BY CommandType DEF SetUpRoom, CommandOK, TypeInv
<1>2. PutRoom(t, RoomOrDefault(t)) /\ TurnsKept
  BY <1>1, FinishKeepsTurns DEF SetUpRoom
<1>3. InFlight(t)' => InFlight(t)
  BY <1>1, <1>2 DEF TurnsKept
<1> QED
  BY <1>1, <1>2, <1>3, RoomOrDefaultCoherent, OneRoomChange

LEMMA PurgeRoomConversation ==
  ASSUME TypeInv, ConversationInv, NEW c \in Chats, PurgeRoom(c)
  PROVE  ConversationInv'
<1>1. cmd[c].chat \in Chats
  BY CommandType DEF PurgeRoom, CommandOK, TypeInv
<1>2. DropRoom(cmd[c].chat) /\ TurnsKept
  BY ContinueKeepsTurns DEF PurgeRoom
<1> QED
  BY <1>1, <1>2, RoomRemoved

\* A reset from the terminal finds turns in flight: it leaves them behind with
\* an older generation.
LEMMA TerminalResetConversation ==
  ASSUME TypeInv, ConversationInv, TerminalReset
  PROVE  ConversationInv'
<1>1. UNCHANGED <<lives, turn, pc>>
  BY DEF TerminalReset
<1>2. ASSUME NEW d \in Chats, rooms'[d] # NoRoom
      PROVE  /\ rooms[d] # NoRoom /\ rooms'[d].life = rooms[d].life /\ RoomCoherent(rooms'[d])
             /\ rooms'[d].gen = rooms[d].gen + 1
  BY <1>2, ResetHistoryType, EmptyCoherent DEF TerminalReset, TypeInv, TypeOK
<1>3. ASSUME NEW d \in Chats, rooms'[d] # NoRoom, InFlight(d)
      PROVE  SameRoom(turn[d], rooms'[d])
  <2>1. SameRoom(turn[d], rooms[d])
    BY <1>2, <1>3 DEF ConversationInv
  <2>2. turn[d].gen \in Nat /\ rooms[d].gen \in Nat
    BY <1>2, <1>3 DEF TypeInv, TypeOK, Prepared, Room
  <2> QED
    BY <1>2, <1>3, <2>1, <2>2 DEF SameRoom
<1> QED
  BY <1>1, <1>2, <1>3
  DEF ConversationInv, InFlight, RoomCoherent, WrittenIn, TurnCoherent, SameRoom

LEMMA ConversationStep == TypeInv /\ ConversationInv /\ [Next]_vars => ConversationInv'
<1> SUFFICES ASSUME TypeInv, ConversationInv, [Next]_vars PROVE ConversationInv'
  OBVIOUS
<1>1. ASSUME NEW c \in Chats, ModelTurn(c) PROVE ConversationInv'
  BY <1>1, QuietStepConversation, BeginRoomTurnConversation, CommitConversation, RestoreConversation
  DEF ModelTurn
<1>2. ASSUME NEW c \in Chats, RoomCommand(c) PROVE ConversationInv'
  BY <1>2, QuietStepConversation, RouteConversation, NewChatConversation, MutateRoomConversation,
     RollbackConversation
  DEF RoomCommand
<1>3. ASSUME NEW c \in Chats, ConfigCommand(c) PROVE ConversationInv'
  BY <1>3, QuietStepConversation, SetUpRoomConversation, PurgeRoomConversation DEF ConfigCommand
<1>4. ASSUME NEW c \in Chats, StartMessage(c) \/ StartCommand(c) \/ Die(c) PROVE ConversationInv'
  BY <1>4, QuietStepConversation
<1>5. CASE UNCHANGED vars
  BY <1>5 DEF vars, ConversationInv, InFlight, RoomCoherent, WrittenIn, TurnCoherent, SameRoom
<1> QED
  BY <1>1, <1>2, <1>3, <1>4, <1>5, TerminalResetConversation DEF Next, Worker, Rest

LEMMA Conversations == Spec => [](TypeInv /\ ConversationInv)
BY InitType, InitConversation, TypeStep, ConversationStep, PTL DEF Spec

\* No history is ever of two wire formats, or of one its room does not have:
\* nothing a provider produced is replayed to a provider of another format.
THEOREM FormatsNeverMix == Spec => []OneWireFormat
<1>1. ConversationInv => OneWireFormat
  BY DEF ConversationInv, RoomCoherent, OneWireFormat
<1> QED
  BY <1>1, Conversations, PTL

\* A reset is final: no turn begun before it is in the history after it,
\* however late the answer and however often the room changed format since.
THEOREM ResetIsFinal == Spec => []NoResurrectedTurn
<1>1. ConversationInv => NoResurrectedTurn
  BY DEF ConversationInv, RoomCoherent, BelongsTo, NoResurrectedTurn
<1> QED
  BY <1>1, Conversations, PTL

-----------------------------------------------------------------------------
(* The config lock is held from taking it to saving the config. *)

HoldsConfig(c) == pc[c] \in {"beginLocked", "routeLocked", "setupLocked", "configSave"}

ConfigLockInv == \A c \in Chats : HoldsConfig(c) => configLock = c

LEMMA ConfigLockStep == TypeInv /\ ConfigLockInv /\ [Next]_vars => ConfigLockInv'
<1> SUFFICES ASSUME TypeInv, ConfigLockInv, [Next]_vars PROVE ConfigLockInv'
  OBVIOUS
<1> USE ChatConstants DEF ConfigLockInv, HoldsConfig, TypeInv, TypeOK, Goto, Continue, Finish
<1>1. ASSUME NEW c \in Chats, ModelTurn(c) \/ StartMessage(c) \/ StartCommand(c) PROVE ConfigLockInv'
  <2>1. CASE FetchFails(c) \/ FetchDone(c) \/ Answer(c) \/ Sent(c) \/ StartMessage(c) \/ StartCommand(c)
    BY <2>1 DEF FetchFails, FetchDone, Answer, Sent, StartMessage, StartCommand, Completes, lockVars
  <2>2. CASE LockForTurn(c) \/ BeginRoomTurn(c)
    BY <2>2 DEF LockForTurn, LockConfig, BeginRoomTurn
  <2>3. CASE ProviderAnswers(c) \/ ProviderFails(c) \/ Commit(c) \/ RestoreAfterFailure(c)
    BY <2>3 DEF ProviderAnswers, ProviderFails, Commit, RestoreAfterFailure, Completes, lockVars
  <2> QED
    BY <1>1, <2>1, <2>2, <2>3 DEF ModelTurn
<1>2. ASSUME NEW c \in Chats, RoomCommand(c) PROVE ConfigLockInv'
  <2>1. CASE LockForRoute(c) \/ NewChat(c) \/ NewChatSent(c) \/ LockForMutation(c)
    BY <2>1 DEF LockForRoute, LockConfig, NewChat, NewChatSent, LockForMutation, LockTxn, Completes
  <2>2. CASE Route(c)
    <3>1. configLock' = Nobody /\ configLock = c
      BY <2>2 DEF Route
    <3>2. Finish(c) \/ \E label \in {"new", "config", "mutate"} : Continue(c, label)
      BY <2>2 DEF Route
    <3> QED
      BY <3>1, <3>2
  <2>3. CASE MutateRoom(c) \/ RoomSaved(c) \/ RoomSaveFails(c) \/ RollbackSettings(c)
    BY <2>3 DEF MutateRoom, RoomSaved, RoomSaveFails, RollbackSettings, Completes, lockVars
  <2> QED
    BY <1>2, <2>1, <2>2, <2>3 DEF RoomCommand
<1>3. ASSUME NEW c \in Chats, ConfigCommand(c) PROVE ConfigLockInv'
  <2>1. CASE PinModel(c) \/ UnpinModel(c) \/ AllowInConfig(c) \/ CloseAccess(c)
    BY <2>1 DEF PinModel, UnpinModel, AllowInConfig, CloseAccess, AtConfig, SaveConfig
  <2>2. CASE ConfigSaved(c)
    <3>1. configLock' = Nobody /\ configLock = c
      BY <2>2 DEF ConfigSaved, Completes
    <3>2. \E label : label \notin {"beginLocked", "routeLocked", "setupLocked", "configSave"}
                     /\ Continue(c, label)
      BY <2>2 DEF ConfigSaved
    <3> QED
      BY <3>1, <3>2
  <2>3. CASE ConfigSaveFails(c) \/ Grant(c)
    BY <2>3 DEF ConfigSaveFails, Grant, Completes, lockVars
  <2>4. CASE LockForSetup(c) \/ SetUpRoom(c) \/ LockForPurge(c)
    BY <2>4 DEF LockForSetup, LockConfig, SetUpRoom, LockForPurge, LockTxn
  <2>5. CASE PurgeRoom(c) \/ PurgeSaveEnds(c)
    BY <2>5 DEF PurgeRoom, PurgeSaveEnds, Completes, lockVars
  <2> QED
    BY <1>3, <2>1, <2>2, <2>3, <2>4, <2>5 DEF ConfigCommand
<1>4. ASSUME NEW c \in Chats, Die(c) PROVE ConfigLockInv'
  BY <1>4 DEF Die, ReleaseOf
<1>5. CASE TerminalReset \/ UNCHANGED vars
  BY <1>5 DEF TerminalReset, vars, lockVars
<1> QED
  BY <1>1, <1>2, <1>3, <1>4, <1>5 DEF Next, Worker, Rest

\* Only /deny aborts a worker, and it needs the config lock, which a worker
\* keeps while its own change of the config is being saved.
THEOREM ConfigSavesRunOn == Spec => DenyNeverInterruptsConfigSave
<1> DEFINE Spares == \A c \in Chats : pc[c] = "configSave" => (aborted'[c] => aborted[c])
<1>1. TypeInv /\ ConfigLockInv /\ [Next]_vars => [Spares]_vars
  <2> SUFFICES ASSUME TypeInv, ConfigLockInv, Next PROVE Spares
    BY DEF vars
  <2> USE DEF TypeInv, TypeOK
  <2>1. ASSUME NEW c \in Chats, CloseAccess(c) PROVE Spares
    <3>1. \A d \in Chats : pc[d] # "configSave"
      BY <2>1, ChatConstants DEF CloseAccess, AtConfig, ConfigLockInv, HoldsConfig
    <3> QED
      BY <3>1
  <2>2. ASSUME UNCHANGED aborted \/ \E c \in Chats : Finish(c) \/ \E label : Continue(c, label)
        PROVE  Spares
    BY <2>2 DEF Finish, Continue
  <2>3. ASSUME NEW c \in Chats, ModelTurn(c) \/ StartMessage(c) \/ StartCommand(c)
        PROVE  UNCHANGED aborted \/ Finish(c) \/ \E label : Continue(c, label)
    BY <2>3 DEF ModelTurn, StartMessage, StartCommand, FetchFails, FetchDone, LockForTurn, LockConfig,
       BeginRoomTurn, ProviderAnswers, ProviderFails, Commit, RestoreAfterFailure, Answer, Sent, flagVars
  <2>4. ASSUME NEW c \in Chats, RoomCommand(c)
        PROVE  UNCHANGED aborted \/ Finish(c) \/ \E label : Continue(c, label)
    BY <2>4 DEF RoomCommand, LockForRoute, LockConfig, Route, NewChat, NewChatSent, LockForMutation,
       LockTxn, MutateRoom, RoomSaved, RoomSaveFails, RollbackSettings, flagVars
  <2>5. ASSUME NEW c \in Chats, ConfigCommand(c), ~CloseAccess(c)
        PROVE  UNCHANGED aborted \/ Finish(c) \/ \E label : Continue(c, label)
    BY <2>5 DEF ConfigCommand, PinModel, UnpinModel, AllowInConfig, ConfigSaved, ConfigSaveFails, Grant,
       LockForSetup, LockConfig, SetUpRoom, LockForPurge, LockTxn, PurgeRoom, PurgeSaveEnds, flagVars
  <2>6. CASE TerminalReset \/ Rest \/ \E c \in Chats : Die(c)
    BY <2>2, <2>6 DEF TerminalReset, Rest, Die, flagVars, vars
  <2> QED
    BY <2>1, <2>2, <2>3, <2>4, <2>5, <2>6 DEF Next, Worker
<1>2. Init => ConfigLockInv
  BY DEF Init, ConfigLockInv, HoldsConfig
<1> QED
  BY <1>1, <1>2, InitType, TypeStep, ConfigLockStep, PTL
  DEF Spec, DenyNeverInterruptsConfigSave

-----------------------------------------------------------------------------
(* The order of the three locks.                                             *)

HoldsRooms(c) == pc[c] = "newSend"
HoldsTxn(c) == pc[c] \in {"mutating", "roomSave", "rollback", "purging", "purgeSave"}

\* A lock is held by exactly the worker that has taken it and not yet given it back;
\* an aborted worker takes none with it.
LocksHeld ==
  \A c \in Chats : /\ configLock = c <=> HoldsConfig(c)
                   /\ roomsLock = c <=> HoldsRooms(c)
                   /\ txnLock = c <=> HoldsTxn(c)

\* Who holds the config lock or the transaction lock waits for the rooms lock at most,
\* and who holds the rooms lock for the network only.
LockOrder ==
  /\ configLock # Nobody => pc[configLock] \in Suspended \cup WaitsForRooms
  /\ txnLock # Nobody => pc[txnLock] \in Suspended \cup WaitsForRooms
  /\ roomsLock # Nobody => pc[roomsLock] \in Suspended

\* Each step moves one worker past taking a lock, or past giving it back, together with
\* that lock, or does neither.
LEMMA LocksStep == TypeInv /\ LocksHeld /\ [Next]_vars => LocksHeld'
<1> SUFFICES ASSUME TypeInv, LocksHeld, [Next]_vars PROVE LocksHeld'
  OBVIOUS
<1> USE ChatConstants DEF LocksHeld, HoldsConfig, HoldsRooms, HoldsTxn, TypeInv, TypeOK,
      Goto, Continue, Finish
<1>1. ASSUME NEW c \in Chats, ModelTurn(c) \/ StartMessage(c) \/ StartCommand(c) PROVE LocksHeld'
  <2>1. CASE FetchFails(c) \/ FetchDone(c) \/ Answer(c) \/ Sent(c)
    BY <2>1 DEF FetchFails, FetchDone, Answer, Sent, Completes, lockVars
  <2>2. CASE StartMessage(c) \/ StartCommand(c)
    BY <2>2 DEF StartMessage, StartCommand, Completes, lockVars
  <2>3. CASE LockForTurn(c)
    BY <2>3 DEF LockForTurn, LockConfig, Completes, lockVars
  <2>4. CASE BeginRoomTurn(c)
    BY <2>4 DEF BeginRoomTurn, Completes, lockVars
  <2>5. CASE ProviderAnswers(c) \/ ProviderFails(c)
    BY <2>5 DEF ProviderAnswers, ProviderFails, Completes, lockVars
  <2>6. CASE Commit(c) \/ RestoreAfterFailure(c)
    BY <2>6 DEF Commit, RestoreAfterFailure, Completes, lockVars
  <2> QED
    BY <1>1, <2>1, <2>2, <2>3, <2>4, <2>5, <2>6 DEF ModelTurn
<1>2. ASSUME NEW c \in Chats, RoomCommand(c) PROVE LocksHeld'
  <2>1. CASE LockForRoute(c) \/ LockForMutation(c)
    BY <2>1 DEF LockForRoute, LockForMutation, LockConfig, LockTxn, Completes, lockVars
  <2>2. CASE Route(c)
    BY <2>2 DEF Route, Completes, lockVars
  <2>3. CASE NewChat(c) \/ NewChatSent(c)
    BY <2>3 DEF NewChat, NewChatSent, Completes, lockVars
  <2>4. CASE MutateRoom(c) \/ RoomSaved(c)
    BY <2>4 DEF MutateRoom, RoomSaved, Completes, lockVars
  <2>5. CASE RoomSaveFails(c) \/ RollbackSettings(c)
    BY <2>5 DEF RoomSaveFails, RollbackSettings, Completes, lockVars
  <2> QED
    BY <1>2, <2>1, <2>2, <2>3, <2>4, <2>5 DEF RoomCommand
<1>3. ASSUME NEW c \in Chats, ConfigCommand(c) PROVE LocksHeld'
  <2>1. CASE PinModel(c) \/ UnpinModel(c)
    BY <2>1 DEF PinModel, UnpinModel, AtConfig, SaveConfig, Completes, lockVars
  <2>2. CASE AllowInConfig(c)
    BY <2>2 DEF AllowInConfig, AtConfig, SaveConfig, Completes, lockVars
  <2>3. CASE CloseAccess(c)
    BY <2>3 DEF CloseAccess, AtConfig, SaveConfig, Completes, lockVars
  <2>4. CASE ConfigSaved(c)
    BY <2>4 DEF ConfigSaved, Completes, lockVars
  <2>5. CASE ConfigSaveFails(c) \/ Grant(c)
    BY <2>5 DEF ConfigSaveFails, Grant, Completes, lockVars
  <2>6. CASE LockForSetup(c) \/ LockForPurge(c)
    BY <2>6 DEF LockForSetup, LockForPurge, LockConfig, LockTxn, Completes, lockVars
  <2>7. CASE SetUpRoom(c)
    BY <2>7 DEF SetUpRoom, Completes, lockVars
  <2>8. CASE PurgeRoom(c) \/ PurgeSaveEnds(c)
    BY <2>8 DEF PurgeRoom, PurgeSaveEnds, Completes, lockVars
  <2> QED
    BY <1>3, <2>1, <2>2, <2>3, <2>4, <2>5, <2>6, <2>7, <2>8 DEF ConfigCommand
<1>4. ASSUME NEW c \in Chats, Die(c) PROVE LocksHeld'
  BY <1>4 DEF Die, ReleaseOf
<1>5. CASE TerminalReset \/ UNCHANGED vars
  BY <1>5 DEF TerminalReset, vars, lockVars
<1> QED
  BY <1>1, <1>2, <1>3, <1>4, <1>5 DEF Next, Worker, Rest

\* LockOrder: no ring of workers waits for one another's locks, whatever commands, turns,
\* failed saves and aborts come together.  This is why a worker that waits for a lock is
\* let in as soon as requests and disk writes return.
THEOREM LocksAreOrdered == Spec => []LockOrder
<1>1. Init => LocksHeld
  BY ChatConstants DEF Init, LocksHeld, HoldsConfig, HoldsRooms, HoldsTxn
<1>2. TypeInv /\ LocksHeld => LockOrder
  BY DEF TypeInv, TypeOK, LocksHeld, HoldsConfig, HoldsRooms, HoldsTxn, LockOrder, Suspended, WaitsForRooms
<1> QED
  BY <1>1, <1>2, InitType, TypeStep, LocksStep, PTL DEF Spec

-----------------------------------------------------------------------------
(* What a turn finds when it ends.  While a provider call is under way only  *)
(* a reset changes the room of that life, and every reset is a new era with  *)
(* a new generation.  So within the era of the turn the generation is the    *)
(* turn's own, and a room that kept its format kept its history.  In message *)
(* mode, what a failed turn or a failed save may put back is one exchange at *)
(* most, because the mode changes only with the history emptied.             *)

Undisturbed(t, r) ==
  t.life = r.life =>
    /\ t.era <= r.era
    /\ t.era = r.era => t.gen = r.gen
    /\ t.gen <= r.gen
    /\ t.gen = r.gen /\ ~t.switched => r.wire = t.prior.wire /\ r.history = t.prior.history

\* At most one exchange, if these settings ask for it.
Latest(settings, history) == settings.mode = "message" => Len(history) <= 1

Saving(c) == pc[c] \in {"roomSave", "rollback"} /\ before[c] # NoRoom

FoundInv ==
  \A c \in Chats : rooms[c] # NoRoom =>
    /\ Latest(rooms[c].settings, rooms[c].history)
    /\ InFlight(c) => /\ Undisturbed(turn[c], rooms[c])
                      /\ Latest(rooms[c].settings, turn[c].prior.history)
    /\ Saving(c) => Latest(before[c], rooms[c].history)

LEMMA EmptyLatest == \A settings : Latest(settings, <<>>)
<1>1. Len(<<>>) = 0
  OBVIOUS
<1> QED
  BY <1>1 DEF Latest

\* Pruning never lengthens a history.
LEMMA PrunedShorter ==
  ASSUME NEW S, NEW h \in Seq(S)
  PROVE  Len(Pruned(h)) \in Nat /\ Len(Pruned(h)) <= Len(h)
<1> DEFINE over == {i \in 1 .. Len(h) : ~FitsFrom(h, i)}
           k == Cardinality(over)
<1>1. Len(h) \in Nat
  OBVIOUS
<1>2. IsFiniteSet(over)
  <2>1. IsFiniteSet(1 .. Len(h))
    BY <1>1, FS_Interval
  <2> QED
    BY <2>1, FS_Subset
<1>3. k \in Nat
  BY <1>2, FS_CardinalityType
<1>4. Pruned(h) = SubSeq(h, k + 1, Len(h))
  BY DEF Pruned
<1> HIDE DEF k
<1>5. \A i \in (k + 1) .. Len(h) : h[i] \in S
  BY <1>3
<1> QED
  BY <1>1, <1>3, <1>4, <1>5

\* The operations leave the settings alone, and message mode keeps one exchange.
LEMMA OperationsKeepSettings ==
  ASSUME NEW r \in Room
  PROVE  /\ ResetHistory(r).settings = r.settings
         /\ \A wire \in WireFormats : BeginTurn(r, wire).settings = r.settings
         /\ \A switched \in BOOLEAN, prior \in Conversation :
              /\ RestoreFailedTurn(r, switched, prior).settings = r.settings
              /\ switched => /\ RestoreFailedTurn(r, switched, prior).wire = prior.wire
                             /\ RestoreFailedTurn(r, switched, prior).history = prior.history
<1> DEFINE q == InvalidateHistory(r)
<1>1. q \in Room /\ q.settings = r.settings
  BY InvalidateHistoryType
<1>2. ResetHistory(r) = [q EXCEPT !.era = @ + 1]
  BY DEF ResetHistory
<1>3. \A wire : BeginTurn(r, wire) = IF r.wire = wire THEN r ELSE [q EXCEPT !.wire = wire]
  BY DEF BeginTurn
<1> HIDE DEF q
<1>4. ResetHistory(r).settings = r.settings
  BY <1>1, <1>2 DEF Room
<1>5. ASSUME NEW wire \in WireFormats PROVE BeginTurn(r, wire).settings = r.settings
  BY <1>1, <1>3 DEF Room
<1>6. ASSUME NEW switched \in BOOLEAN, NEW prior \in Conversation
      PROVE  /\ RestoreFailedTurn(r, switched, prior).settings = r.settings
             /\ switched => /\ RestoreFailedTurn(r, switched, prior).wire = prior.wire
                            /\ RestoreFailedTurn(r, switched, prior).history = prior.history
  <2> DEFINE w == [r EXCEPT !.wire = prior.wire]
             h == [w EXCEPT !.history = prior.history]
  <2>1. w \in Room /\ w.settings = r.settings /\ w.wire = prior.wire
    BY DEF Room, Conversation
  <2>2. RestoreFailedTurn(r, switched, prior) = IF switched THEN [h EXCEPT !.gen = r.gen + 1] ELSE r
    BY DEF RestoreFailedTurn
  <2> HIDE DEF w
  <2>3. h \in Room /\ h.settings = r.settings /\ h.wire = prior.wire /\ h.history = prior.history
    BY <2>1 DEF Room, Conversation
  <2> HIDE DEF h
  <2> QED
    BY <2>2, <2>3 DEF Room
<1> QED
  BY <1>4, <1>5, <1>6

LEMMA PushLatest ==
  ASSUME NEW r \in Room, NEW t \in Turn
  PROVE  /\ PushTurn(r, t).settings = r.settings
         /\ Latest(r.settings, PushTurn(r, t).history)
<1> DEFINE h == IF r.settings.mode = "message" THEN <<t>> ELSE Append(r.history, t)
           p == Pruned(h)
<1>1. h \in Seq(Turn)
  BY DEF Room
<1>2. r.settings.mode = "message" => Len(h) = 1
  OBVIOUS
<1>3. PushTurn(r, t) = [r EXCEPT !.history = p]
  BY DEF PushTurn, Room
<1> HIDE DEF h
<1>4. Len(p) \in Nat /\ Len(p) <= Len(h) /\ p \in Seq(Turn)
  BY <1>1, PrunedShorter, PrunedType
<1> HIDE DEF p
<1>5. PushTurn(r, t).settings = r.settings /\ PushTurn(r, t).history = p
  BY <1>3, <1>4 DEF Room
<1> QED
  BY <1>2, <1>4, <1>5 DEF Latest

LEMMA AppendLatest ==
  ASSUME NEW r \in Room, NEW t \in Turn
  PROVE  /\ AppendTurn(r, t).settings = r.settings
         /\ Latest(r.settings, AppendTurn(r, t).history)
<1>1. CASE r.wire = t.wire
  BY <1>1, PushLatest DEF AppendTurn
<1>2. CASE r.wire # t.wire
  <2> DEFINE e == InvalidateHistory(r)
             q == [e EXCEPT !.wire = t.wire]
  <2>1. e \in Room /\ e.settings = r.settings
    BY InvalidateHistoryType
  <2>2. AppendTurn(r, t) = PushTurn(q, t)
    BY <1>2 DEF AppendTurn
  <2>3. t.wire \in WireFormats
    BY DEF Turn
  <2> HIDE DEF e
  <2>4. q \in Room /\ q.settings = r.settings
    BY <2>1, <2>3 DEF Room
  <2> HIDE DEF q
  <2> QED
    BY <2>2, <2>4, PushLatest
<1> QED
  BY <1>1, <1>2

\* A command leaves message mode on only with an empty history.
LEMMA MutationLatest ==
  ASSUME NEW r \in Room, NEW command \in Command \cup {NoCommand}
  PROVE  Latest(Mutation(command, r).settings, Mutation(command, r).history)
<1> DEFINE m == Mutation(command, r)
<1>1. CASE command.op = "mode"
  <2> DEFINE q == [r EXCEPT !.settings.mode = command.mode]
  <2>1. command.mode \in Modes
    BY <1>1 DEF Command, NoCommand
  <2>2. q \in Room /\ q.settings.mode = command.mode
    BY <2>1 DEF Room, Settings
  <2>3. m = IF command.mode = "message" THEN ResetHistory(q) ELSE q
    BY <1>1 DEF Mutation
  <2> HIDE DEF q
  <2> QED
    BY <2>2, <2>3, ResetHistoryType, EmptyLatest DEF Latest
<1>2. CASE command.op # "mode"
  <2>1. [r EXCEPT !.wire = NoWire] \in Room
    BY DEF Room
  <2>2. CASE command.op = "model"
    <3> DEFINE q == [[r EXCEPT !.settings.model = command.model] EXCEPT !.wire = NoWire]
    <3>1. command.model \in Models
      BY <2>2 DEF Command, NoCommand
    <3>2. q \in Room
      BY <3>1 DEF Room, Settings
    <3>3. m = ResetHistory(q)
      BY <2>2 DEF Mutation, ResetRoomModelContext
    <3> HIDE DEF q
    <3> QED
      BY <3>2, <3>3, ResetHistoryType, EmptyLatest
  <2>3. CASE command.op = "role"
    <3> DEFINE q == [r EXCEPT !.settings.role = command.role]
    <3>1. command.role \in Roles \cup {NoRole}
      BY <2>3 DEF Command, NoCommand
    <3>2. q \in Room
      BY <3>1 DEF Room, Settings
    <3>3. m = ResetHistory(q)
      BY <2>3 DEF Mutation
    <3> HIDE DEF q
    <3> QED
      BY <3>2, <3>3, ResetHistoryType, EmptyLatest
  <2>4. CASE command.op \notin {"mode", "model", "role"}
    <3>1. m = ResetHistory([r EXCEPT !.wire = NoWire])
      BY <2>4 DEF Mutation, ResetRoomModelContext
    <3> QED
      BY <2>1, <3>1, ResetHistoryType, EmptyLatest
  <2> QED
    BY <1>2, <2>2, <2>3, <2>4
<1> QED
  BY <1>1, <1>2

\* Nobody begins to change settings, or remembers others than before.
SavesKept == \A d \in Chats : Saving(d)' => Saving(d) /\ before'[d] = before[d]

LEMMA FinishKeepsSaves ==
  ASSUME TypeInv, NEW c \in Chats, Finish(c)
  PROVE  SavesKept /\ ~Saving(c)'
BY DEF SavesKept, Saving, Finish, Goto, TypeInv, TypeOK

LEMMA ContinueKeepsSaves ==
  ASSUME TypeInv, NEW c \in Chats, NEW label, Continue(c, label),
         label \in {"roomSave", "rollback"} => pc[c] \in {"roomSave", "rollback"}
  PROVE  SavesKept
BY DEF SavesKept, Saving, Continue, Goto, TypeInv, TypeOK

LEMMA QuietStepKeepsSaves ==
  ASSUME TypeInv, NEW c \in Chats,
         \/ StartMessage(c) \/ StartCommand(c) \/ FetchFails(c) \/ FetchDone(c) \/ LockForTurn(c)
         \/ ProviderAnswers(c) \/ ProviderFails(c) \/ Answer(c) \/ Sent(c)
         \/ LockForRoute(c) \/ NewChatSent(c) \/ LockForMutation(c) \/ RoomSaved(c)
         \/ RoomSaveFails(c) \/ PinModel(c) \/ UnpinModel(c) \/ AllowInConfig(c) \/ CloseAccess(c)
         \/ ConfigSaved(c) \/ ConfigSaveFails(c) \/ Grant(c) \/ LockForSetup(c)
         \/ LockForPurge(c) \/ PurgeSaveEnds(c) \/ Die(c)
  PROVE  SavesKept
<1>1. CASE StartMessage(c) \/ FetchFails(c) \/ FetchDone(c) \/ LockForTurn(c)
  BY <1>1, FinishKeepsSaves, ContinueKeepsSaves
  DEF StartMessage, FetchFails, FetchDone, LockForTurn, LockConfig
<1>2. CASE ProviderAnswers(c) \/ ProviderFails(c) \/ Answer(c) \/ Sent(c)
  BY <1>2, FinishKeepsSaves, ContinueKeepsSaves
  DEF ProviderAnswers, ProviderFails, Answer, Sent
<1>3. CASE LockForRoute(c) \/ NewChatSent(c) \/ LockForMutation(c) \/ RoomSaved(c) \/ RoomSaveFails(c)
  BY <1>3, FinishKeepsSaves, ContinueKeepsSaves
  DEF LockForRoute, NewChatSent, LockForMutation, RoomSaved, RoomSaveFails, LockConfig, LockTxn,
      Completes
<1>4. CASE StartCommand(c)
  BY <1>4 DEF StartCommand, Goto, SavesKept, Saving, TypeInv, TypeOK
<1>5. CASE PinModel(c) \/ UnpinModel(c)
  BY <1>5, FinishKeepsSaves
  DEF PinModel, UnpinModel, SaveConfig, Goto, SavesKept, Saving, TypeInv, TypeOK
<1>6. CASE AllowInConfig(c) \/ CloseAccess(c)
  BY <1>6
  DEF AllowInConfig, CloseAccess, SaveConfig, Goto, SavesKept, Saving, TypeInv, TypeOK
<1>7. CASE ConfigSaved(c) \/ ConfigSaveFails(c)
  <2> DEFINE label == CASE cmd[c].op = "allow" -> "grant"
                        [] cmd[c].op = "deny" -> "purge"
                        [] OTHER -> "mutate"
  <2>1. label \notin {"roomSave", "rollback"}
    OBVIOUS
  <2>2. Continue(c, label) \/ Finish(c)
    BY <1>7 DEF ConfigSaved, ConfigSaveFails
  <2> HIDE DEF label
  <2> QED
    BY <2>1, <2>2, FinishKeepsSaves, ContinueKeepsSaves
<1>8. CASE Grant(c) \/ LockForSetup(c) \/ LockForPurge(c) \/ PurgeSaveEnds(c) \/ Die(c)
  BY <1>8, FinishKeepsSaves, ContinueKeepsSaves
  DEF Grant, LockForSetup, LockForPurge, PurgeSaveEnds, Die, LockConfig, LockTxn
<1> QED
  BY <1>1, <1>2, <1>3, <1>4, <1>5, <1>6, <1>7, <1>8

\* Rooms stay as they are, or go.
LEMMA FoundLess ==
  ASSUME FoundInv, TurnsKept, SavesKept,
         \A d \in Chats : rooms'[d] = NoRoom \/ rooms'[d] = rooms[d]
  PROVE  FoundInv'
BY DEF FoundInv, TurnsKept, SavesKept, InFlight, Saving, Undisturbed, Latest

\* One room is replaced.
LEMMA FoundChange ==
  ASSUME TypeInv, FoundInv, TurnsKept, NEW x \in Chats, NEW r \in Room, PutRoom(x, r),
         \A d \in Chats \ {x} : Saving(d)' => Saving(d) /\ before'[d] = before[d],
         Latest(r.settings, r.history),
         InFlight(x)' => Undisturbed(turn[x], r) /\ Latest(r.settings, turn[x].prior.history),
         Saving(x)' => Latest(before'[x], r.history)
  PROVE  FoundInv'
<1>1. rooms'[x] = r /\ \A d \in Chats \ {x} : rooms'[d] = rooms[d]
  BY DEF PutRoom, TypeInv, TypeOK
<1>2. ASSUME NEW d \in Chats, rooms'[d] # NoRoom
      PROVE  /\ Latest(rooms'[d].settings, rooms'[d].history)
             /\ InFlight(d)' => /\ Undisturbed(turn'[d], rooms'[d])
                                /\ Latest(rooms'[d].settings, turn'[d].prior.history)
             /\ Saving(d)' => Latest(before'[d], rooms'[d].history)
  <2>1. InFlight(d)' => InFlight(d) /\ turn'[d] = turn[d]
    BY DEF TurnsKept
  <2>2. CASE d = x
    BY <1>1, <2>1, <2>2
  <2>3. CASE d # x
    BY <1>1, <1>2, <2>1, <2>3 DEF FoundInv
  <2> QED
    BY <2>2, <2>3
<1> QED
  BY <1>2 DEF FoundInv, InFlight, Saving, Undisturbed, Latest

\* A room a handler gets finds the turn in flight undisturbed.
LEMMA RoomOrDefaultFound ==
  ASSUME TypeInv, ConversationInv, FoundInv, NEW c \in Chats
  PROVE  LET r == RoomOrDefault(c)
         IN  /\ r \in Room
             /\ Latest(r.settings, r.history)
             /\ InFlight(c) => Undisturbed(turn[c], r) /\ Latest(r.settings, turn[c].prior.history)
             /\ Saving(c) => Latest(before[c], r.history)
<1>1. CASE rooms[c] # NoRoom
  BY <1>1, RoomOrDefaultType DEF RoomOrDefault, FoundInv, TypeInv, TypeOK
<1>2. CASE rooms[c] = NoRoom
  <2> DEFINE r == NewRoom(lives[c] + 1)
  <2>1. RoomOrDefault(c) = r /\ lives[c] \in Nat
    BY <1>2 DEF RoomOrDefault, TypeInv, TypeOK
  <2>2. r \in Room /\ r.history = <<>> /\ r.life = lives[c] + 1 /\ r.settings.mode = "chat"
    BY <2>1, NewRoomType DEF NewRoom, DefaultSettings
  <2>3. InFlight(c) => turn[c].life \in Nat /\ turn[c].life <= lives[c]
    BY DEF ConversationInv, TypeInv, TypeOK, Prepared
  <2> HIDE DEF r
  <2>4. InFlight(c) => Undisturbed(turn[c], r)
    BY <2>1, <2>2, <2>3 DEF Undisturbed
  <2>5. \A history : Latest(r.settings, history)
    BY <2>2 DEF Latest
  <2> QED
    BY <2>1, <2>2, <2>4, <2>5, EmptyLatest
<1> QED
  BY <1>1, <1>2

LEMMA InitFound == Init => FoundInv
BY DEF Init, FoundInv

LEMMA BeginRoomTurnFound ==
  ASSUME TypeInv, ConversationInv, FoundInv, NEW c \in Chats, BeginRoomTurn(c)
  PROVE  FoundInv'
<1> DEFINE r == RoomOrDefault(c)
           model == SelectedModel(pin[c], r)
           wire == WireOf[model]
           begun == BeginTurn(r, wire)
           t == Capture(r, begun, model)
<1>1. r \in Room /\ Latest(r.settings, r.history)
  BY RoomOrDefaultFound
<1>2. wire \in WireFormats
  BY <1>1, SelectedModelType, RoomConstants DEF TypeInv, TypeOK
<1>3. /\ begun \in Room /\ begun.life = r.life /\ begun.era = r.era /\ begun.settings = r.settings
      /\ begun.history = <<>> \/ begun = r
      /\ begun.wire = wire
  BY <1>1, <1>2, BeginTurnType, OperationsKeepSettings
<1>4. r.wire = wire => begun = r
  BY DEF BeginTurn
<1>5. /\ t.gen = begun.gen /\ t.life = begun.life /\ t.era = begun.era
      /\ t.prior.wire = r.wire /\ t.prior.history = r.history /\ t.switched = (r.wire # begun.wire)
  BY DEF Capture
<1>6. /\ PutRoom(c, begun) /\ turn' = [turn EXCEPT ![c] = t] /\ pc' = [pc EXCEPT ![c] = "call"]
      /\ before' = before
  BY DEF BeginRoomTurn, Goto
<1>7. begun.era \in Nat /\ begun.gen \in Nat
  BY <1>3 DEF Room
<1> HIDE DEF r, wire, model, begun, t
<1>8. Latest(begun.settings, begun.history) /\ Latest(begun.settings, t.prior.history)
  BY <1>1, <1>3, <1>5, EmptyLatest
<1>9. Undisturbed(t, begun)
  <2>1. t.era = begun.era /\ t.gen = begun.gen /\ t.era <= begun.era /\ t.gen <= begun.gen
    BY <1>5, <1>7
  <2>2. ~t.switched => r.wire = begun.wire
    BY <1>5, Zenon
  <2>3. ~t.switched => begun = r
    BY <1>3, <1>4, <2>2
  <2>4. ~t.switched => begun.wire = t.prior.wire /\ begun.history = t.prior.history
    BY <1>5, <2>2, <2>3
  <2> QED
    BY <2>1, <2>4 DEF Undisturbed
<1>10. /\ rooms'[c] = begun /\ turn'[c] = t /\ pc'[c] = "call"
       /\ \A d \in Chats \ {c} : rooms'[d] = rooms[d] /\ turn'[d] = turn[d] /\ pc'[d] = pc[d]
  BY <1>6 DEF PutRoom, TypeInv, TypeOK
<1>11. ASSUME NEW d \in Chats, rooms'[d] # NoRoom
       PROVE  /\ Latest(rooms'[d].settings, rooms'[d].history)
              /\ InFlight(d)' => /\ Undisturbed(turn'[d], rooms'[d])
                                 /\ Latest(rooms'[d].settings, turn'[d].prior.history)
              /\ Saving(d)' => Latest(before'[d], rooms'[d].history)
  <2>1. CASE d = c
    BY <1>8, <1>9, <1>10, <2>1 DEF Saving
  <2>2. CASE d # c
    <3>1. /\ rooms'[d] = rooms[d] /\ turn'[d] = turn[d] /\ before'[d] = before[d]
          /\ InFlight(d)' = InFlight(d) /\ Saving(d)' = Saving(d)
      BY <1>6, <1>10, <2>2 DEF InFlight, Saving
    <3> QED
      BY <1>11, <3>1 DEF FoundInv
  <2> QED
    BY <2>1, <2>2
<1> QED
  BY <1>11 DEF FoundInv, InFlight, Saving, Undisturbed, Latest

LEMMA CommitFound ==
  ASSUME TypeInv, FoundInv, NEW c \in Chats, Commit(c)
  PROVE  FoundInv'
<1>1. CASE SameGeneration(c)
  <2>1. PICK size \in TurnSizes : PutRoom(c, AppendTurn(rooms[c], FinishedTurn(c, size)))
    BY <1>1 DEF Commit
  <2> DEFINE t == FinishedTurn(c, size)
             q == AppendTurn(rooms[c], t)
  <2>2. t \in Turn
    BY RoomConstants DEF FinishedTurn, Turn, TypeInv, TypeOK, Prepared
  <2>3. InFlight(c) /\ Continue(c, "answer")
    BY <1>1 DEF Commit, InFlight
  <2>4. rooms[c] \in Room
    BY <1>1 DEF SameGeneration, TypeInv, TypeOK
  <2>5. q \in Room /\ Latest(q.settings, q.history)
    BY <2>2, <2>4, AppendTurnType, AppendLatest
  <2>6. TurnsKept /\ SavesKept /\ pc'[c] = "answer"
    BY <2>3, ContinueKeepsTurns, ContinueKeepsSaves
  <2>7. ~InFlight(c)' /\ ~Saving(c)'
    BY <2>6 DEF InFlight, Saving
  <2> HIDE DEF q
  <2>8. PutRoom(c, q)
    BY <2>1 DEF q
  <2> QED
    BY <2>5, <2>6, <2>7, <2>8, FoundChange DEF SavesKept
<1>2. CASE ~SameGeneration(c)
  BY <1>2, FinishKeepsTurns, FinishKeepsSaves, FoundLess DEF Commit, convVars
<1> QED
  BY <1>1, <1>2

LEMMA RestoreFound ==
  ASSUME TypeInv, FoundInv, NEW c \in Chats, RestoreAfterFailure(c)
  PROVE  FoundInv'
<1>1. CASE SameGeneration(c)
  <2> DEFINE q == RestoreFailedTurn(rooms[c], turn[c].switched, turn[c].prior)
  <2>1. PutRoom(c, q) /\ Continue(c, "answer") /\ InFlight(c)
    BY <1>1 DEF RestoreAfterFailure, InFlight
  <2>2. rooms[c] \in Room /\ rooms[c] # NoRoom
    BY <1>1 DEF SameGeneration, TypeInv, TypeOK
  <2>3. turn[c].prior \in Conversation /\ turn[c].switched \in BOOLEAN
    BY DEF TypeInv, TypeOK, Prepared
  <2>4. /\ q \in Room /\ q.settings = rooms[c].settings
        /\ q.history = turn[c].prior.history \/ q = rooms[c]
    BY <2>2, <2>3, RestoreFailedTurnType, OperationsKeepSettings
  <2>5. /\ Latest(rooms[c].settings, rooms[c].history)
        /\ Latest(rooms[c].settings, turn[c].prior.history)
    BY <2>1, <2>2 DEF FoundInv
  <2>6. TurnsKept /\ SavesKept /\ pc'[c] = "answer"
    BY <2>1, ContinueKeepsTurns, ContinueKeepsSaves
  <2>7. ~InFlight(c)' /\ ~Saving(c)'
    BY <2>6 DEF InFlight, Saving
  <2> HIDE DEF q
  <2>8. Latest(q.settings, q.history)
    BY <2>4, <2>5
  <2> QED
    BY <2>1, <2>4, <2>6, <2>7, <2>8, FoundChange DEF SavesKept
<1>2. CASE ~SameGeneration(c)
  BY <1>2, FinishKeepsTurns, FinishKeepsSaves, FoundLess DEF RestoreAfterFailure, convVars
<1> QED
  BY <1>1, <1>2

LEMMA RoomCommandFound ==
  ASSUME TypeInv, ConversationInv, FoundInv, NEW c \in Chats, Route(c) \/ NewChat(c) \/ MutateRoom(c)
  PROVE  FoundInv'
<1> DEFINE r == RoomOrDefault(c)
<1>1. r \in Room /\ Latest(r.settings, r.history)
  BY RoomOrDefaultFound
<1> HIDE DEF r
<1>2. CASE Route(c)
  <2>1. PutRoom(c, r) /\ ~InFlight(c) /\ pc[c] = "routeLocked"
    BY <1>2 DEF Route, InFlight, r
  <2>2. Finish(c) \/ \E label \in {"new", "config", "mutate"} : Continue(c, label)
    BY <1>2 DEF Route
  <2>3. TurnsKept /\ SavesKept
    BY <2>2, FinishKeepsTurns, ContinueKeepsTurns, FinishKeepsSaves, ContinueKeepsSaves
  <2>4. ~InFlight(c)' /\ ~Saving(c)'
    BY <2>1, <2>3 DEF TurnsKept, SavesKept, Saving
  <2> QED
    BY <1>1, <2>1, <2>3, <2>4, FoundChange DEF SavesKept
<1>3. CASE NewChat(c)
  <2> DEFINE q == ResetHistory(r)
  <2>1. PutRoom(c, q) /\ Continue(c, "newSend")
    BY <1>3 DEF NewChat, r
  <2>2. q \in Room /\ Latest(q.settings, q.history)
    BY <1>1, ResetHistoryType, EmptyLatest
  <2>3. TurnsKept /\ SavesKept /\ pc'[c] = "newSend"
    BY <2>1, ContinueKeepsTurns, ContinueKeepsSaves
  <2>4. ~InFlight(c)' /\ ~Saving(c)'
    BY <2>3 DEF InFlight, Saving
  <2> HIDE DEF q
  <2> QED
    BY <2>1, <2>2, <2>3, <2>4, FoundChange DEF SavesKept
<1>4. CASE MutateRoom(c)
  <2> DEFINE q == Mutation(cmd[c], r)
  <2>1. /\ PutRoom(c, q) /\ pc' = [pc EXCEPT ![c] = "roomSave"] /\ turn' = turn
        /\ before' = [before EXCEPT ![c] = IF rooms[c] = NoRoom THEN NoRoom ELSE rooms[c].settings]
    BY <1>4 DEF MutateRoom, r, Goto
  <2>2. cmd[c] \in Command \cup {NoCommand}
    BY CommandType DEF TypeInv, TypeOK
  <2>3. q \in Room /\ Latest(q.settings, q.history) /\ q.history \in {<<>>, r.history}
    BY <1>1, <2>2, MutationType, MutationLatest
  <2>4. pc'[c] = "roomSave" /\ \A d \in Chats \ {c} : pc'[d] = pc[d] /\ before'[d] = before[d]
    BY <2>1 DEF TypeInv, TypeOK
  <2>5. /\ TurnsKept /\ ~InFlight(c)'
        /\ \A d \in Chats \ {c} : Saving(d)' => Saving(d) /\ before'[d] = before[d]
    BY <2>1, <2>4 DEF TurnsKept, InFlight, Saving
  <2>6. Saving(c)' => rooms[c] # NoRoom /\ before'[c] = rooms[c].settings
    BY <2>1 DEF Saving, TypeInv, TypeOK
  <2>7. rooms[c] # NoRoom => r = rooms[c]
    BY DEF RoomOrDefault, r
  <2> HIDE DEF q
  <2>8. Saving(c)' => Latest(before'[c], q.history)
    BY <1>1, <2>3, <2>6, <2>7, EmptyLatest
  <2> QED
    BY <2>1, <2>3, <2>5, <2>8, FoundChange
<1> QED
  BY <1>2, <1>3, <1>4

LEMMA RollbackFound ==
  ASSUME TypeInv, FoundInv, NEW c \in Chats, RollbackSettings(c)
  PROVE  FoundInv'
<1>1. TurnsKept /\ ~InFlight(c)' /\ SavesKept /\ ~Saving(c)'
  BY FinishKeepsTurns, FinishKeepsSaves DEF RollbackSettings
<1>2. CASE before[c] = NoRoom
  <2>1. DropRoom(c)
    BY <1>2 DEF RollbackSettings
  <2> QED
    BY <1>1, <2>1, FoundLess DEF DropRoom, TypeInv, TypeOK
<1>3. CASE before[c] # NoRoom /\ rooms[c] = NoRoom
  BY <1>1, <1>3, FoundLess DEF RollbackSettings, convVars
<1>4. CASE before[c] # NoRoom /\ rooms[c] # NoRoom
  <2> DEFINE r == [rooms[c] EXCEPT !.settings = before[c]]
  <2>1. rooms[c] \in Room /\ before[c] \in Settings
    BY <1>4 DEF TypeInv, TypeOK
  <2>2. r \in Room /\ r.history = rooms[c].history /\ r.settings = before[c]
    BY <2>1, SettingsType DEF Room
  <2>3. Latest(before[c], rooms[c].history)
    BY <1>4 DEF FoundInv, Saving, RollbackSettings
  <2>4. PutRoom(c, r)
    BY <1>4 DEF RollbackSettings
  <2> HIDE DEF r
  <2> QED
    BY <1>1, <2>2, <2>3, <2>4, FoundChange DEF SavesKept
<1> QED
  BY <1>2, <1>3, <1>4

LEMMA ConfigCommandFound ==
  ASSUME TypeInv, ConversationInv, FoundInv, NEW c \in Chats, SetUpRoom(c) \/ PurgeRoom(c)
  PROVE  FoundInv'
<1>1. PICK t \in Chats : t = cmd[c].chat
  BY CommandType DEF SetUpRoom, PurgeRoom, CommandOK, TypeInv
<1>2. CASE SetUpRoom(c)
  <2>1. PutRoom(t, RoomOrDefault(t)) /\ TurnsKept /\ SavesKept
    BY <1>1, <1>2, FinishKeepsTurns, FinishKeepsSaves DEF SetUpRoom
  <2>2. /\ InFlight(t)' => InFlight(t)
        /\ Saving(t)' => Saving(t) /\ before'[t] = before[t]
    BY <2>1 DEF TurnsKept, SavesKept
  <2> DEFINE r == RoomOrDefault(t)
  <2>3. /\ r \in Room /\ Latest(r.settings, r.history)
        /\ InFlight(t) => Undisturbed(turn[t], r) /\ Latest(r.settings, turn[t].prior.history)
        /\ Saving(t) => Latest(before[t], r.history)
    BY RoomOrDefaultFound
  <2> HIDE DEF r
  <2>4. PutRoom(t, r)
    BY <2>1 DEF r
  <2> QED
    BY <2>1, <2>2, <2>3, <2>4, FoundChange DEF SavesKept
<1>3. CASE PurgeRoom(c)
  <2>1. DropRoom(t) /\ TurnsKept /\ SavesKept
    BY <1>1, <1>3, ContinueKeepsTurns, ContinueKeepsSaves DEF PurgeRoom
  <2> QED
    BY <2>1, FoundLess DEF DropRoom, TypeInv, TypeOK
<1> QED
  BY <1>2, <1>3

LEMMA TerminalResetFound ==
  ASSUME TypeInv, FoundInv, TerminalReset
  PROVE  FoundInv'
<1>1. UNCHANGED <<turn, pc, before>>
  BY DEF TerminalReset
<1>2. ASSUME NEW d \in Chats, rooms'[d] # NoRoom
      PROVE  /\ Latest(rooms'[d].settings, rooms'[d].history)
             /\ InFlight(d) => /\ Undisturbed(turn[d], rooms'[d])
                               /\ Latest(rooms'[d].settings, turn[d].prior.history)
             /\ Saving(d) => Latest(before[d], rooms'[d].history)
  <2>1. rooms[d] # NoRoom /\ rooms[d] \in Room /\ rooms'[d] = ResetHistory(rooms[d])
    BY <1>2 DEF TerminalReset, TypeInv, TypeOK
  <2>2. /\ rooms'[d].history = <<>> /\ rooms'[d].settings = rooms[d].settings
        /\ rooms'[d].life = rooms[d].life /\ rooms'[d].era = rooms[d].era + 1
        /\ rooms'[d].gen = rooms[d].gen + 1
    BY <2>1, ResetHistoryType, OperationsKeepSettings
  <2>3. /\ rooms[d].era \in Nat /\ rooms[d].gen \in Nat
        /\ turn[d].era \in Nat /\ turn[d].gen \in Nat
    BY <2>1 DEF Room, TypeInv, TypeOK, Prepared
  <2>4. InFlight(d) => /\ Undisturbed(turn[d], rooms[d])
                       /\ Latest(rooms[d].settings, turn[d].prior.history)
    BY <2>1 DEF FoundInv
  <2>5. InFlight(d) => Undisturbed(turn[d], rooms'[d])
    BY <2>2, <2>3, <2>4 DEF Undisturbed
  <2> QED
    BY <2>2, <2>4, <2>5, EmptyLatest
<1> QED
  BY <1>1, <1>2 DEF FoundInv, InFlight, Saving, Undisturbed, Latest

LEMMA FoundStep == TypeInv /\ ConversationInv /\ FoundInv /\ [Next]_vars => FoundInv'
<1> SUFFICES ASSUME TypeInv, ConversationInv, FoundInv, [Next]_vars PROVE FoundInv'
  OBVIOUS
<1>1. ASSUME NEW c \in Chats,
         \/ StartMessage(c) \/ StartCommand(c) \/ FetchFails(c) \/ FetchDone(c) \/ LockForTurn(c)
         \/ ProviderAnswers(c) \/ ProviderFails(c) \/ Answer(c) \/ Sent(c)
         \/ LockForRoute(c) \/ NewChatSent(c) \/ LockForMutation(c) \/ RoomSaved(c)
         \/ RoomSaveFails(c) \/ PinModel(c) \/ UnpinModel(c) \/ AllowInConfig(c) \/ CloseAccess(c)
         \/ ConfigSaved(c) \/ ConfigSaveFails(c) \/ Grant(c) \/ LockForSetup(c)
         \/ LockForPurge(c) \/ PurgeSaveEnds(c) \/ Die(c)
      PROVE  FoundInv'
  <2>1. TurnsKept /\ UNCHANGED convVars /\ SavesKept
    BY <1>1, QuietStepKeepsTurns, QuietStepKeepsSaves
  <2> QED
    BY <2>1, FoundLess DEF convVars
<1>2. ASSUME NEW c \in Chats, ModelTurn(c) PROVE FoundInv'
  BY <1>1, <1>2, BeginRoomTurnFound, CommitFound, RestoreFound DEF ModelTurn
<1>3. ASSUME NEW c \in Chats, RoomCommand(c) PROVE FoundInv'
  BY <1>1, <1>3, RoomCommandFound, RollbackFound DEF RoomCommand
<1>4. ASSUME NEW c \in Chats, ConfigCommand(c) PROVE FoundInv'
  BY <1>1, <1>4, ConfigCommandFound DEF ConfigCommand
<1>5. CASE UNCHANGED vars
  BY <1>5 DEF vars, FoundInv, InFlight, Saving, Undisturbed, Latest
<1> QED
  BY <1>1, <1>2, <1>3, <1>4, <1>5, TerminalResetFound DEF Next, Worker, Rest

LEMMA AlwaysFound == Spec => [](TypeInv /\ ConversationInv /\ FoundInv)
BY InitFound, FoundStep, Conversations, PTL DEF Spec

\* In message mode at most the latest exchange is kept, through commands, failed saves
\* that put message mode back, and failed turns that put a history back (push_turn,
\* mutate_room, restore_failed_turn).
THEOREM LatestTurnOnly == Spec => []MessageModeKeepsLatestTurn
<1>1. FoundInv => MessageModeKeepsLatestTurn
  BY DEF FoundInv, Latest, MessageModeKeepsLatestTurn
<1> QED
  BY <1>1, AlwaysFound, PTL

\* Where a turn may end.
LEMMA EndOfTurn ==
  ASSUME TypeInv, Next, NEW c \in Chats, pc[c] \in {"commit", "fail"}, pc'[c] # pc[c]
  PROVE  Commit(c) \/ RestoreAfterFailure(c) \/ Die(c)
<1> SUFFICES ASSUME ~Commit(c), ~RestoreAfterFailure(c), ~Die(c)
             PROVE  FALSE
  OBVIOUS
<1>1. ~TerminalReset /\ ~Rest
  BY DEF TerminalReset, Rest, vars
<1>2. PICK d \in Chats : StartMessage(d) \/ StartCommand(d) \/ Worker(d)
  BY <1>1 DEF Next
<1>3. CASE d # c
  <2>1. \A label : Goto(d, label) => pc'[c] = pc[c]
    BY <1>3 DEF Goto, TypeInv, TypeOK
  <2>2. \E label : Goto(d, label)
    <3>1. \A label : Continue(d, label) => Goto(d, label)
      BY DEF Continue
    <3>2. Finish(d) => Goto(d, "idle")
      BY DEF Finish
    <3>3. CASE StartMessage(d) \/ StartCommand(d) \/ Die(d)
      BY <3>1, <3>2, <3>3 DEF StartMessage, StartCommand, Die
    <3>4. CASE ModelTurn(d)
      BY <3>1, <3>2, <3>4 DEF ModelTurn, FetchFails, FetchDone, LockForTurn, LockConfig, BeginRoomTurn,
         ProviderAnswers, ProviderFails, Commit, RestoreAfterFailure, Answer, Sent
    <3>5. CASE RoomCommand(d)
      BY <3>1, <3>2, <3>5 DEF RoomCommand, LockForRoute, LockConfig, Route, NewChat, NewChatSent,
         LockForMutation, LockTxn, MutateRoom, RoomSaved, RoomSaveFails, RollbackSettings
    <3>6. CASE ConfigCommand(d)
      BY <3>1, <3>2, <3>6 DEF ConfigCommand, PinModel, UnpinModel, AllowInConfig, CloseAccess,
         SaveConfig, ConfigSaved, ConfigSaveFails, Grant, LockForSetup, LockConfig, SetUpRoom,
         LockForPurge, LockTxn, PurgeRoom, PurgeSaveEnds
    <3> QED
      BY <1>2, <3>3, <3>4, <3>5, <3>6 DEF Worker
  <2> QED
    BY <2>1, <2>2
<1>4. CASE d = c
  <2>1. ~StartMessage(c) /\ ~StartCommand(c)
    BY DEF StartMessage, StartCommand
  <2>2. ~ModelTurn(c)
    BY DEF ModelTurn, FetchFails, FetchDone, LockForTurn, LockConfig, BeginRoomTurn,
       ProviderAnswers, ProviderFails, Answer, Sent, Completes
  <2>3. ~RoomCommand(c)
    BY DEF RoomCommand, LockForRoute, LockConfig, Route, NewChat, NewChatSent,
       LockForMutation, LockTxn, MutateRoom, RoomSaved, RoomSaveFails, RollbackSettings, Completes
  <2>4. ~ConfigCommand(c)
    BY DEF ConfigCommand, PinModel, UnpinModel, AllowInConfig, CloseAccess, AtConfig,
       ConfigSaved, ConfigSaveFails, Grant, LockForSetup, LockConfig, SetUpRoom,
       LockForPurge, LockTxn, PurgeRoom, PurgeSaveEnds, Completes
  <2> QED
    BY <1>2, <1>4, <2>1, <2>2, <2>3, <2>4 DEF Worker
<1> QED
  BY <1>3, <1>4

\* An answer is dropped only for a room reset or removed since the turn began, or a
\* worker that /deny has aborted (append_turn_if_generation).
THEOREM AnswersAreKept == Spec => AnswerLostOnlyByReset
<1>1. ASSUME TypeInv, FoundInv, [Next]_vars, NEW c \in Chats, pc[c] = "commit", pc'[c] = "idle"
      PROVE  \/ aborted[c]
             \/ rooms[c] = NoRoom
             \/ rooms[c].life # turn[c].life
             \/ rooms[c].era # turn[c].era
  <2>1. Commit(c) \/ RestoreAfterFailure(c) \/ Die(c)
    BY <1>1, EndOfTurn DEF vars
  <2>2. ~RestoreAfterFailure(c)
    BY <1>1 DEF RestoreAfterFailure
  <2>3. CASE Die(c)
    BY <2>3 DEF Die
  <2>4. CASE Commit(c)
    <3>1. ~SameGeneration(c)
      BY <1>1, <2>4 DEF Commit, Continue, Goto, TypeInv, TypeOK
    <3>2. rooms[c] # NoRoom => Undisturbed(turn[c], rooms[c])
      BY <1>1 DEF FoundInv, InFlight
    <3> QED
      BY <3>1, <3>2 DEF SameGeneration, Undisturbed
  <2> QED
    BY <2>1, <2>2, <2>3, <2>4
<1>2. TypeInv /\ FoundInv /\ [Next]_vars =>
        [\A c \in Chats : pc[c] = "commit" /\ pc'[c] = "idle" =>
           \/ aborted[c]
           \/ rooms[c] = NoRoom
           \/ rooms[c].life # turn[c].life
           \/ rooms[c].era # turn[c].era]_vars
  BY <1>1
<1> QED
  BY <1>2, AlwaysFound, PTL DEF Spec, AnswerLostOnlyByReset

\* A turn that fails gives the conversation back as it found it, with or without a change
\* of format, unless the room was reset or made anew meanwhile (restore_failed_turn).
THEOREM FailureIsUndone == Spec => FailedTurnLeavesConversation
<1>1. ASSUME TypeInv, FoundInv, [Next]_vars, NEW c \in Chats,
             pc[c] = "fail", pc'[c] = "answer", rooms'[c].life = turn[c].life
      PROVE  /\ rooms'[c].wire = turn[c].prior.wire
             /\ rooms'[c].history = turn[c].prior.history
  <2>1. Commit(c) \/ RestoreAfterFailure(c) \/ Die(c)
    BY <1>1, EndOfTurn DEF vars
  <2>2. RestoreAfterFailure(c) /\ SameGeneration(c)
    BY <1>1, <2>1 DEF Commit, RestoreAfterFailure, Die, Finish, Goto, TypeInv, TypeOK
  <2> DEFINE r == rooms[c]
             t == turn[c]
             q == RestoreFailedTurn(r, t.switched, t.prior)
  <2>3. PutRoom(c, q) /\ r # NoRoom /\ r \in Room /\ r.gen = t.gen
    BY <1>1, <2>2 DEF RestoreAfterFailure, SameGeneration, TypeInv, TypeOK
  <2>4. t.prior \in Conversation /\ t.switched \in BOOLEAN
    BY <1>1 DEF TypeInv, TypeOK, Prepared
  <2>5. /\ q.life = r.life
        /\ t.switched => q.wire = t.prior.wire /\ q.history = t.prior.history
        /\ ~t.switched => q = r
    BY <2>3, <2>4, RestoreFailedTurnType, OperationsKeepSettings DEF RestoreFailedTurn
  <2>6. rooms'[c] = q
    BY <1>1, <2>3 DEF PutRoom, TypeInv, TypeOK
  <2>7. Undisturbed(t, r)
    BY <1>1, <2>3 DEF FoundInv, InFlight
  <2> HIDE DEF q
  <2> QED
    BY <1>1, <2>3, <2>4, <2>5, <2>6, <2>7 DEF Undisturbed
<1>2. TypeInv /\ FoundInv /\ [Next]_vars =>
        [\A c \in Chats : pc[c] = "fail" /\ pc'[c] = "answer" /\ rooms'[c].life = turn[c].life =>
           /\ rooms'[c].wire = turn[c].prior.wire
           /\ rooms'[c].history = turn[c].prior.history]_vars
  BY <1>1
<1> QED
  BY <1>2, AlwaysFound, PTL DEF Spec, FailedTurnLeavesConversation

-----------------------------------------------------------------------------
(* The size of a history.  What BytesFrom computes is proved by induction on   *)
(* the number of turns, from the library's fact that < is well founded on Nat. *)

LEMMA LeastNumber ==
  ASSUME NEW S, S \subseteq Nat, S # {}
  PROVE  \E m \in S : \A n \in S : m <= n
<1>1. PICK m \in S : \A n \in S : ~(<<n, m>> \in OpToRel(<, Nat))
  BY NatLessThanWellFounded, WFMin
<1>2. ASSUME NEW n \in S
      PROVE  m <= n
  <2>1. m \in Nat /\ n \in Nat
    OBVIOUS
  <2>2. n < m => <<n, m>> \in OpToRel(<, Nat)
    BY <2>1 DEF OpToRel
  <2>3. ~(n < m)
    BY <1>1, <2>2
  <2> QED
    BY <2>1, <2>3
<1> QED
  BY <1>2

LEMMA Induction ==
  ASSUME NEW S, 0 \in S, \A n \in Nat : n \in S => n + 1 \in S
  PROVE  \A n \in Nat : n \in S
<1> SUFFICES ASSUME Nat \ S # {}
             PROVE  FALSE
  OBVIOUS
<1>1. PICK m \in Nat \ S : \A n \in Nat \ S : m <= n
  BY LeastNumber
<1>2. m # 0 /\ m - 1 \in Nat /\ m = (m - 1) + 1
  OBVIOUS
<1> QED
  BY <1>1, <1>2

\* The recursion of BytesFrom, from position i on.
Sums(h, i, bytes) ==
  bytes = [j \in i .. Len(h) + 1 |-> IF j > Len(h) THEN 0 ELSE h[j].size + bytes[j + 1]]

LEMMA SumsExist ==
  ASSUME NEW h \in Seq(Turn)
  PROVE  \E bytes : Sums(h, 1, bytes)
<1> DEFINE L == Len(h)
           S == {n \in Nat : n <= L => \E bytes : Sums(h, L + 1 - n, bytes)}
<1>1. L \in Nat
  BY LenProperties
<1>2. 0 \in S
  <2> DEFINE none == [j \in L + 1 .. L + 1 |-> 0]
  <2>1. none = [j \in L + 1 .. L + 1 |-> IF j > L THEN 0 ELSE h[j].size + none[j + 1]]
    BY <1>1
  <2> HIDE DEF none
  <2>2. Sums(h, L + 1, none)
    BY <2>1 DEF Sums
  <2> QED
    BY <1>1, <2>2
<1>3. ASSUME NEW n \in Nat, n \in S
      PROVE  n + 1 \in S
  <2>1. CASE n + 1 <= L
    <3> DEFINE k == L - n
    <3>1. k \in Nat /\ 1 <= k /\ k <= L /\ L + 1 - n = k + 1 /\ L + 1 - (n + 1) = k
      BY <1>1, <2>1
    <3>2. PICK b : Sums(h, k + 1, b)
      BY <1>1, <1>3, <2>1, <3>1
    <3> HIDE DEF k
    <3> DEFINE more == [j \in k .. L + 1 |-> IF j = k THEN h[j].size + b[j + 1] ELSE b[j]]
    <3>3. \A j \in k + 1 .. L + 1 : b[j] = IF j > L THEN 0 ELSE h[j].size + b[j + 1]
      BY <3>2 DEF Sums
    <3>4. ASSUME NEW j \in k .. L + 1
          PROVE  more[j] = IF j > L THEN 0 ELSE h[j].size + more[j + 1]
      <4>1. j <= L => more[j + 1] = b[j + 1]
        BY <1>1, <3>1
      <4>2. CASE j = k
        BY <1>1, <3>1, <4>1, <4>2
      <4>3. CASE j # k
        <5>1. j \in k + 1 .. L + 1 /\ more[j] = b[j]
          BY <1>1, <3>1, <4>3
        <5> HIDE DEF more
        <5> QED
          BY <1>1, <3>1, <3>3, <4>1, <5>1
      <4> QED
        BY <4>2, <4>3
    <3>5. Sums(h, k, more)
      <4>1. more = [j \in k .. L + 1 |-> IF j > L THEN 0 ELSE h[j].size + more[j + 1]]
        BY <3>4
      <4> HIDE DEF more
      <4> QED
        BY <4>1 DEF Sums
    <3> HIDE DEF more
    <3> QED
      BY <1>1, <3>1, <3>5
  <2>2. CASE ~(n + 1 <= L)
    BY <1>1, <2>2
  <2> QED
    BY <2>1, <2>2
<1> HIDE DEF S
<1>4. L \in S
  BY <1>1, <1>2, <1>3, Induction
<1>5. \E bytes : Sums(h, L + 1 - L, bytes)
  BY <1>1, <1>4 DEF S
<1> QED
  BY <1>1, <1>5

LEMMA BytesAre ==
  ASSUME NEW h \in Seq(Turn)
  PROVE  /\ BytesFrom(h, Len(h) + 1) = 0
         /\ \A j \in 1 .. Len(h) : BytesFrom(h, j) = h[j].size + BytesFrom(h, j + 1)
<1> DEFINE b == CHOOSE bytes : Sums(h, 1, bytes)
<1>1. Sums(h, 1, b)
  BY SumsExist
<1>2. \A j : BytesFrom(h, j) = b[j]
  BY DEF BytesFrom, Sums
<1> HIDE DEF b
<1>3. \A j \in 1 .. Len(h) + 1 : b[j] = IF j > Len(h) THEN 0 ELSE h[j].size + b[j + 1]
  BY <1>1 DEF Sums
<1>4. Len(h) \in Nat
  BY LenProperties
<1> QED
  BY <1>2, <1>3, <1>4

LEMMA SizesType ==
  ASSUME NEW h \in Seq(Turn), NEW j \in 1 .. Len(h)
  PROVE  h[j].size \in Nat
<1>1. h[j] \in Turn
  BY ElementOfSeq
<1>2. h[j].size \in TurnSizes
  BY <1>1 DEF Turn
<1> QED
  BY <1>2, RoomConstants

LEMMA BytesType ==
  ASSUME NEW h \in Seq(Turn)
  PROVE  \A j \in 1 .. Len(h) + 1 : BytesFrom(h, j) \in Nat
<1> DEFINE L == Len(h)
           S == {n \in Nat : n <= L => BytesFrom(h, L + 1 - n) \in Nat}
<1>1. L \in Nat /\ \A j \in 1 .. L : h[j].size \in Nat
  BY LenProperties, SizesType
<1>2. 0 \in S
  BY <1>1, BytesAre
<1>3. ASSUME NEW n \in Nat, n \in S
      PROVE  n + 1 \in S
  <2>1. CASE n + 1 <= L
    <3>1. L - n \in 1 .. L /\ (L - n) + 1 = L + 1 - n /\ L + 1 - (n + 1) = L - n
      BY <1>1, <2>1
    <3>2. BytesFrom(h, L + 1 - n) \in Nat
      BY <1>1, <1>3, <2>1
    <3>3. BytesFrom(h, L - n) = h[L - n].size + BytesFrom(h, L + 1 - n)
      BY <3>1, BytesAre
    <3> QED
      BY <1>1, <3>1, <3>2, <3>3
  <2>2. CASE ~(n + 1 <= L)
    BY <1>1, <2>2
  <2> QED
    BY <2>1, <2>2
<1> HIDE DEF S
<1>4. \A n \in Nat : n \in S
  BY <1>2, <1>3, Induction
<1>5. ASSUME NEW j \in 1 .. L + 1
      PROVE  BytesFrom(h, j) \in Nat
  <2>1. L + 1 - j \in Nat /\ L + 1 - j <= L /\ L + 1 - (L + 1 - j) = j
    BY <1>1
  <2>2. BytesFrom(h, L + 1 - (L + 1 - j)) \in Nat
    BY <1>4, <2>1 DEF S
  <2> QED
    BY <2>1, <2>2
<1> QED
  BY <1>5

\* A suffix has the size it has in the whole.
LEMMA BytesOfSuffix ==
  ASSUME NEW h \in Seq(Turn), NEW m \in 1 .. Len(h) + 1
  PROVE  /\ SubSeq(h, m, Len(h)) \in Seq(Turn)
         /\ Len(SubSeq(h, m, Len(h))) = Len(h) + 1 - m
         /\ BytesFrom(SubSeq(h, m, Len(h)), 1) = BytesFrom(h, m)
<1> DEFINE L == Len(h)
           s == SubSeq(h, m, L)
           k == L + 1 - m
           S == {n \in Nat : n <= k => BytesFrom(s, k + 1 - n) = BytesFrom(h, L + 1 - n)}
<1>1. L \in Nat /\ m \in Nat /\ 1 <= m /\ m <= L + 1 /\ k \in Nat /\ k + m = L + 1
  BY LenProperties
<1>2. s \in Seq(Turn) /\ Len(s) = k
  <2>1. \A i \in m .. L : h[i] \in Turn
    BY <1>1, ElementOfSeq
  <2> QED
    BY <1>1, <2>1
<1>3. \A i \in 1 .. k : s[i] = h[m + i - 1]
  BY <1>1, <1>2
<1> HIDE DEF s, k
<1>4. 0 \in S
  BY <1>1, <1>2, BytesAre
<1>5. ASSUME NEW n \in Nat, n \in S
      PROVE  n + 1 \in S
  <2>1. CASE n + 1 <= k
    <3>1. /\ k - n \in 1 .. k /\ (k - n) + 1 = k + 1 - n /\ k + 1 - (n + 1) = k - n
          /\ L - n \in 1 .. L /\ (L - n) + 1 = L + 1 - n /\ L + 1 - (n + 1) = L - n
          /\ m + (k - n) - 1 = L - n
      BY <1>1, <2>1
    <3>2. BytesFrom(s, k + 1 - n) = BytesFrom(h, L + 1 - n)
      BY <1>1, <1>5, <2>1
    <3>3. BytesFrom(s, k - n) = s[k - n].size + BytesFrom(s, k + 1 - n)
      BY <1>2, <3>1, BytesAre
    <3>4. BytesFrom(h, L - n) = h[L - n].size + BytesFrom(h, L + 1 - n)
      BY <3>1, BytesAre
    <3>5. s[k - n] = h[L - n]
      BY <1>3, <3>1
    <3> QED
      BY <3>1, <3>2, <3>3, <3>4, <3>5
  <2>2. CASE ~(n + 1 <= k)
    BY <1>1, <2>2
  <2> QED
    BY <2>1, <2>2
<1> HIDE DEF S
<1>6. k \in S
  BY <1>1, <1>4, <1>5, Induction
<1>7. BytesFrom(s, k + 1 - k) = BytesFrom(h, L + 1 - k) /\ k + 1 - k = 1 /\ L + 1 - k = m
  BY <1>1, <1>6 DEF S
<1> QED
  BY <1>2, <1>7 DEF s, k

\* A suffix that fits keeps fitting when it shrinks.
LEMMA FitsOn ==
  ASSUME NEW h \in Seq(Turn), NEW m \in 1 .. Len(h) + 1, FitsFrom(h, m)
  PROVE  \A i \in m .. Len(h) + 1 : FitsFrom(h, i)
<1> DEFINE L == Len(h)
           S == {n \in Nat : m + n <= L + 1 => FitsFrom(h, m + n)}
<1>1. L \in Nat /\ m \in Nat /\ 1 <= m /\ \A j \in 1 .. L : h[j].size \in Nat
  BY LenProperties, SizesType
<1>2. 0 \in S
  BY <1>1
<1>3. ASSUME NEW n \in Nat, n \in S
      PROVE  n + 1 \in S
  <2>1. CASE m + (n + 1) <= L + 1
    <3> DEFINE i == m + n
    <3>1. i \in 1 .. L /\ i + 1 \in 1 .. L + 1 /\ i \in 1 .. L + 1 /\ m + (n + 1) = i + 1
      BY <1>1, <2>1
    <3>2. FitsFrom(h, i)
      BY <1>1, <1>3, <2>1
    <3> HIDE DEF i
    <3>3. /\ BytesFrom(h, i) = h[i].size + BytesFrom(h, i + 1)
          /\ BytesFrom(h, i) \in Nat /\ BytesFrom(h, i + 1) \in Nat /\ h[i].size \in Nat
      BY <1>1, <3>1, BytesAre, BytesType
    <3>4. FitsFrom(h, i + 1)
      BY <1>1, <3>1, <3>2, <3>3, RoomConstants DEF FitsFrom
    <3> QED
      BY <3>1, <3>4
  <2>2. CASE ~(m + (n + 1) <= L + 1)
    BY <1>1, <2>2
  <2> QED
    BY <2>1, <2>2
<1> HIDE DEF S
<1>4. \A n \in Nat : n \in S
  BY <1>2, <1>3, Induction
<1>5. ASSUME NEW i \in m .. L + 1
      PROVE  FitsFrom(h, i)
  <2>1. i - m \in Nat /\ m + (i - m) = i /\ i <= L + 1
    BY <1>1
  <2>2. m + (i - m) <= L + 1 => FitsFrom(h, m + (i - m))
    BY <1>4, <2>1 DEF S
  <2> QED
    BY <2>1, <2>2
<1> QED
  BY <1>5

Within(h) == Len(h) <= MaxHistoryTurns /\ BytesFrom(h, 1) <= MaxHistoryBytes

\* Nothing fits, and what push_turn leaves fits.
LEMMA EmptyWithin == Within(<<>>)
<1> DEFINE none == <<>>
<1>1. none \in Seq(Turn) /\ Len(none) = 0 /\ Len(none) + 1 = 1
  OBVIOUS
<1> HIDE DEF none
<1>2. BytesFrom(none, Len(none) + 1) = 0
  BY <1>1, BytesAre
<1> QED
  BY <1>1, <1>2, RoomConstants DEF Within, none

LEMMA PrunedWithin ==
  ASSUME NEW h \in Seq(Turn)
  PROVE  Within(Pruned(h))
<1> DEFINE L == Len(h)
           fits == {i \in 1 .. L + 1 : FitsFrom(h, i)}
<1>1. L \in Nat
  BY LenProperties
<1>2. L + 1 \in fits
  <2>1. BytesFrom(h, L + 1) = 0
    BY BytesAre
  <2>2. L - (L + 1) < MaxHistoryTurns /\ 0 <= MaxHistoryBytes /\ L + 1 \in 1 .. L + 1
    BY <1>1, RoomConstants
  <2> QED
    BY <2>1, <2>2 DEF FitsFrom
<1>3. PICK m \in fits : \A n \in fits : m <= n
  <2>1. fits \subseteq Nat /\ fits # {}
    BY <1>2
  <2> HIDE DEF fits
  <2> QED
    BY <2>1, LeastNumber
<1>4. m \in Nat /\ m \in 1 .. L + 1 /\ m - 1 \in Nat /\ FitsFrom(h, m)
  BY <1>1
<1>5. {i \in 1 .. L : ~FitsFrom(h, i)} = 1 .. m - 1
  <2>1. \A i \in m .. L + 1 : FitsFrom(h, i)
    BY <1>4, FitsOn
  <2>2. \A i \in 1 .. m - 1 : i \in 1 .. L /\ i \in 1 .. L + 1 /\ ~(m <= i)
    BY <1>1, <1>4
  <2>3. \A i \in 1 .. m - 1 : i \in 1 .. L /\ ~FitsFrom(h, i)
    BY <1>3, <2>2
  <2>4. \A i \in 1 .. L : i \in 1 .. m - 1 \/ i \in m .. L + 1
    BY <1>1, <1>4
  <2> QED
    BY <2>1, <2>3, <2>4
<1>6. Cardinality(1 .. m - 1) = m - 1
  BY <1>4, FS_Interval
<1> HIDE DEF fits
<1>7. Pruned(h) = SubSeq(h, m, L)
  <2>1. m - 1 + 1 = m
    BY <1>4
  <2> QED
    BY <1>5, <1>6, <2>1 DEF Pruned
<1>8. Len(Pruned(h)) = L + 1 - m /\ BytesFrom(Pruned(h), 1) = BytesFrom(h, m)
  BY <1>4, <1>7, BytesOfSuffix
<1> QED
  BY <1>1, <1>4, <1>8, RoomConstants DEF FitsFrom, Within

LEMMA AppendWithin ==
  ASSUME NEW r \in Room, NEW t \in Turn
  PROVE  Within(AppendTurn(r, t).history)
<1>1. ASSUME NEW q \in Room
      PROVE  Within(PushTurn(q, t).history)
  <2> DEFINE h == IF q.settings.mode = "message" THEN <<t>> ELSE Append(q.history, t)
             p == Pruned(h)
  <2>1. h \in Seq(Turn)
    BY DEF Room
  <2>2. PushTurn(q, t) = [q EXCEPT !.history = p]
    BY DEF PushTurn, Room
  <2> HIDE DEF h
  <2>3. Within(p)
    BY <2>1, PrunedWithin
  <2> HIDE DEF p
  <2>4. PushTurn(q, t).history = p
    BY <2>2 DEF Room
  <2> QED
    BY <2>3, <2>4
<1>2. CASE r.wire = t.wire
  BY <1>1, <1>2 DEF AppendTurn
<1>3. CASE r.wire # t.wire
  <2> DEFINE e == InvalidateHistory(r)
             q == [e EXCEPT !.wire = t.wire]
  <2>1. AppendTurn(r, t) = PushTurn(q, t) /\ t.wire \in WireFormats
    BY <1>3 DEF AppendTurn, Turn
  <2>2. e \in Room
    BY InvalidateHistoryType
  <2> HIDE DEF e
  <2>3. q \in Room
    BY <2>1, <2>2 DEF Room
  <2> HIDE DEF q
  <2> QED
    BY <1>1, <2>1, <2>3
<1> QED
  BY <1>2, <1>3

\* Histories in rooms, and those a failed turn may put back, keep within the limits.
BoundInv ==
  \A c \in Chats : /\ rooms[c] # NoRoom => Within(rooms[c].history)
                   /\ InFlight(c) => Within(turn[c].prior.history)

\* One room is replaced, or rooms go.
LEMMA BoundChange ==
  ASSUME TypeInv, BoundInv, TurnsKept, NEW x \in Chats, NEW r, PutRoom(x, r), Within(r.history)
  PROVE  BoundInv'
<1>1. rooms'[x] = r /\ \A d \in Chats \ {x} : rooms'[d] = rooms[d]
  BY DEF PutRoom, TypeInv, TypeOK
<1>2. ASSUME NEW d \in Chats
      PROVE  /\ rooms'[d] # NoRoom => Within(rooms'[d].history)
             /\ InFlight(d)' => Within(turn'[d].prior.history)
  <2>1. InFlight(d)' => InFlight(d) /\ turn'[d] = turn[d]
    BY DEF TurnsKept
  <2>2. CASE d = x
    BY <1>1, <2>1, <2>2 DEF BoundInv
  <2>3. CASE d # x
    BY <1>1, <2>1, <2>3 DEF BoundInv
  <2> QED
    BY <2>2, <2>3
<1> QED
  BY <1>2 DEF BoundInv, InFlight, Within

LEMMA BoundLess ==
  ASSUME BoundInv, TurnsKept, \A d \in Chats : rooms'[d] = NoRoom \/ rooms'[d] = rooms[d]
  PROVE  BoundInv'
BY DEF BoundInv, TurnsKept, InFlight, Within

\* A room a handler gets is within the limits.
LEMMA RoomOrDefaultWithin ==
  ASSUME TypeInv, BoundInv, NEW c \in Chats
  PROVE  RoomOrDefault(c) \in Room /\ Within(RoomOrDefault(c).history)
<1>1. RoomOrDefault(c) \in Room
  BY RoomOrDefaultType DEF TypeInv
<1>2. CASE rooms[c] # NoRoom
  BY <1>1, <1>2 DEF RoomOrDefault, BoundInv
<1>3. CASE rooms[c] = NoRoom
  BY <1>1, <1>3, EmptyWithin DEF RoomOrDefault, NewRoom
<1> QED
  BY <1>2, <1>3

LEMMA ModelTurnBound ==
  ASSUME TypeInv, BoundInv, NEW c \in Chats, BeginRoomTurn(c) \/ Commit(c) \/ RestoreAfterFailure(c)
  PROVE  BoundInv'
<1>1. CASE BeginRoomTurn(c)
  <2> DEFINE r == RoomOrDefault(c)
             model == SelectedModel(pin[c], r)
             begun == BeginTurn(r, WireOf[model])
             t == Capture(r, begun, model)
  <2>1. r \in Room /\ Within(r.history)
    BY RoomOrDefaultWithin
  <2>2. begun.history = r.history \/ begun.history = <<>>
    <3>1. WireOf[model] \in WireFormats
      BY <2>1, SelectedModelType, RoomConstants DEF TypeInv, TypeOK
    <3> QED
      BY <2>1, <3>1, BeginTurnType
  <2>3. t.prior.history = r.history
    BY DEF Capture
  <2>4. /\ PutRoom(c, begun) /\ turn' = [turn EXCEPT ![c] = t] /\ pc' = [pc EXCEPT ![c] = "call"]
    BY <1>1 DEF BeginRoomTurn, Goto
  <2> HIDE DEF r, model, begun, t
  <2>5. /\ rooms'[c] = begun /\ turn'[c] = t
        /\ \A d \in Chats \ {c} : rooms'[d] = rooms[d] /\ turn'[d] = turn[d] /\ pc'[d] = pc[d]
    BY <2>4 DEF PutRoom, TypeInv, TypeOK
  <2>6. Within(begun.history) /\ Within(t.prior.history)
    BY <2>1, <2>2, <2>3, EmptyWithin
  <2>7. ASSUME NEW d \in Chats
        PROVE  /\ rooms'[d] # NoRoom => Within(rooms'[d].history)
               /\ InFlight(d)' => Within(turn'[d].prior.history)
    <3>1. CASE d = c
      BY <2>5, <2>6, <3>1
    <3>2. CASE d # c
      <4>1. InFlight(d)' = InFlight(d)
        BY <2>5, <3>2 DEF InFlight
      <4> QED
        BY <2>5, <3>2, <4>1 DEF BoundInv
    <3> QED
      BY <3>1, <3>2
  <2> QED
    BY <2>7 DEF BoundInv, InFlight, Within
<1>2. CASE Commit(c)
  <2>1. CASE SameGeneration(c)
    <3>1. PICK size \in TurnSizes : PutRoom(c, AppendTurn(rooms[c], FinishedTurn(c, size)))
      BY <1>2, <2>1 DEF Commit
    <3>2. FinishedTurn(c, size) \in Turn
      BY RoomConstants DEF FinishedTurn, Turn, TypeInv, TypeOK, Prepared
    <3>3. rooms[c] \in Room
      BY <2>1 DEF SameGeneration, TypeInv, TypeOK
    <3>4. Continue(c, "answer")
      BY <1>2, <2>1 DEF Commit
    <3>5. TurnsKept
      BY <3>4, ContinueKeepsTurns
    <3> QED
      BY <3>1, <3>2, <3>3, <3>5, AppendWithin, BoundChange
  <2>2. CASE ~SameGeneration(c)
    BY <1>2, <2>2, FinishKeepsTurns, BoundLess DEF Commit, convVars
  <2> QED
    BY <2>1, <2>2
<1>3. CASE RestoreAfterFailure(c)
  <2>1. CASE SameGeneration(c)
    <3> DEFINE q == RestoreFailedTurn(rooms[c], turn[c].switched, turn[c].prior)
    <3>1. PutRoom(c, q) /\ Continue(c, "answer") /\ InFlight(c)
      BY <1>3, <2>1 DEF RestoreAfterFailure, InFlight
    <3>2. rooms[c] \in Room /\ rooms[c] # NoRoom
      BY <2>1 DEF SameGeneration, TypeInv, TypeOK
    <3>3. turn[c].prior \in Conversation /\ turn[c].switched \in BOOLEAN
      BY DEF TypeInv, TypeOK, Prepared
    <3>4. q.history = turn[c].prior.history \/ q.history = rooms[c].history
      BY <3>2, <3>3, RestoreFailedTurnType
    <3>5. Within(rooms[c].history) /\ Within(turn[c].prior.history)
      BY <3>1, <3>2 DEF BoundInv
    <3>6. TurnsKept
      BY <3>1, ContinueKeepsTurns
    <3> HIDE DEF q
    <3>7. Within(q.history)
      BY <3>4, <3>5
    <3> QED
      BY <3>1, <3>6, <3>7, BoundChange
  <2>2. CASE ~SameGeneration(c)
    BY <1>3, <2>2, FinishKeepsTurns, BoundLess DEF RestoreAfterFailure, convVars
  <2> QED
    BY <2>1, <2>2
<1> QED
  BY <1>1, <1>2, <1>3

LEMMA CommandBound ==
  ASSUME TypeInv, BoundInv, NEW c \in Chats,
         \/ Route(c) \/ NewChat(c) \/ MutateRoom(c) \/ RollbackSettings(c) \/ SetUpRoom(c)
         \/ PurgeRoom(c)
  PROVE  BoundInv'
<1>1. RoomOrDefault(c) \in Room /\ Within(RoomOrDefault(c).history)
  BY RoomOrDefaultWithin
<1>2. CASE Route(c)
  <2>1. PutRoom(c, RoomOrDefault(c)) /\ TurnsKept
    BY <1>2, FinishKeepsTurns, ContinueKeepsTurns DEF Route
  <2> QED
    BY <1>1, <2>1, BoundChange
<1>3. CASE NewChat(c)
  <2>1. PutRoom(c, ResetHistory(RoomOrDefault(c))) /\ TurnsKept
    BY <1>3, ContinueKeepsTurns DEF NewChat
  <2>2. ResetHistory(RoomOrDefault(c)).history = <<>>
    BY <1>1, ResetHistoryType
  <2> QED
    BY <2>1, <2>2, EmptyWithin, BoundChange
<1>4. CASE MutateRoom(c)
  <2> DEFINE q == Mutation(cmd[c], RoomOrDefault(c))
  <2>1. PutRoom(c, q) /\ pc' = [pc EXCEPT ![c] = "roomSave"] /\ turn' = turn
    BY <1>4 DEF MutateRoom, Goto
  <2>2. cmd[c] \in Command \cup {NoCommand}
    BY CommandType DEF TypeInv, TypeOK
  <2>3. q.history = <<>> \/ q.history = RoomOrDefault(c).history
    BY <1>1, <2>2, MutationType
  <2>4. TurnsKept
    BY <2>1 DEF TurnsKept, InFlight, TypeInv, TypeOK
  <2> HIDE DEF q
  <2>5. Within(q.history)
    BY <1>1, <2>3, EmptyWithin
  <2> QED
    BY <2>1, <2>4, <2>5, BoundChange
<1>5. CASE RollbackSettings(c)
  <2>1. TurnsKept
    BY <1>5, FinishKeepsTurns DEF RollbackSettings
  <2>2. CASE before[c] # NoRoom /\ rooms[c] # NoRoom
    <3>1. PutRoom(c, [rooms[c] EXCEPT !.settings = before[c]]) /\ rooms[c] \in Room
      BY <1>5, <2>2 DEF RollbackSettings, TypeInv, TypeOK
    <3>2. [rooms[c] EXCEPT !.settings = before[c]].history = rooms[c].history
      BY <3>1 DEF Room
    <3>3. Within(rooms[c].history)
      BY <2>2 DEF BoundInv
    <3> QED
      BY <2>1, <3>1, <3>2, <3>3, BoundChange
  <2>3. CASE before[c] = NoRoom \/ rooms[c] = NoRoom
    BY <1>5, <2>1, <2>3, BoundLess DEF RollbackSettings, DropRoom, convVars, TypeInv, TypeOK
  <2> QED
    BY <2>2, <2>3
<1>6. CASE SetUpRoom(c) \/ PurgeRoom(c)
  <2>1. PICK t \in Chats : t = cmd[c].chat
    BY <1>6, CommandType DEF SetUpRoom, PurgeRoom, CommandOK, TypeInv
  <2>2. CASE SetUpRoom(c)
    <3>1. PutRoom(t, RoomOrDefault(t)) /\ TurnsKept
      BY <2>1, <2>2, FinishKeepsTurns DEF SetUpRoom
    <3> QED
      BY <3>1, RoomOrDefaultWithin, BoundChange
  <2>3. CASE PurgeRoom(c)
    <3>1. DropRoom(t) /\ TurnsKept
      BY <2>1, <2>3, ContinueKeepsTurns DEF PurgeRoom
    <3> QED
      BY <3>1, BoundLess DEF DropRoom, TypeInv, TypeOK
  <2> QED
    BY <1>6, <2>2, <2>3
<1> QED
  BY <1>2, <1>3, <1>4, <1>5, <1>6

LEMMA BoundStep == TypeInv /\ BoundInv /\ [Next]_vars => BoundInv'
<1> SUFFICES ASSUME TypeInv, BoundInv, [Next]_vars PROVE BoundInv'
  OBVIOUS
<1>1. ASSUME NEW c \in Chats,
         \/ StartMessage(c) \/ StartCommand(c) \/ FetchFails(c) \/ FetchDone(c) \/ LockForTurn(c)
         \/ ProviderAnswers(c) \/ ProviderFails(c) \/ Answer(c) \/ Sent(c)
         \/ LockForRoute(c) \/ NewChatSent(c) \/ LockForMutation(c) \/ RoomSaved(c)
         \/ RoomSaveFails(c) \/ PinModel(c) \/ UnpinModel(c) \/ AllowInConfig(c) \/ CloseAccess(c)
         \/ ConfigSaved(c) \/ ConfigSaveFails(c) \/ Grant(c) \/ LockForSetup(c)
         \/ LockForPurge(c) \/ PurgeSaveEnds(c) \/ Die(c)
      PROVE  BoundInv'
  <2>1. TurnsKept /\ UNCHANGED convVars
    BY <1>1, QuietStepKeepsTurns
  <2> QED
    BY <2>1, BoundLess DEF convVars
<1>2. ASSUME NEW c \in Chats, ModelTurn(c) PROVE BoundInv'
  BY <1>1, <1>2, ModelTurnBound DEF ModelTurn
<1>3. ASSUME NEW c \in Chats, RoomCommand(c) PROVE BoundInv'
  BY <1>1, <1>3, CommandBound DEF RoomCommand
<1>4. ASSUME NEW c \in Chats, ConfigCommand(c) PROVE BoundInv'
  BY <1>1, <1>4, CommandBound DEF ConfigCommand
<1>5. CASE TerminalReset
  <2>1. UNCHANGED <<turn, pc>>
    BY <1>5 DEF TerminalReset
  <2>2. \A d \in Chats : rooms'[d] # NoRoom => Within(rooms'[d].history)
    <3>1. ASSUME NEW d \in Chats, rooms'[d] # NoRoom
          PROVE  rooms'[d].history = <<>>
      <4>1. rooms[d] \in Room /\ rooms'[d] = ResetHistory(rooms[d])
        BY <1>5, <3>1 DEF TerminalReset, TypeInv, TypeOK
      <4> QED
        BY <4>1, ResetHistoryType
    <3> QED
      BY <3>1, EmptyWithin
  <2> QED
    BY <2>1, <2>2 DEF BoundInv, InFlight, Within
<1>6. CASE UNCHANGED vars
  BY <1>6 DEF vars, BoundInv, InFlight, Within
<1> QED
  BY <1>1, <1>2, <1>3, <1>4, <1>5, <1>6 DEF Next, Worker, Rest

\* A history keeps within MAX_HISTORY_TURNS and MAX_HISTORY_BYTES, also after a failed
\* turn put an older history back (push_turn, restore_failed_turn).
THEOREM HistoriesAreBounded == Spec => []HistoryBounded
<1>1. Init => BoundInv
  BY DEF Init, BoundInv, InFlight
<1>2. BoundInv => HistoryBounded
  BY DEF BoundInv, Within, HistoryBounded
<1> QED
  BY <1>1, <1>2, BoundStep, Conversations, PTL DEF Spec

-----------------------------------------------------------------------------
(* One model and role per history.  A /deny that is cut short between its    *)
(* two transactions, or whose save fails after it has stopped a worker,      *)
(* leaves a history behind (section Findings of the README), so this is      *)
(* about the chats that no command denies.                                   *)

Undenied(c) == \A d \in Chats : [op |-> "deny", chat |-> c] \notin Commands[d]

MadeUnder(history, model, role) ==
  \A i \in DOMAIN history : history[i].model = model /\ history[i].role = role

\* Every command under way is one its chat sends.
OwnCommands == \A d \in Chats : cmd[d] = NoCommand \/ cmd[d] \in Commands[d]

\* A chat that nobody denies stays in the config, its worker is never aborted, and no
\* config change under way, or to be taken back, concerns its access.
AccessKept(c) ==
  /\ c \in cfgAllowed /\ ~aborted[c]
  /\ pc[c] = "configSave" /\ cmd[c].op \notin {"allow", "deny"} => undo[c].allowed
  /\ \A d \in Chats : pc[d] = "configSave" /\ cmd[d].op \in {"allow", "deny"} => cmd[d].chat # c

KeptInv == OwnCommands /\ \A c \in Chats : Undenied(c) => AccessKept(c)

\* A step that changes neither the config nor what a failed save would put back.
ConfigKept ==
  /\ UNCHANGED <<cfgAllowed, pin>>
  /\ \A d \in Chats :
       /\ aborted'[d] => aborted[d]
       /\ cmd'[d] \in {cmd[d], NoCommand} \cup Commands[d]
       /\ pc'[d] = "configSave" => /\ pc[d] = "configSave"
                                   /\ cmd'[d] = cmd[d] /\ undo'[d] = undo[d]

LEMMA FinishKeepsConfig ==
  ASSUME TypeInv, NEW c \in Chats, Finish(c), UNCHANGED <<cfgAllowed, pin>>
  PROVE  ConfigKept
BY DEF ConfigKept, Finish, Goto, TypeInv, TypeOK

LEMMA ContinueKeepsConfig ==
  ASSUME TypeInv, NEW c \in Chats, NEW label, label # "configSave", Continue(c, label),
         UNCHANGED <<cfgAllowed, pin>>
  PROVE  ConfigKept
BY DEF ConfigKept, Continue, Goto, TypeInv, TypeOK

LEMMA ModelTurnKeepsConfig ==
  ASSUME TypeInv, NEW c \in Chats, ModelTurn(c) \/ StartMessage(c) \/ StartCommand(c) \/ Die(c)
  PROVE  ConfigKept
<1>1. CASE FetchFails(c) \/ FetchDone(c) \/ LockForTurn(c) \/ StartMessage(c)
  BY <1>1, FinishKeepsConfig, ContinueKeepsConfig
  DEF FetchFails, FetchDone, LockForTurn, LockConfig, StartMessage, accessVars
<1>2. CASE ProviderAnswers(c) \/ ProviderFails(c) \/ Answer(c) \/ Sent(c)
  BY <1>2, FinishKeepsConfig, ContinueKeepsConfig
  DEF ProviderAnswers, ProviderFails, Answer, Sent, accessVars
<1>3. CASE Commit(c) \/ RestoreAfterFailure(c)
  <2>1. (Finish(c) \/ Continue(c, "answer")) /\ UNCHANGED <<cfgAllowed, pin>>
    BY <1>3 DEF Commit, RestoreAfterFailure, accessVars
  <2> QED
    BY <2>1, FinishKeepsConfig, ContinueKeepsConfig
<1>4. CASE BeginRoomTurn(c)
  <2>1. /\ UNCHANGED <<cfgAllowed, pin, aborted, cmd, undo>> /\ pc' = [pc EXCEPT ![c] = "call"]
    BY <1>4 DEF BeginRoomTurn, Goto, accessVars, flagVars
  <2> QED
    BY <2>1 DEF ConfigKept, TypeInv, TypeOK
<1>5. CASE StartCommand(c)
  BY <1>5 DEF StartCommand, Goto, ConfigKept, TypeInv, TypeOK, accessVars, flagVars
<1>6. CASE Die(c)
  BY <1>6, FinishKeepsConfig DEF Die, accessVars
<1> QED
  BY <1>1, <1>2, <1>3, <1>4, <1>5, <1>6 DEF ModelTurn

LEMMA RoomCommandKeepsConfig ==
  ASSUME TypeInv, NEW c \in Chats, RoomCommand(c)
  PROVE  ConfigKept
<1>1. CASE LockForRoute(c) \/ NewChat(c) \/ NewChatSent(c) \/ LockForMutation(c)
  BY <1>1, FinishKeepsConfig, ContinueKeepsConfig
  DEF LockForRoute, LockConfig, NewChat, NewChatSent, LockForMutation, LockTxn, accessVars
<1>2. CASE Route(c)
  <2>1. /\ Finish(c) \/ \E label \in {"new", "config", "mutate"} : Continue(c, label)
        /\ UNCHANGED <<cfgAllowed, pin>>
    BY <1>2 DEF Route, accessVars
  <2> QED
    BY <2>1, FinishKeepsConfig, ContinueKeepsConfig
<1>3. CASE RoomSaved(c) \/ RoomSaveFails(c)
  BY <1>3, FinishKeepsConfig, ContinueKeepsConfig DEF RoomSaved, RoomSaveFails, accessVars
<1>4. CASE MutateRoom(c)
  <2>1. /\ UNCHANGED <<cfgAllowed, pin, aborted, cmd, undo>>
        /\ pc' = [pc EXCEPT ![c] = "roomSave"]
    BY <1>4 DEF MutateRoom, Goto, accessVars, flagVars
  <2> QED
    BY <2>1 DEF ConfigKept, TypeInv, TypeOK
<1>5. CASE RollbackSettings(c)
  <2>1. Finish(c) /\ UNCHANGED <<cfgAllowed, pin>>
    BY <1>5 DEF RollbackSettings, accessVars
  <2> QED
    BY <2>1, FinishKeepsConfig
<1> QED
  BY <1>1, <1>2, <1>3, <1>4, <1>5 DEF RoomCommand

LEMMA ConfigCommandKeepsConfig ==
  ASSUME TypeInv, NEW c \in Chats,
         \/ ConfigSaved(c) \/ Grant(c) \/ LockForSetup(c) \/ SetUpRoom(c) \/ LockForPurge(c)
         \/ PurgeRoom(c) \/ PurgeSaveEnds(c)
  PROVE  ConfigKept
<1>1. CASE ConfigSaved(c)
  <2> DEFINE label == CASE cmd[c].op = "allow" -> "grant"
                        [] cmd[c].op = "deny" -> "purge"
                        [] OTHER -> "mutate"
  <2>1. label # "configSave"
    OBVIOUS
  <2>2. Continue(c, label) /\ UNCHANGED <<cfgAllowed, pin>>
    BY <1>1 DEF ConfigSaved, accessVars
  <2> HIDE DEF label
  <2> QED
    BY <2>1, <2>2, ContinueKeepsConfig
<1>2. CASE Grant(c) \/ LockForSetup(c) \/ LockForPurge(c) \/ PurgeSaveEnds(c)
  BY <1>2, FinishKeepsConfig, ContinueKeepsConfig
  DEF Grant, LockForSetup, LockConfig, LockForPurge, LockTxn, PurgeSaveEnds, accessVars
<1>3. CASE SetUpRoom(c) \/ PurgeRoom(c)
  <2>1. (Finish(c) \/ Continue(c, "purgeSave")) /\ UNCHANGED <<cfgAllowed, pin>>
    BY <1>3 DEF SetUpRoom, PurgeRoom, accessVars
  <2> QED
    BY <2>1, FinishKeepsConfig, ContinueKeepsConfig
<1> QED
  BY <1>1, <1>2, <1>3

LEMMA KeptByConfigKept ==
  ASSUME KeptInv, ConfigKept
  PROVE  KeptInv'
BY DEF KeptInv, OwnCommands, AccessKept, ConfigKept, Undenied

\* A command to allow or deny a chat that nobody denies can only be one to allow it.
LEMMA NotDenied ==
  ASSUME TypeInv, OwnCommands, NEW c \in Chats, Undenied(c), NEW d \in Chats,
         cmd[d].op = "deny"
  PROVE  cmd[d].chat \in Chats /\ cmd[d].chat # c
<1>1. cmd[d] # NoCommand
  BY DEF NoCommand
<1>2. cmd[d] \in Commands[d] /\ cmd[d] \in Command
  BY <1>1, ChatConstants DEF OwnCommands
<1>3. cmd[d] \in [op : {"allow", "deny"}, chat : Chats]
  BY <1>2 DEF Command
<1>4. cmd[d] = [op |-> "deny", chat |-> cmd[d].chat]
  BY <1>3
<1> QED
  BY <1>2, <1>3, <1>4 DEF Undenied

\* One worker saves the config for chat t; what it changes elsewhere is not to the
\* disadvantage of a chat that nobody denies.
LEMMA SaveKept ==
  ASSUME TypeInv, KeptInv, NEW x \in Chats, NEW t \in Chats, SaveConfig(x, t),
         \A c \in Chats : Undenied(c) =>
           /\ c \in cfgAllowed' /\ ~aborted'[c]
           /\ IF cmd[x].op \in {"allow", "deny"} THEN t # c ELSE t = x,
         cmd[x].op \in {"allow", "deny"} => cmd[x].chat = t
  PROVE  KeptInv'
<1>1. /\ pc'[x] = "configSave" /\ undo'[x] = Remembered(t) /\ cmd' = cmd
      /\ \A d \in Chats \ {x} : pc'[d] = pc[d] /\ undo'[d] = undo[d]
  BY DEF SaveConfig, Goto, TypeInv, TypeOK
<1>2. ASSUME NEW c \in Chats, Undenied(c)
      PROVE  AccessKept(c)'
  <2>1. AccessKept(c)
    BY <1>2 DEF KeptInv
  <2>2. ASSUME cmd[x].op \notin {"allow", "deny"}, c = x
        PROVE  undo'[c].allowed
    <3>1. t = c
      BY <1>2, <2>2
    <3>2. undo'[c].allowed = (c \in cfgAllowed)
      BY <1>1, <2>2, <3>1 DEF Remembered
    <3> QED
      BY <2>1, <3>2 DEF AccessKept
  <2>3. pc'[c] = "configSave" /\ cmd'[c].op \notin {"allow", "deny"} => undo'[c].allowed
    BY <1>1, <2>1, <2>2 DEF AccessKept
  <2>4. ASSUME NEW d \in Chats, pc'[d] = "configSave", cmd'[d].op \in {"allow", "deny"}
        PROVE  cmd'[d].chat # c
    <3>1. CASE d = x
      BY <1>1, <1>2, <2>4, <3>1
    <3>2. CASE d # x
      BY <1>1, <2>1, <2>4, <3>2 DEF AccessKept
    <3> QED
      BY <3>1, <3>2
  <2> QED
    BY <1>2, <2>3, <2>4 DEF AccessKept
<1>3. OwnCommands'
  BY <1>1 DEF KeptInv, OwnCommands
<1> QED
  BY <1>2, <1>3 DEF KeptInv, Undenied

\* A worker returns after it has looked at the config, or put it back.
LEMMA FinishKept ==
  ASSUME TypeInv, KeptInv, NEW x \in Chats, Finish(x),
         \A c \in Chats : Undenied(c) => c \in cfgAllowed'
  PROVE  KeptInv'
<1>1. /\ pc'[x] = "idle" /\ cmd'[x] = NoCommand /\ aborted'[x] = FALSE
      /\ \A d \in Chats \ {x} : /\ pc'[d] = pc[d] /\ cmd'[d] = cmd[d] /\ undo'[d] = undo[d]
                                /\ aborted'[d] = aborted[d]
  BY DEF Finish, Goto, TypeInv, TypeOK
<1>2. ASSUME NEW c \in Chats, Undenied(c)
      PROVE  AccessKept(c)'
  <2>1. AccessKept(c)
    BY <1>2 DEF KeptInv
  <2>2. c \in cfgAllowed' /\ ~aborted'[c]
    BY <1>1, <1>2, <2>1 DEF AccessKept
  <2>3. pc'[c] = "configSave" /\ cmd'[c].op \notin {"allow", "deny"} => undo'[c].allowed
    BY <1>1, <2>1 DEF AccessKept
  <2>4. \A d \in Chats : pc'[d] = "configSave" /\ cmd'[d].op \in {"allow", "deny"} =>
          cmd'[d].chat # c
    BY <1>1, <2>1 DEF AccessKept
  <2> QED
    BY <2>2, <2>3, <2>4 DEF AccessKept
<1>3. OwnCommands'
  BY <1>1 DEF KeptInv, OwnCommands
<1> QED
  BY <1>2, <1>3 DEF KeptInv, Undenied

LEMMA ConfigChangeKept ==
  ASSUME TypeInv, KeptInv, NEW x \in Chats,
         \/ PinModel(x) \/ UnpinModel(x) \/ AllowInConfig(x) \/ CloseAccess(x)
         \/ ConfigSaveFails(x)
  PROVE  KeptInv'
<1> DEFINE t == cmd[x].chat
<1>0. \A c \in Chats : Undenied(c) => c \in cfgAllowed /\ ~aborted[c]
  BY DEF KeptInv, AccessKept
<1>1. CASE PinModel(x)
  <2>1. SaveConfig(x, x) /\ cmd[x].op = "pin" /\ cfgAllowed' = cfgAllowed /\ aborted' = aborted
    BY <1>1 DEF PinModel, AtConfig, flagVars
  <2> QED
    BY <1>0, <2>1, SaveKept
<1>2. CASE UnpinModel(x)
  <2>1. CASE pin[x] = NoModel
    BY <1>0, <1>2, <2>1, FinishKept DEF UnpinModel
  <2>2. CASE pin[x] # NoModel
    <3>1. /\ SaveConfig(x, x) /\ cmd[x].op = "unpin" /\ cfgAllowed' = cfgAllowed \cup {x}
          /\ aborted' = aborted
      BY <1>2, <2>2 DEF UnpinModel, AtConfig, flagVars
    <3> QED
      BY <1>0, <3>1, SaveKept
  <2> QED
    BY <2>1, <2>2
<1>3. CASE AllowInConfig(x)
  <2>1. cmd[x].op = "allow" /\ aborted' = aborted /\ cmd[x] \in Command
    BY <1>3, ChatConstants DEF AllowInConfig, AtConfig, flagVars, TypeInv, TypeOK, NoCommand
  <2>2. t \in Chats
    BY <2>1, CommandType
  <2>3. CASE t \in cfgAllowed
    <3>1. /\ pc' = [pc EXCEPT ![x] = "grant"] /\ undo' = [undo EXCEPT ![x] = Remembered(t)]
          /\ UNCHANGED <<cfgAllowed, cmd, aborted>>
      BY <1>3, <2>3 DEF AllowInConfig, Goto, flagVars
    <3>2. \A d \in Chats : pc'[d] = "configSave" => pc[d] = "configSave" /\ undo'[d] = undo[d]
      BY <3>1 DEF TypeInv, TypeOK
    <3> QED
      BY <3>1, <3>2 DEF KeptInv, OwnCommands, AccessKept, Undenied
  <2>4. CASE t \notin cfgAllowed
    <3>1. SaveConfig(x, t) /\ cfgAllowed' = cfgAllowed \cup {t}
      BY <1>3, <2>4 DEF AllowInConfig
    <3> QED
      BY <1>0, <2>1, <2>2, <2>4, <3>1, SaveKept
  <2> QED
    BY <2>3, <2>4
<1>4. CASE CloseAccess(x)
  <2>1. cmd[x].op = "deny" /\ cfgAllowed' = cfgAllowed \ {t}
        /\ aborted' = [aborted EXCEPT ![t] = @ \/ (t # x /\ pc[t] # "idle")]
    BY <1>4 DEF CloseAccess, AtConfig
  <2>2. cmd[x] \in Command
    BY <2>1 DEF TypeInv, TypeOK, NoCommand
  <2>3. t \in Chats
    BY <2>1, <2>2, CommandType
  <2>4. \A c \in Chats : Undenied(c) => t # c
    BY <2>1, NotDenied DEF KeptInv
  <2>5. \A c \in Chats : Undenied(c) => c \in cfgAllowed' /\ ~aborted'[c]
    BY <1>0, <2>1, <2>4 DEF TypeInv, TypeOK
  <2>6. CASE SaveConfig(x, t)
    BY <2>1, <2>3, <2>4, <2>5, <2>6, SaveKept
  <2>7. CASE ~SaveConfig(x, t)
    <3>1. pc' = [pc EXCEPT ![x] = "purge"] /\ UNCHANGED <<cmd, undo>>
      BY <1>4, <2>7 DEF CloseAccess, Goto
    <3>2. \A d \in Chats : pc'[d] = "configSave" => pc[d] = "configSave"
      BY <3>1 DEF TypeInv, TypeOK
    <3> QED
      BY <2>5, <3>1, <3>2 DEF KeptInv, OwnCommands, AccessKept, Undenied
  <2> QED
    BY <2>6, <2>7
<1>5. CASE ConfigSaveFails(x)
  <2> DEFINE s == IF cmd[x].op \in {"allow", "deny"} THEN cmd[x].chat ELSE x
  <2>1. /\ Finish(x) /\ pc[x] = "configSave"
        /\ cfgAllowed' = IF undo[x].allowed THEN cfgAllowed \cup {s} ELSE cfgAllowed \ {s}
    BY <1>5 DEF ConfigSaveFails, Completes
  <2>2. ASSUME NEW c \in Chats, Undenied(c)
        PROVE  c \in cfgAllowed'
    <3>1. AccessKept(c)
      BY <2>2 DEF KeptInv
    <3>2. CASE cmd[x].op \in {"allow", "deny"}
      <4>1. s # c
        BY <2>1, <3>1, <3>2 DEF AccessKept
      <4> QED
        BY <1>0, <2>1, <2>2, <4>1
    <3>3. CASE cmd[x].op \notin {"allow", "deny"}
      <4>1. s = x /\ (c = x => undo[x].allowed)
        BY <2>1, <3>1, <3>3 DEF AccessKept
      <4> QED
        BY <1>0, <2>1, <2>2, <4>1
    <3> QED
      BY <3>2, <3>3
  <2> QED
    BY <2>1, <2>2, FinishKept
<1> QED
  BY <1>1, <1>2, <1>3, <1>4, <1>5

LEMMA KeptStep == TypeInv /\ KeptInv /\ [Next]_vars => KeptInv'
<1> SUFFICES ASSUME TypeInv, KeptInv, [Next]_vars PROVE KeptInv'
  OBVIOUS
<1>1. ASSUME NEW c \in Chats, StartMessage(c) \/ StartCommand(c) \/ Worker(c)
      PROVE  KeptInv'
  BY <1>1, ModelTurnKeepsConfig, RoomCommandKeepsConfig, ConfigCommandKeepsConfig, KeptByConfigKept,
     ConfigChangeKept
  DEF Worker, ConfigCommand
<1>2. CASE TerminalReset
  <2>1. UNCHANGED <<cfgAllowed, pin, aborted, cmd, pc, undo>>
    BY <1>2 DEF TerminalReset, accessVars, flagVars
  <2> QED
    BY <2>1, KeptByConfigKept DEF ConfigKept
<1>3. CASE UNCHANGED vars
  BY <1>3, KeptByConfigKept DEF vars, ConfigKept
<1> QED
  BY <1>1, <1>2, <1>3 DEF Next, Rest

\* The model and role a room's history was made under: those of its next turn, or,
\* while a pin is being saved, those a failed save puts back.
ContextOfRoom(c) ==
  rooms[c] # NoRoom /\ ~PinUnderWay(c) =>
    MadeUnder(rooms[c].history, SelectedModel(pin[c], rooms[c]), rooms[c].settings.role)

PinBeingSaved(c) == pc[c] = "configSave" /\ cmd[c].op \notin {"allow", "deny"}

ContextOfPin(c) ==
  PinBeingSaved(c) =>
    /\ cmd[c].op \in {"pin", "unpin"}
    /\ rooms[c] # NoRoom =>
         MadeUnder(rooms[c].history, SelectedModel(undo[c].pin, rooms[c]),
                   rooms[c].settings.role)

\* A turn under way was begun under the room's model and role, and so was what it set
\* aside; settings that a failed save puts back fit the history as well.
ContextOfTurn(c) ==
  InFlight(c) =>
    /\ rooms[c] # NoRoom
    /\ turn[c].model = SelectedModel(pin[c], rooms[c])
    /\ turn[c].role = rooms[c].settings.role
    /\ MadeUnder(turn[c].prior.history, turn[c].model, turn[c].role)

ContextOfSave(c) ==
  Saving(c) /\ rooms[c] # NoRoom =>
    MadeUnder(rooms[c].history, SelectedModel(pin[c], [settings |-> before[c]]),
              before[c].role)

InContext(c) == ContextOfRoom(c) /\ ContextOfPin(c) /\ ContextOfTurn(c) /\ ContextOfSave(c)

ContextInv == \A c \in Chats : Undenied(c) => InContext(c)

LEMMA EmptyMadeUnder == \A model, role : MadeUnder(<<>>, model, role)
BY DEF MadeUnder

\* Which model a room selects depends on its settings alone.
LEMMA SelectedBySettings ==
  ASSUME NEW p, NEW q, NEW r, q.settings.model = r.settings.model
  PROVE  SelectedModel(p, q) = SelectedModel(p, r)
BY DEF SelectedModel

\* A command leaves no history, or the history with its model and role; a pin leaves none.
LEMMA MutationContext ==
  ASSUME NEW r \in Room, NEW command \in Command \cup {NoCommand}
  PROVE  LET m == Mutation(command, r)
         IN  \/ m.history = <<>>
             \/ /\ command.op \notin {"pin", "unpin"}
                /\ m.history = r.history
                /\ m.settings.model = r.settings.model
                /\ m.settings.role = r.settings.role
<1> DEFINE m == Mutation(command, r)
<1>1. \A q \in Room : ResetHistory(q).history = <<>>
  BY ResetHistoryType
<1>2. CASE command.op = "mode"
  <2> DEFINE q == [r EXCEPT !.settings.mode = command.mode]
  <2>1. command.mode \in Modes
    BY <1>2 DEF Command, NoCommand
  <2>2. /\ q \in Room /\ q.history = r.history
        /\ q.settings.model = r.settings.model /\ q.settings.role = r.settings.role
    BY <2>1 DEF Room, Settings
  <2>3. m = IF command.mode = "message" THEN ResetHistory(q) ELSE q
    BY <1>2 DEF Mutation
  <2> HIDE DEF q, m
  <2>4. m.history = <<>> \/ m = q
    BY <1>1, <2>2, <2>3
  <2> QED
    BY <1>2, <2>2, <2>4 DEF m
<1>3. CASE command.op = "model"
  <2> DEFINE q == [[r EXCEPT !.settings.model = command.model] EXCEPT !.wire = NoWire]
  <2>1. command.model \in Models
    BY <1>3 DEF Command, NoCommand
  <2>2. q \in Room
    BY <2>1 DEF Room, Settings
  <2>3. m = ResetHistory(q)
    BY <1>3 DEF Mutation, ResetRoomModelContext
  <2> HIDE DEF q
  <2> QED
    BY <1>1, <2>2, <2>3
<1>4. CASE command.op = "role"
  <2> DEFINE q == [r EXCEPT !.settings.role = command.role]
  <2>1. command.role \in Roles \cup {NoRole}
    BY <1>4 DEF Command, NoCommand
  <2>2. q \in Room
    BY <2>1 DEF Room, Settings
  <2>3. m = ResetHistory(q)
    BY <1>4 DEF Mutation
  <2> HIDE DEF q
  <2> QED
    BY <1>1, <2>2, <2>3
<1>5. CASE command.op \notin {"mode", "model", "role"}
  <2>1. [r EXCEPT !.wire = NoWire] \in Room
    BY DEF Room
  <2> QED
    BY <1>1, <1>5, <2>1 DEF Mutation, ResetRoomModelContext
<1> QED
  BY <1>2, <1>3, <1>4, <1>5

\* Nothing that the context of a chat's history depends on changes, but that a turn,
\* a save or a pin may have come to its end.
LEMMA ContextFrame ==
  ASSUME NEW c \in Chats, InContext(c), rooms'[c] = rooms[c], pin'[c] = pin[c],
         InFlight(c)' => InFlight(c) /\ turn'[c] = turn[c],
         Saving(c)' => Saving(c) /\ before'[c] = before[c],
         PinUnderWay(c) => PinUnderWay(c)',
         PinBeingSaved(c)' => PinBeingSaved(c) /\ cmd'[c] = cmd[c] /\ undo'[c] = undo[c]
  PROVE  InContext(c)'
<1>1. ContextOfRoom(c)'
  BY DEF InContext, ContextOfRoom, MadeUnder, SelectedModel
<1>2. ContextOfPin(c)'
  BY DEF InContext, ContextOfPin, MadeUnder, SelectedModel
<1>3. ContextOfTurn(c)'
  BY DEF InContext, ContextOfTurn, MadeUnder, SelectedModel
<1>4. ContextOfSave(c)'
  BY DEF InContext, ContextOfSave, MadeUnder, SelectedModel
<1> QED
  BY <1>1, <1>2, <1>3, <1>4 DEF InContext

\* The room of a chat whose worker has no turn in flight is replaced.
LEMMA RoomContext ==
  ASSUME NEW c \in Chats, NEW r, rooms'[c] = r,
         MadeUnder(r.history, SelectedModel(pin'[c], r), r.settings.role),
         ~InFlight(c)', pc'[c] # "configSave",
         Saving(c)' => MadeUnder(r.history, SelectedModel(pin'[c], [settings |-> before'[c]]),
                                 before'[c].role)
  PROVE  InContext(c)'
<1>1. ContextOfRoom(c)'
  BY DEF ContextOfRoom, MadeUnder, SelectedModel
<1>2. ContextOfPin(c)'
  BY DEF ContextOfPin, PinBeingSaved
<1>3. ContextOfTurn(c)'
  BY DEF ContextOfTurn
<1>4. ContextOfSave(c)'
  BY DEF ContextOfSave, MadeUnder, SelectedModel
<1> QED
  BY <1>1, <1>2, <1>3, <1>4 DEF InContext

LEMMA NoRoomContext ==
  ASSUME NEW c \in Chats, rooms'[c] = NoRoom, ~InFlight(c)', pc'[c] # "configSave"
  PROVE  InContext(c)'
BY DEF InContext, ContextOfRoom, ContextOfPin, ContextOfTurn, ContextOfSave, PinBeingSaved

\* The room a handler gets fits the chat's model and role, unless its pin is changing.
LEMMA RoomOrDefaultContext ==
  ASSUME TypeInv, NEW c \in Chats, InContext(c), ~PinUnderWay(c)
  PROVE  LET r == RoomOrDefault(c)
         IN  MadeUnder(r.history, SelectedModel(pin[c], r), r.settings.role)
<1>1. CASE rooms[c] # NoRoom
  BY <1>1 DEF RoomOrDefault, InContext, ContextOfRoom
<1>2. CASE rooms[c] = NoRoom
  BY <1>2, EmptyMadeUnder DEF RoomOrDefault, NewRoom
<1> QED
  BY <1>1, <1>2

\* What a worker does changes no other worker's state, apart from its flags.
LEMMA OthersUnchanged ==
  ASSUME TypeInv, NEW x \in Chats, NEW c \in Chats, c # x,
         StartMessage(x) \/ StartCommand(x) \/ Worker(x)
  PROVE  /\ pc'[c] = pc[c] /\ cmd'[c] = cmd[c] /\ turn'[c] = turn[c]
         /\ before'[c] = before[c] /\ undo'[c] = undo[c]
<1> DEFINE Same == /\ pc'[c] = pc[c] /\ cmd'[c] = cmd[c] /\ turn'[c] = turn[c]
                   /\ before'[c] = before[c] /\ undo'[c] = undo[c]
<1>1. ASSUME Finish(x) PROVE Same
  BY <1>1 DEF Finish, Goto, TypeInv, TypeOK
<1>2. ASSUME NEW label, Continue(x, label) PROVE Same
  BY <1>2 DEF Continue, Goto, TypeInv, TypeOK
<1>3. ASSUME NEW t, SaveConfig(x, t) PROVE Same
  BY <1>3 DEF SaveConfig, Goto, TypeInv, TypeOK
<1>4. ASSUME ModelTurn(x) \/ StartMessage(x) \/ StartCommand(x) \/ Die(x) PROVE Same
  <2>1. CASE BeginRoomTurn(x) \/ StartCommand(x)
    BY <2>1 DEF BeginRoomTurn, StartCommand, Goto, TypeInv, TypeOK
  <2>2. CASE Finish(x) \/ \E label : Continue(x, label)
    BY <1>1, <1>2, <2>2
  <2> HIDE DEF Same
  <2> QED
    BY <1>4, <2>1, <2>2
    DEF ModelTurn, StartMessage, FetchFails, FetchDone, LockForTurn, LockConfig, ProviderAnswers,
        ProviderFails, Commit, RestoreAfterFailure, Answer, Sent, Die
<1>5. ASSUME RoomCommand(x) PROVE Same
  <2>1. CASE MutateRoom(x)
    BY <2>1 DEF MutateRoom, Goto, TypeInv, TypeOK
  <2>2. CASE Finish(x) \/ \E label : Continue(x, label)
    BY <1>1, <1>2, <2>2
  <2> HIDE DEF Same
  <2> QED
    BY <1>5, <2>1, <2>2
    DEF RoomCommand, LockForRoute, LockConfig, Route, NewChat, NewChatSent, LockForMutation, LockTxn,
        RoomSaved, RoomSaveFails, RollbackSettings
<1>6. ASSUME ConfigCommand(x) PROVE Same
  <2>1. CASE Finish(x) \/ \E label : Continue(x, label)
    BY <1>1, <1>2, <2>1
  <2>2. CASE \E t : SaveConfig(x, t)
    BY <1>3, <2>2
  <2>3. CASE AllowInConfig(x) \/ CloseAccess(x)
    BY <2>3 DEF AllowInConfig, CloseAccess, SaveConfig, Goto, TypeInv, TypeOK
  <2> HIDE DEF Same
  <2> QED
    BY <1>6, <2>1, <2>2, <2>3
    DEF ConfigCommand, PinModel, UnpinModel, ConfigSaved, ConfigSaveFails, Grant, LockForSetup,
        LockConfig, SetUpRoom, LockForPurge, LockTxn, PurgeRoom, PurgeSaveEnds
<1> QED
  BY <1>4, <1>5, <1>6 DEF Worker

\* A chat that nobody denies keeps its room and its pin while others' workers work; at
\* most the setup message of an /allow makes it a room.
LEMMA OthersKeepRoom ==
  ASSUME TypeInv, KeptInv, NEW x \in Chats, NEW c \in Chats, c # x, Undenied(c),
         StartMessage(x) \/ StartCommand(x) \/ Worker(x)
  PROVE  /\ pin'[c] = pin[c]
         /\ rooms'[c] = rooms[c] \/ (rooms[c] = NoRoom /\ rooms'[c] = NewRoom(lives[c] + 1))
<1>0. AccessKept(c) /\ OwnCommands
  BY DEF KeptInv
<1>1. ASSUME NEW r, PutRoom(x, r) PROVE rooms'[c] = rooms[c]
  BY <1>1 DEF PutRoom, TypeInv, TypeOK
<1>2. ASSUME ModelTurn(x) \/ StartMessage(x) \/ StartCommand(x) \/ Die(x)
      PROVE  pin'[c] = pin[c] /\ rooms'[c] = rooms[c]
  <2>1. pin' = pin
    BY <1>2, ModelTurnKeepsConfig DEF ConfigKept
  <2>2. CASE UNCHANGED rooms \/ \E r : PutRoom(x, r)
    BY <1>1, <2>1, <2>2
  <2> QED
    BY <1>2, <2>1, <2>2
    DEF ModelTurn, StartMessage, StartCommand, FetchFails, FetchDone, LockForTurn, LockConfig,
        BeginRoomTurn, ProviderAnswers, ProviderFails, Commit, RestoreAfterFailure, Answer, Sent, Die,
        convVars
<1>3. ASSUME RoomCommand(x)
      PROVE  pin'[c] = pin[c] /\ rooms'[c] = rooms[c]
  <2>1. pin' = pin
    BY <1>3, RoomCommandKeepsConfig DEF ConfigKept
  <2>2. CASE UNCHANGED rooms \/ \E r : PutRoom(x, r)
    BY <1>1, <2>1, <2>2
  <2>3. CASE DropRoom(x)
    BY <2>1, <2>3 DEF DropRoom, TypeInv, TypeOK
  <2> QED
    BY <1>3, <2>1, <2>2, <2>3
    DEF RoomCommand, LockForRoute, LockConfig, Route, NewChat, NewChatSent, LockForMutation, LockTxn,
        MutateRoom, RoomSaved, RoomSaveFails, RollbackSettings, convVars
<1>4. CASE \/ ConfigSaved(x) \/ Grant(x) \/ LockForSetup(x) \/ LockForPurge(x) \/ PurgeSaveEnds(x)
  BY <1>4, ConfigCommandKeepsConfig
  DEF ConfigKept, ConfigSaved, Grant, LockForSetup, LockConfig, LockForPurge, LockTxn, PurgeSaveEnds,
      convVars
<1>5. CASE PinModel(x) \/ UnpinModel(x) \/ AllowInConfig(x)
  BY <1>5 DEF PinModel, UnpinModel, AllowInConfig, convVars, TypeInv, TypeOK
<1>6. CASE CloseAccess(x)
  <2>1. cmd[x].op = "deny" /\ pin' = [pin EXCEPT ![cmd[x].chat] = NoModel] /\ UNCHANGED rooms
    BY <1>6 DEF CloseAccess, AtConfig, convVars
  <2>2. cmd[x].chat # c
    BY <1>0, <2>1, NotDenied
  <2> QED
    BY <2>1, <2>2 DEF TypeInv, TypeOK
<1>7. CASE ConfigSaveFails(x)
  <2> DEFINE s == IF cmd[x].op \in {"allow", "deny"} THEN cmd[x].chat ELSE x
  <2>1. pc[x] = "configSave" /\ pin' = [pin EXCEPT ![s] = undo[x].pin] /\ UNCHANGED rooms
    BY <1>7 DEF ConfigSaveFails, Completes, convVars
  <2>2. s # c
    BY <1>0, <2>1 DEF AccessKept
  <2> QED
    BY <2>1, <2>2 DEF TypeInv, TypeOK
<1>8. CASE SetUpRoom(x)
  <2>1. pin' = pin
    BY <1>8, ConfigCommandKeepsConfig DEF ConfigKept
  <2>2. PICK t \in Chats : t = cmd[x].chat
    BY <1>8, CommandType DEF SetUpRoom, CommandOK, TypeInv
  <2>3. rooms' = [rooms EXCEPT ![t] = RoomOrDefault(t)]
    BY <1>8, <2>2 DEF SetUpRoom, PutRoom
  <2> QED
    BY <2>1, <2>3 DEF RoomOrDefault, TypeInv, TypeOK
<1>9. CASE PurgeRoom(x)
  <2>1. pin' = pin
    BY <1>9, ConfigCommandKeepsConfig DEF ConfigKept
  <2>2. cmd[x].op = "deny" /\ DropRoom(cmd[x].chat)
    BY <1>9 DEF PurgeRoom, CommandOK, TypeInv
  <2>3. cmd[x].chat # c
    BY <1>0, <2>2, NotDenied
  <2> QED
    BY <2>1, <2>2, <2>3 DEF DropRoom, TypeInv, TypeOK
<1> QED
  BY <1>2, <1>3, <1>4, <1>5, <1>6, <1>7, <1>8, <1>9 DEF Worker, ConfigCommand

LEMMA OthersContext ==
  ASSUME TypeInv, KeptInv, NEW x \in Chats, NEW c \in Chats, c # x, Undenied(c), InContext(c),
         StartMessage(x) \/ StartCommand(x) \/ Worker(x)
  PROVE  InContext(c)'
<1>1. /\ pc'[c] = pc[c] /\ cmd'[c] = cmd[c] /\ turn'[c] = turn[c]
      /\ before'[c] = before[c] /\ undo'[c] = undo[c]
  BY OthersUnchanged
<1>2. /\ pin'[c] = pin[c]
      /\ rooms'[c] = rooms[c] \/ (rooms[c] = NoRoom /\ rooms'[c] = NewRoom(lives[c] + 1))
  BY OthersKeepRoom
<1>3. CASE rooms'[c] = rooms[c]
  BY <1>1, <1>2, <1>3, ContextFrame DEF InFlight, Saving, PinUnderWay, PinBeingSaved
<1>4. CASE rooms[c] = NoRoom /\ rooms'[c] = NewRoom(lives[c] + 1)
  <2>1. rooms'[c].history = <<>>
    BY <1>4 DEF NewRoom
  <2>2. ~InFlight(c)
    BY <1>4 DEF InContext, ContextOfTurn
  <2> QED
    BY <1>1, <1>2, <2>1, <2>2, EmptyMadeUnder
    DEF InContext, ContextOfRoom, ContextOfPin, ContextOfTurn, ContextOfSave, InFlight, PinBeingSaved
<1> QED
  BY <1>2, <1>3, <1>4

\* A step of a chat's own worker that leaves its room and its pin alone.
LEMMA OwnQuietContext ==
  ASSUME TypeInv, KeptInv, NEW c \in Chats, Undenied(c), InContext(c),
         \/ StartMessage(c) \/ StartCommand(c) \/ FetchFails(c) \/ FetchDone(c) \/ LockForTurn(c)
         \/ ProviderAnswers(c) \/ ProviderFails(c) \/ Answer(c) \/ Sent(c)
         \/ LockForRoute(c) \/ NewChatSent(c) \/ LockForMutation(c) \/ RoomSaved(c)
         \/ RoomSaveFails(c) \/ AllowInConfig(c) \/ CloseAccess(c)
         \/ ConfigSaved(c) \/ Grant(c) \/ LockForSetup(c) \/ LockForPurge(c) \/ PurgeSaveEnds(c)
  PROVE  InContext(c)'
<1> DEFINE PinKept == PinUnderWay(c) => PinUnderWay(c)'
           SaveKeptHere ==
             PinBeingSaved(c)' => PinBeingSaved(c) /\ cmd'[c] = cmd[c] /\ undo'[c] = undo[c]
<1>1. rooms'[c] = rooms[c] /\ TurnsKept /\ SavesKept
  BY QuietStepKeepsTurns, QuietStepKeepsSaves DEF convVars
<1>2. CASE AllowInConfig(c) \/ CloseAccess(c)
  <2>1. pc[c] = "config" /\ cmd[c].op \in {"allow", "deny"} /\ cmd' = cmd
    BY <1>2 DEF AllowInConfig, CloseAccess, AtConfig, SaveConfig
  <2>2. PinKept /\ SaveKeptHere
    BY <2>1 DEF PinUnderWay, PinBeingSaved
  <2>3. pin'[c] = pin[c]
    <3>1. CASE AllowInConfig(c)
      BY <3>1 DEF AllowInConfig
    <3>2. CASE CloseAccess(c)
      <4>1. cmd[c].op = "deny" /\ pin' = [pin EXCEPT ![cmd[c].chat] = NoModel]
        BY <3>2 DEF CloseAccess, AtConfig
      <4>2. cmd[c].chat # c
        BY <4>1, NotDenied DEF KeptInv
      <4> QED
        BY <4>1, <4>2 DEF TypeInv, TypeOK
    <3> QED
      BY <1>2, <3>1, <3>2
  <2> HIDE DEF PinKept, SaveKeptHere
  <2> QED
    BY <1>1, <2>2, <2>3, ContextFrame DEF PinKept, SaveKeptHere, TurnsKept, SavesKept
<1>3. CASE ~(AllowInConfig(c) \/ CloseAccess(c))
  <2>1. ConfigKept
    BY <1>3, ModelTurnKeepsConfig, RoomCommandKeepsConfig, ConfigCommandKeepsConfig
    DEF ModelTurn, RoomCommand
  <2>2. pin'[c] = pin[c] /\ SaveKeptHere
    BY <2>1 DEF ConfigKept, PinBeingSaved
  <2>3. CASE LockForMutation(c)
    <3>1. pc[c] = "mutate" /\ pc'[c] = "mutating" /\ cmd' = cmd
      BY <2>3 DEF LockForMutation, LockTxn, Continue, Goto, TypeInv, TypeOK
    <3>2. PinKept
      BY <3>1 DEF PinUnderWay
    <3> HIDE DEF PinKept, SaveKeptHere
    <3> QED
      BY <1>1, <2>2, <3>2, ContextFrame DEF PinKept, SaveKeptHere, TurnsKept, SavesKept
  <2>4. CASE ConfigSaved(c)
    <3> DEFINE label == CASE cmd[c].op = "allow" -> "grant"
                          [] cmd[c].op = "deny" -> "purge"
                          [] OTHER -> "mutate"
    <3>1. Continue(c, label)
      BY <2>4 DEF ConfigSaved
    <3>2. cmd[c].op \in {"pin", "unpin"} => label = "mutate"
      OBVIOUS
    <3> HIDE DEF label
    <3>3. pc'[c] = label /\ cmd' = cmd
      BY <3>1 DEF Continue, Goto, TypeInv, TypeOK
    <3>4. PinKept
      BY <3>2, <3>3 DEF PinUnderWay
    <3> HIDE DEF PinKept, SaveKeptHere
    <3> QED
      BY <1>1, <2>2, <3>4, ContextFrame DEF PinKept, SaveKeptHere, TurnsKept, SavesKept
  <2>5. CASE ~(LockForMutation(c) \/ ConfigSaved(c))
    <3>1. pc[c] \notin {"configSave", "mutate", "mutating"}
      BY <1>3, <2>5
      DEF StartMessage, StartCommand, FetchFails, FetchDone, LockForTurn, ProviderAnswers,
          ProviderFails, Answer, Sent, LockForRoute, NewChatSent, RoomSaved, RoomSaveFails, Grant,
          LockForSetup, LockForPurge, PurgeSaveEnds, LockConfig, LockTxn, Completes
    <3>2. PinKept
      BY <3>1 DEF PinUnderWay
    <3> HIDE DEF PinKept, SaveKeptHere
    <3> QED
      BY <1>1, <2>2, <3>2, ContextFrame DEF PinKept, SaveKeptHere, TurnsKept, SavesKept
  <2> QED
    BY <2>3, <2>4, <2>5
<1> QED
  BY <1>2, <1>3

\* A turn begins: it captures the model and role the room selects.
LEMMA BeginTurnContext ==
  ASSUME TypeInv, NEW c \in Chats, InContext(c), BeginRoomTurn(c)
  PROVE  InContext(c)'
<1> DEFINE r == RoomOrDefault(c)
           model == SelectedModel(pin[c], r)
           begun == BeginTurn(r, WireOf[model])
           t == Capture(r, begun, model)
<1>1. r \in Room /\ MadeUnder(r.history, model, r.settings.role)
  BY RoomOrDefaultType, RoomOrDefaultContext DEF BeginRoomTurn, PinUnderWay, TypeInv
<1>2. WireOf[model] \in WireFormats
  BY <1>1, SelectedModelType, RoomConstants DEF TypeInv, TypeOK
<1>3. /\ begun \in Room /\ begun.settings = r.settings
      /\ begun.history = <<>> \/ begun.history = r.history
  BY <1>1, <1>2, BeginTurnType, OperationsKeepSettings
<1>4. t.model = model /\ t.role = r.settings.role /\ t.prior.history = r.history
  BY DEF Capture
<1>5. /\ PutRoom(c, begun) /\ turn' = [turn EXCEPT ![c] = t] /\ pc' = [pc EXCEPT ![c] = "call"]
      /\ pin' = pin
  BY DEF BeginRoomTurn, Goto, accessVars
<1>6. SelectedModel(pin[c], begun) = model
  BY <1>3, SelectedBySettings
<1>7. MadeUnder(begun.history, model, r.settings.role)
  BY <1>1, <1>3, EmptyMadeUnder
<1>8. begun # NoRoom
  BY <1>3, RoomConstants
<1> HIDE DEF r, model, begun, t
<1>9. rooms'[c] = begun /\ turn'[c] = t /\ pc'[c] = "call" /\ pin'[c] = pin[c]
  BY <1>5 DEF PutRoom, TypeInv, TypeOK
<1>10. ContextOfRoom(c)'
  BY <1>3, <1>6, <1>7, <1>9 DEF ContextOfRoom
<1>11. ContextOfPin(c)' /\ ContextOfSave(c)'
  BY <1>9 DEF ContextOfPin, PinBeingSaved, ContextOfSave, Saving
<1>12. ContextOfTurn(c)'
  BY <1>1, <1>3, <1>4, <1>6, <1>8, <1>9 DEF ContextOfTurn
<1> QED
  BY <1>10, <1>11, <1>12 DEF InContext

\* A turn ends: the room keeps its settings, and what it holds was made under them.
LEMMA EndTurnContext ==
  ASSUME TypeInv, KeptInv, NEW c \in Chats, Undenied(c), InContext(c),
         Commit(c) \/ RestoreAfterFailure(c)
  PROVE  InContext(c)'
<1>1. /\ pc[c] \in {"commit", "fail"} /\ pin' = pin
      /\ Finish(c) \/ Continue(c, "answer")
  BY DEF Commit, RestoreAfterFailure, accessVars
<1>2. pc'[c] \in {"idle", "answer"}
  BY <1>1 DEF Finish, Continue, Goto, TypeInv, TypeOK
<1>3. ~InFlight(c)' /\ pc'[c] # "configSave" /\ ~Saving(c)'
  BY <1>2 DEF InFlight, Saving
<1>4. /\ rooms[c] # NoRoom /\ rooms[c] \in Room
      /\ turn[c].model = SelectedModel(pin[c], rooms[c])
      /\ turn[c].role = rooms[c].settings.role
      /\ MadeUnder(turn[c].prior.history, turn[c].model, turn[c].role)
      /\ MadeUnder(rooms[c].history, turn[c].model, turn[c].role)
  BY <1>1 DEF InContext, ContextOfTurn, ContextOfRoom, InFlight, PinUnderWay, TypeInv, TypeOK
<1>5. ASSUME NEW r, PutRoom(c, r), r.settings = rooms[c].settings,
             MadeUnder(r.history, turn[c].model, turn[c].role)
      PROVE  InContext(c)'
  <2>1. rooms'[c] = r
    BY <1>5 DEF PutRoom, TypeInv, TypeOK
  <2>2. SelectedModel(pin'[c], r) = turn[c].model /\ r.settings.role = turn[c].role
    BY <1>1, <1>4, <1>5 DEF SelectedModel
  <2> QED
    BY <1>3, <1>5, <2>1, <2>2, RoomContext
<1>6. CASE UNCHANGED rooms
  <2>1. rooms'[c] = rooms[c] /\ SelectedModel(pin'[c], rooms[c]) = turn[c].model
    BY <1>1, <1>4, <1>6
  <2> QED
    BY <1>3, <1>4, <2>1, RoomContext
<1>7. CASE Commit(c) /\ SameGeneration(c)
  <2>1. PICK size \in TurnSizes : PutRoom(c, AppendTurn(rooms[c], FinishedTurn(c, size)))
    BY <1>7 DEF Commit
  <2> DEFINE t == FinishedTurn(c, size)
             q == AppendTurn(rooms[c], t)
  <2>2. t \in Turn /\ t.model = turn[c].model /\ t.role = turn[c].role
    BY RoomConstants DEF FinishedTurn, Turn, TypeInv, TypeOK, Prepared
  <2>3. q.settings = rooms[c].settings
    BY <1>4, <2>2, AppendLatest
  <2>4. \A i \in DOMAIN q.history :
          q.history[i] = t \/ \E j \in DOMAIN rooms[c].history : q.history[i] = rooms[c].history[j]
    BY <1>4, <2>2, AppendTurnType
  <2> HIDE DEF t, q
  <2>5. MadeUnder(q.history, turn[c].model, turn[c].role)
    BY <1>4, <2>2, <2>4 DEF MadeUnder
  <2>6. PutRoom(c, q)
    BY <2>1 DEF t, q
  <2> QED
    BY <1>5, <2>3, <2>5, <2>6
<1>8. CASE RestoreAfterFailure(c) /\ SameGeneration(c)
  <2> DEFINE q == RestoreFailedTurn(rooms[c], turn[c].switched, turn[c].prior)
  <2>1. PutRoom(c, q)
    BY <1>8 DEF RestoreAfterFailure
  <2>2. turn[c].prior \in Conversation /\ turn[c].switched \in BOOLEAN
    BY DEF TypeInv, TypeOK, Prepared
  <2>3. q.settings = rooms[c].settings
    BY <1>4, <2>2, OperationsKeepSettings
  <2>4. q.history = turn[c].prior.history \/ q.history = rooms[c].history
    BY <1>4, <2>2, RestoreFailedTurnType
  <2> HIDE DEF q
  <2>5. MadeUnder(q.history, turn[c].model, turn[c].role)
    BY <1>4, <2>4
  <2> QED
    BY <1>5, <2>1, <2>3, <2>5
<1> QED
  BY <1>6, <1>7, <1>8 DEF Commit, RestoreAfterFailure, convVars

\* A command of the chat itself replaces its room.
LEMMA RoomCommandContext ==
  ASSUME TypeInv, KeptInv, NEW c \in Chats, Undenied(c), InContext(c),
         Route(c) \/ NewChat(c) \/ MutateRoom(c) \/ RollbackSettings(c)
  PROVE  InContext(c)'
<1> DEFINE r == RoomOrDefault(c)
<1>0. pin' = pin /\ r \in Room
  BY RoomCommandKeepsConfig, RoomOrDefaultType DEF ConfigKept, RoomCommand, TypeInv
<1>1. CASE Route(c)
  <2>1. PutRoom(c, r) /\ ~PinUnderWay(c)
    BY <1>1 DEF Route, PinUnderWay
  <2>2. Finish(c) \/ \E label \in {"new", "config", "mutate"} : Continue(c, label)
    BY <1>1 DEF Route
  <2>3. pc'[c] \in {"idle", "new", "config", "mutate"}
    BY <2>2 DEF Finish, Continue, Goto, TypeInv, TypeOK
  <2>4. MadeUnder(r.history, SelectedModel(pin[c], r), r.settings.role)
    BY <2>1, RoomOrDefaultContext
  <2> HIDE DEF r
  <2>5. rooms'[c] = r
    BY <2>1 DEF PutRoom, TypeInv, TypeOK
  <2> QED
    BY <1>0, <2>3, <2>4, <2>5, RoomContext DEF InFlight, Saving
<1>2. CASE NewChat(c)
  <2> DEFINE q == ResetHistory(r)
  <2>1. PutRoom(c, q) /\ pc' = [pc EXCEPT ![c] = "newSend"]
    BY <1>2 DEF NewChat, Continue, Goto
  <2>2. q.history = <<>>
    BY <1>0, ResetHistoryType
  <2> HIDE DEF q
  <2>3. rooms'[c] = q /\ pc'[c] = "newSend"
    BY <2>1 DEF PutRoom, TypeInv, TypeOK
  <2> QED
    BY <2>2, <2>3, EmptyMadeUnder, RoomContext DEF InFlight, Saving
<1>3. CASE MutateRoom(c)
  <2> DEFINE q == Mutation(cmd[c], r)
  <2>1. /\ PutRoom(c, q) /\ pc' = [pc EXCEPT ![c] = "roomSave"] /\ pc[c] = "mutating"
        /\ before' = [before EXCEPT ![c] = IF rooms[c] = NoRoom THEN NoRoom ELSE rooms[c].settings]
    BY <1>3 DEF MutateRoom, Goto
  <2>2. cmd[c] \in Command \cup {NoCommand}
    BY DEF TypeInv, TypeOK
  <2>3. \/ q.history = <<>>
        \/ /\ cmd[c].op \notin {"pin", "unpin"} /\ q.history = r.history
           /\ q.settings.model = r.settings.model /\ q.settings.role = r.settings.role
    BY <1>0, <2>2, MutationContext
  <2>4. cmd[c].op \notin {"pin", "unpin"} =>
          MadeUnder(r.history, SelectedModel(pin[c], r), r.settings.role)
    BY RoomOrDefaultContext DEF PinUnderWay
  <2>5. rooms[c] # NoRoom => r = rooms[c]
    BY DEF RoomOrDefault
  <2> HIDE DEF q, r
  <2>6. rooms'[c] = q /\ pc'[c] = "roomSave"
        /\ before'[c] = IF rooms[c] = NoRoom THEN NoRoom ELSE rooms[c].settings
    BY <2>1 DEF PutRoom, TypeInv, TypeOK
  <2>7. MadeUnder(q.history, SelectedModel(pin'[c], q), q.settings.role)
    BY <1>0, <2>3, <2>4, EmptyMadeUnder, SelectedBySettings
  <2>8. ASSUME Saving(c)'
        PROVE  MadeUnder(q.history, SelectedModel(pin'[c], [settings |-> before'[c]]),
                         before'[c].role)
    <3>1. rooms[c] # NoRoom /\ before'[c] = r.settings
      BY <2>5, <2>6, <2>8 DEF Saving
    <3>2. SelectedModel(pin'[c], [settings |-> before'[c]]) = SelectedModel(pin[c], r)
      BY <1>0, <3>1 DEF SelectedModel
    <3> QED
      BY <2>3, <2>4, <3>1, <3>2, EmptyMadeUnder
  <2> QED
    BY <2>6, <2>7, <2>8, RoomContext DEF InFlight
<1>4. CASE RollbackSettings(c)
  <2>1. Finish(c) /\ pc[c] = "rollback"
    BY <1>4 DEF RollbackSettings
  <2>2. pc'[c] = "idle"
    BY <2>1 DEF Finish, Goto, TypeInv, TypeOK
  <2>3. CASE before[c] = NoRoom \/ rooms[c] = NoRoom
    <3>1. rooms'[c] = NoRoom
      BY <1>4, <2>3 DEF RollbackSettings, DropRoom, convVars, TypeInv, TypeOK
    <3> QED
      BY <2>2, <3>1, NoRoomContext DEF InFlight
  <2>4. CASE before[c] # NoRoom /\ rooms[c] # NoRoom
    <3> DEFINE q == [rooms[c] EXCEPT !.settings = before[c]]
    <3>1. PutRoom(c, q) /\ rooms[c] \in Room
      BY <1>4, <2>4 DEF RollbackSettings, TypeInv, TypeOK
    <3>2. q.settings = before[c] /\ q.history = rooms[c].history
      BY <3>1 DEF Room
    <3>3. MadeUnder(rooms[c].history, SelectedModel(pin[c], [settings |-> before[c]]),
                    before[c].role)
      BY <2>1, <2>4 DEF InContext, ContextOfSave, Saving
    <3> HIDE DEF q
    <3>4. rooms'[c] = q
      BY <3>1 DEF PutRoom, TypeInv, TypeOK
    <3>5. SelectedModel(pin'[c], q) = SelectedModel(pin[c], [settings |-> before[c]])
      BY <1>0, <3>2 DEF SelectedModel
    <3> QED
      BY <2>2, <3>2, <3>3, <3>4, <3>5, RoomContext DEF InFlight, Saving
  <2> QED
    BY <2>3, <2>4
<1> QED
  BY <1>1, <1>2, <1>3, <1>4

\* A pin is set or released, and what was pinned before is kept for a failed save.
LEMMA SavePinContext ==
  ASSUME TypeInv, NEW c \in Chats, InContext(c), SaveConfig(c, c),
         pc[c] = "config", cmd[c].op \in {"pin", "unpin"}, UNCHANGED rooms
  PROVE  InContext(c)'
<1>1. pc'[c] = "configSave" /\ undo'[c] = Remembered(c) /\ cmd' = cmd
  BY DEF SaveConfig, Goto, TypeInv, TypeOK
<1>2. undo'[c].pin = pin[c]
  BY <1>1 DEF Remembered
<1>3. rooms[c] # NoRoom =>
        MadeUnder(rooms[c].history, SelectedModel(pin[c], rooms[c]), rooms[c].settings.role)
  BY DEF InContext, ContextOfRoom, PinUnderWay
<1>4. ContextOfRoom(c)' /\ ContextOfTurn(c)' /\ ContextOfSave(c)'
  BY <1>1 DEF ContextOfRoom, PinUnderWay, ContextOfTurn, InFlight, ContextOfSave, Saving
<1>5. rooms'[c] = rooms[c] /\ cmd'[c].op \in {"pin", "unpin"}
  BY <1>1
<1>6. ContextOfPin(c)'
  BY <1>2, <1>3, <1>5 DEF ContextOfPin
<1> QED
  BY <1>4, <1>6 DEF InContext

LEMMA ConfigCommandContext ==
  ASSUME TypeInv, KeptInv, NEW c \in Chats, Undenied(c), InContext(c),
         \/ PinModel(c) \/ UnpinModel(c) \/ ConfigSaveFails(c) \/ SetUpRoom(c) \/ PurgeRoom(c)
  PROVE  InContext(c)'
<1>0. ASSUME Finish(c) PROVE pc'[c] = "idle"
  BY <1>0 DEF Finish, Goto, TypeInv, TypeOK
<1>1. CASE PinModel(c)
  BY <1>1, SavePinContext DEF PinModel, AtConfig, convVars
<1>2. CASE UnpinModel(c)
  <2>1. CASE pin[c] = NoModel
    <3>1. Finish(c) /\ rooms' = rooms /\ pin' = pin /\ pc[c] = "config"
      BY <1>2, <2>1 DEF UnpinModel, AtConfig, convVars
    <3>2. pc'[c] = "idle"
      BY <1>0, <3>1
    <3> QED
      BY <3>1, <3>2, ContextFrame DEF InFlight, Saving, PinUnderWay, PinBeingSaved
  <2>2. CASE pin[c] # NoModel
    BY <1>2, <2>2, SavePinContext DEF UnpinModel, AtConfig, convVars
  <2> QED
    BY <2>1, <2>2
<1>3. CASE ConfigSaveFails(c)
  <2> DEFINE s == IF cmd[c].op \in {"allow", "deny"} THEN cmd[c].chat ELSE c
  <2>1. /\ pc[c] = "configSave" /\ Finish(c) /\ rooms' = rooms
        /\ pin' = [pin EXCEPT ![s] = undo[c].pin]
    BY <1>3 DEF ConfigSaveFails, Completes, convVars
  <2>2. pc'[c] = "idle"
    BY <1>0, <2>1
  <2>3. CASE cmd[c].op \in {"allow", "deny"}
    <3>1. s # c
      BY <2>1, <2>3 DEF KeptInv, AccessKept
    <3>2. pin'[c] = pin[c]
      BY <2>1, <3>1 DEF TypeInv, TypeOK
    <3> QED
      BY <2>1, <2>2, <2>3, <3>2, ContextFrame DEF InFlight, Saving, PinUnderWay, PinBeingSaved
  <2>4. CASE cmd[c].op \notin {"allow", "deny"}
    <3>1. pin'[c] = undo[c].pin
      BY <2>1, <2>4 DEF TypeInv, TypeOK
    <3>2. CASE rooms[c] = NoRoom
      BY <2>1, <2>2, <3>2, NoRoomContext DEF InFlight
    <3>3. CASE rooms[c] # NoRoom
      <4>1. MadeUnder(rooms[c].history, SelectedModel(undo[c].pin, rooms[c]),
                      rooms[c].settings.role)
        BY <2>1, <2>4, <3>3 DEF InContext, ContextOfPin, PinBeingSaved
      <4>2. SelectedModel(pin'[c], rooms[c]) = SelectedModel(undo[c].pin, rooms[c])
            /\ rooms'[c] = rooms[c]
        BY <2>1, <3>1
      <4> QED
        BY <2>2, <4>1, <4>2, RoomContext DEF InFlight, Saving
    <3> QED
      BY <3>2, <3>3
  <2> QED
    BY <2>3, <2>4
<1>4. CASE SetUpRoom(c)
  <2>1. PICK t \in Chats : t = cmd[c].chat
    BY <1>4, CommandType DEF SetUpRoom, CommandOK, TypeInv
  <2>2. /\ rooms' = [rooms EXCEPT ![t] = RoomOrDefault(t)] /\ Finish(c) /\ pc[c] = "setupLocked"
        /\ pin' = pin
    BY <1>4, <2>1 DEF SetUpRoom, PutRoom, accessVars
  <2>3. pc'[c] = "idle" /\ ~PinUnderWay(c)
    BY <1>0, <2>2 DEF PinUnderWay
  <2>4. rooms'[c] = rooms[c] \/ rooms'[c] = RoomOrDefault(c)
    BY <2>2 DEF TypeInv, TypeOK
  <2>5. CASE rooms'[c] = rooms[c]
    BY <2>2, <2>3, <2>5, ContextFrame DEF InFlight, Saving, PinBeingSaved
  <2>6. CASE rooms'[c] = RoomOrDefault(c)
    <3> DEFINE r == RoomOrDefault(c)
    <3>1. MadeUnder(r.history, SelectedModel(pin[c], r), r.settings.role)
      BY <2>3, RoomOrDefaultContext
    <3> HIDE DEF r
    <3>2. rooms'[c] = r
      BY <2>6 DEF r
    <3> QED
      BY <2>2, <2>3, <3>1, <3>2, RoomContext DEF InFlight, Saving
  <2> QED
    BY <2>4, <2>5, <2>6
<1>5. CASE PurgeRoom(c)
  <2>1. /\ Continue(c, "purgeSave") /\ cmd[c].op = "deny" /\ DropRoom(cmd[c].chat) /\ pin' = pin
        /\ pc[c] = "purging"
    BY <1>5 DEF PurgeRoom, CommandOK, TypeInv, accessVars
  <2>2. cmd[c].chat # c
    BY <2>1, NotDenied DEF KeptInv
  <2>3. rooms'[c] = rooms[c]
    BY <2>1, <2>2 DEF DropRoom, TypeInv, TypeOK
  <2>4. pc'[c] = "purgeSave"
    BY <2>1 DEF Continue, Goto, TypeInv, TypeOK
  <2> QED
    BY <2>1, <2>3, <2>4, ContextFrame DEF InFlight, Saving, PinUnderWay, PinBeingSaved
<1> QED
  BY <1>1, <1>2, <1>3, <1>4, <1>5

LEMMA TerminalResetContext ==
  ASSUME TypeInv, NEW c \in Chats, InContext(c), TerminalReset
  PROVE  InContext(c)'
<1>1. /\ UNCHANGED <<pin, pc, cmd, turn, before, undo>>
      /\ rooms'[c] = IF rooms[c] = NoRoom THEN NoRoom ELSE ResetHistory(rooms[c])
  BY DEF TerminalReset, accessVars
<1>2. CASE rooms[c] = NoRoom
  BY <1>1, <1>2, ContextFrame DEF InFlight, Saving, PinUnderWay, PinBeingSaved
<1>3. CASE rooms[c] # NoRoom
  <2> DEFINE q == ResetHistory(rooms[c])
  <2>1. q \in Room /\ q.history = <<>> /\ q.settings = rooms[c].settings
    BY <1>3, ResetHistoryType, OperationsKeepSettings DEF TypeInv, TypeOK
  <2>2. q # NoRoom
    BY <2>1, RoomConstants
  <2>3. rooms'[c] = q
    BY <1>1, <1>3
  <2> HIDE DEF q
  <2>4. ContextOfRoom(c)' /\ ContextOfSave(c)'
    BY <2>1, <2>3, EmptyMadeUnder DEF ContextOfRoom, ContextOfSave
  <2>5. ContextOfPin(c)'
    BY <1>1, <2>1, <2>3, EmptyMadeUnder DEF InContext, ContextOfPin, PinBeingSaved
  <2>6. SelectedModel(pin[c], q) = SelectedModel(pin[c], rooms[c])
    BY <2>1, SelectedBySettings
  <2>7. ContextOfTurn(c)'
    BY <1>1, <2>1, <2>2, <2>3, <2>6 DEF InContext, ContextOfTurn, InFlight, MadeUnder
  <2> QED
    BY <2>4, <2>5, <2>7 DEF InContext
<1> QED
  BY <1>2, <1>3

LEMMA ContextStep == TypeInv /\ KeptInv /\ ContextInv /\ [Next]_vars => ContextInv'
<1> SUFFICES ASSUME TypeInv, KeptInv, ContextInv, [Next]_vars, NEW c \in Chats, Undenied(c)
             PROVE  InContext(c)'
  BY DEF ContextInv, Undenied
<1>0. InContext(c) /\ ~aborted[c]
  BY DEF ContextInv, KeptInv, AccessKept
<1>1. ASSUME NEW x \in Chats, x # c, StartMessage(x) \/ StartCommand(x) \/ Worker(x)
      PROVE  InContext(c)'
  BY <1>0, <1>1, OthersContext
<1>2. CASE StartMessage(c) \/ StartCommand(c) \/ Worker(c)
  BY <1>0, <1>2, OwnQuietContext, BeginTurnContext, EndTurnContext, RoomCommandContext,
     ConfigCommandContext
  DEF Worker, ModelTurn, RoomCommand, ConfigCommand, Die
<1>3. CASE TerminalReset
  BY <1>0, <1>3, TerminalResetContext
<1>4. CASE UNCHANGED vars
  BY <1>0, <1>4, ContextFrame DEF vars, InFlight, Saving, PinUnderWay, PinBeingSaved
<1> QED
  BY <1>1, <1>2, <1>3, <1>4 DEF Next, Rest

LEMMA AlwaysInContext == Spec => [](TypeInv /\ KeptInv /\ ContextInv)
<1>1. Init => KeptInv
  BY DEF Init, KeptInv, OwnCommands, AccessKept
<1>2. Init => ContextInv
  BY DEF Init, ContextInv, InContext, ContextOfRoom, ContextOfPin, PinBeingSaved, ContextOfTurn,
         InFlight, ContextOfSave
<1> QED
  BY <1>1, <1>2, InitType, TypeStep, KeptStep, ContextStep, PTL DEF Spec

\* Between its commands, the history of a chat that nobody denies was produced under the
\* model and the role its next turn will use, whatever other chats are denied, and however
\* its pins, saves and turns fail.
THEOREM UndeniedKeepContext ==
  Spec => [](\A c \in Chats :
               Undenied(c) /\ rooms[c] # NoRoom /\ ~PinUnderWay(c) =>
                 \A i \in DOMAIN rooms[c].history :
                   /\ rooms[c].history[i].model = SelectedModel(pin[c], rooms[c])
                   /\ rooms[c].history[i].role = rooms[c].settings.role)
<1> DEFINE Kept == \A c \in Chats :
                     Undenied(c) /\ rooms[c] # NoRoom /\ ~PinUnderWay(c) =>
                       \A i \in DOMAIN rooms[c].history :
                         /\ rooms[c].history[i].model = SelectedModel(pin[c], rooms[c])
                         /\ rooms[c].history[i].role = rooms[c].settings.role
<1>1. ContextInv => Kept
  BY DEF ContextInv, InContext, ContextOfRoom, MadeUnder
<1> HIDE DEF Kept
<1>2. Spec => []Kept
  BY <1>1, AlwaysInContext, PTL
<1> QED
  BY <1>2 DEF Kept

\* A history was produced under the model and role of the next turn (mutate_room and
\* ResetRoomModelContext see to it), as long as no chat sends a /deny.
THEOREM OneContextWithoutDeny ==
  ASSUME \A c \in Chats : Undenied(c)
  PROVE  Spec => []OneContextPerHistory
<1>1. ContextInv /\ TypeInv => OneContextPerHistory
  BY DEF ContextInv, InContext, ContextOfRoom, MadeUnder, OneContextPerHistory, TypeInv, TypeOK
<1> QED
  BY <1>1, AlwaysInContext, PTL

-----------------------------------------------------------------------------
(* What a /deny leaves.  A later /allow, and the setup message that goes with *)
(* it, may bring a room back before the /deny is through (section Findings of *)
(* the README), so this is about the chats that no command allows.            *)

Unallowed(t) == \A d \in Chats : [op |-> "allow", chat |-> t] \notin Commands[d]

Denying(c, t) == cmd[c].op = "deny" /\ cmd[c].chat = t
Purges(c, t) == Denying(c, t) /\ pc[c] \in {"purge", "purging", "purgeSave"}
Shutting(c, t) == Denying(c, t) /\ (pc[c] = "configSave" \/ Purges(c, t))

\* The config change of this /deny may still fail, and give t its access back.
MayReopen(c, t) == Denying(c, t) /\ pc[c] = "configSave" /\ undo[c].live

\* From the moment a /deny closes its access, a chat has none and its worker is on its
\* way out, unless it is the one that handles the /deny; and nobody will give it back
\* after a /deny has been saved.
ShutOut(t) ==
  /\ (\E c \in Chats : Shutting(c, t)) =>
       t \notin allowed /\ (pc[t] = "idle" \/ aborted[t] \/ Shutting(t, t))
  /\ (\E c \in Chats : Purges(c, t)) => \A c \in Chats : ~MayReopen(c, t)

\* The room is gone, or anew and without a turn that could still write to it.
Emptied(t) ==
  rooms[t] = NoRoom \/ (rooms[t].history = <<>> /\ pc[t] \notin {"commit", "fail"})

PurgeSaving(c, t) == Denying(c, t) /\ pc[c] = "purgeSave"

RoomEmptied(t) == \A c \in Chats : PurgeSaving(c, t) => Emptied(t)

ShutInv == \A t \in Chats : Unallowed(t) => ShutOut(t) /\ RoomEmptied(t)

\* One step of a worker that opens no access to t and begins no config change.
Moves(c, t) ==
  /\ t \in allowed' => t \in allowed
  /\ \A d \in Chats \ {c} : /\ pc'[d] = pc[d] /\ cmd'[d] = cmd[d] /\ undo'[d] = undo[d]
                            /\ aborted'[d] = aborted[d]
  /\ Shutting(c, t)' => Shutting(c, t)
  /\ Purges(c, t)' => Purges(c, t)
  /\ ~MayReopen(c, t)'
  /\ \/ pc'[c] = "idle"
     \/ /\ aborted'[c] = aborted[c]
        /\ pc[c] = "idle" => c \in allowed
        /\ Shutting(c, t) => Shutting(c, t)'

\* Nobody begins to write to a room that he had before, or to save a purge.
NoLate ==
  \A d \in Chats : pc'[d] \in {"commit", "fail", "purgeSave"} => pc'[d] = pc[d] /\ cmd'[d] = cmd[d]

LEMMA MovesShutOut ==
  ASSUME NEW c \in Chats, NEW t \in Chats, ShutOut(t), Moves(c, t)
  PROVE  ShutOut(t)'
<1>1. \A d \in Chats : (Shutting(d, t)' => Shutting(d, t)) /\ (Purges(d, t)' => Purges(d, t))
  BY DEF Moves, Shutting, Purges, Denying
<1>2. \A d \in Chats : MayReopen(d, t)' => MayReopen(d, t)
  BY DEF Moves, MayReopen, Denying
<1>3. ASSUME NEW d \in Chats, Shutting(d, t)'
      PROVE  t \notin allowed' /\ (pc'[t] = "idle" \/ aborted'[t] \/ Shutting(t, t)')
  <2>1. t \notin allowed /\ (pc[t] = "idle" \/ aborted[t] \/ Shutting(t, t))
    BY <1>1, <1>3 DEF ShutOut
  <2>2. t # c => (Shutting(t, t) => Shutting(t, t)')
    BY DEF Moves, Shutting, Purges, Denying
  <2> QED
    BY <2>1, <2>2 DEF Moves
<1>4. (\E d \in Chats : Purges(d, t)') => \A d \in Chats : ~MayReopen(d, t)'
  BY <1>1, <1>2 DEF ShutOut
<1> QED
  BY <1>3, <1>4 DEF ShutOut

LEMMA FinishMoves ==
  ASSUME TypeInv, NEW c \in Chats, NEW t \in Chats, Finish(c), allowed' = allowed
  PROVE  Moves(c, t) /\ NoLate
<1>1. /\ pc'[c] = "idle" /\ cmd'[c] = NoCommand
      /\ \A d \in Chats \ {c} : /\ pc'[d] = pc[d] /\ cmd'[d] = cmd[d] /\ undo'[d] = undo[d]
                                /\ aborted'[d] = aborted[d]
  BY DEF Finish, Goto, TypeInv, TypeOK
<1> QED
  BY <1>1 DEF Moves, NoLate, Shutting, Purges, MayReopen

LEMMA ContinueMoves ==
  ASSUME TypeInv, NEW c \in Chats, NEW t \in Chats, NEW label, Continue(c, label), allowed' = allowed,
         label \notin {"configSave", "purge", "purging", "purgeSave"},
         pc[c] \notin {"configSave", "purge", "purging", "purgeSave"},
         pc[c] = "idle" => c \in allowed
  PROVE  Moves(c, t) /\ (label \notin {"commit", "fail"} => NoLate)
<1>1. /\ pc' = [pc EXCEPT ![c] = label] /\ UNCHANGED <<cmd, undo, aborted>>
  BY DEF Continue, Goto
<1>2. pc'[c] = label /\ \A d \in Chats \ {c} : pc'[d] = pc[d]
  BY <1>1 DEF TypeInv, TypeOK
<1> QED
  BY <1>1, <1>2 DEF Moves, NoLate, Shutting, Purges, MayReopen

\* A worker waits for the disk with a change of the room, or looks at its next message.
LEMMA GotoMoves ==
  ASSUME TypeInv, NEW c \in Chats, NEW t \in Chats, NEW label, pc' = [pc EXCEPT ![c] = label],
         UNCHANGED <<allowed, undo, aborted>>, \A d \in Chats \ {c} : cmd'[d] = cmd[d],
         label \notin {"configSave", "purge", "purging", "purgeSave", "commit", "fail"},
         pc[c] \notin {"configSave", "purge", "purging", "purgeSave"},
         pc[c] = "idle" => c \in allowed
  PROVE  Moves(c, t) /\ NoLate
<1>1. pc'[c] = label /\ \A d \in Chats \ {c} : pc'[d] = pc[d]
  BY DEF TypeInv, TypeOK
<1> QED
  BY <1>1 DEF Moves, NoLate, Shutting, Purges, MayReopen

LEMMA ModelTurnMoves ==
  ASSUME TypeInv, NEW c \in Chats, NEW t \in Chats,
         ModelTurn(c) \/ StartMessage(c) \/ StartCommand(c) \/ Die(c)
  PROVE  Moves(c, t) /\ (ProviderAnswers(c) \/ ProviderFails(c) \/ NoLate)
<1>1. CASE FetchFails(c) \/ FetchDone(c) \/ LockForTurn(c) \/ StartMessage(c)
  BY <1>1, FinishMoves, ContinueMoves
  DEF FetchFails, FetchDone, LockForTurn, LockConfig, StartMessage, Completes, accessVars
<1>2. CASE ProviderAnswers(c) \/ ProviderFails(c) \/ Answer(c) \/ Sent(c)
  BY <1>2, FinishMoves, ContinueMoves
  DEF ProviderAnswers, ProviderFails, Answer, Sent, Completes, accessVars
<1>3. CASE Commit(c) \/ RestoreAfterFailure(c)
  <2>1. /\ Finish(c) \/ Continue(c, "answer")
        /\ allowed' = allowed /\ pc[c] \in {"commit", "fail"}
    BY <1>3 DEF Commit, RestoreAfterFailure, accessVars
  <2> QED
    BY <2>1, FinishMoves, ContinueMoves
<1>4. CASE BeginRoomTurn(c)
  <2>1. /\ UNCHANGED <<allowed, aborted, cmd, undo>> /\ pc' = [pc EXCEPT ![c] = "call"]
        /\ pc[c] = "beginLocked"
    BY <1>4 DEF BeginRoomTurn, Goto, accessVars, flagVars
  <2> QED
    BY <2>1, GotoMoves
<1>5. CASE StartCommand(c)
  <2>1. /\ UNCHANGED <<allowed, aborted, undo>> /\ pc' = [pc EXCEPT ![c] = "route"]
        /\ pc[c] = "idle" /\ c \in allowed /\ \A d \in Chats \ {c} : cmd'[d] = cmd[d]
    BY <1>5 DEF StartCommand, Goto, accessVars, flagVars, TypeInv, TypeOK
  <2> QED
    BY <2>1, GotoMoves
<1>6. CASE Die(c)
  BY <1>6, FinishMoves DEF Die, accessVars
<1> QED
  BY <1>1, <1>2, <1>3, <1>4, <1>5, <1>6 DEF ModelTurn

LEMMA RoomCommandMoves ==
  ASSUME TypeInv, NEW c \in Chats, NEW t \in Chats, RoomCommand(c)
  PROVE  Moves(c, t) /\ NoLate
<1>1. CASE LockForRoute(c) \/ NewChat(c) \/ NewChatSent(c) \/ LockForMutation(c)
  BY <1>1, FinishMoves, ContinueMoves
  DEF LockForRoute, LockConfig, NewChat, NewChatSent, LockForMutation, LockTxn, accessVars
<1>2. CASE Route(c)
  <2>1. /\ Finish(c) \/ \E label \in {"new", "config", "mutate"} : Continue(c, label)
        /\ allowed' = allowed /\ pc[c] = "routeLocked"
    BY <1>2 DEF Route, accessVars
  <2> QED
    BY <2>1, FinishMoves, ContinueMoves
<1>3. CASE RoomSaved(c) \/ RoomSaveFails(c)
  BY <1>3, FinishMoves, ContinueMoves DEF RoomSaved, RoomSaveFails, Completes, accessVars
<1>4. CASE MutateRoom(c)
  <2>1. /\ UNCHANGED <<allowed, aborted, cmd, undo>> /\ pc' = [pc EXCEPT ![c] = "roomSave"]
        /\ pc[c] = "mutating"
    BY <1>4 DEF MutateRoom, Goto, accessVars, flagVars
  <2> QED
    BY <2>1, GotoMoves
<1>5. CASE RollbackSettings(c)
  <2>1. Finish(c) /\ allowed' = allowed
    BY <1>5 DEF RollbackSettings, accessVars
  <2> QED
    BY <2>1, FinishMoves
<1> QED
  BY <1>1, <1>2, <1>3, <1>4, <1>5 DEF RoomCommand

\* The chat that an /allow under way opens is not one that nobody allows.
LEMMA NotAllowed ==
  ASSUME TypeInv, OwnCommands, NEW t \in Chats, Unallowed(t), NEW d \in Chats,
         cmd[d].op = "allow"
  PROVE  cmd[d].chat \in Chats /\ cmd[d].chat # t
<1>1. cmd[d] # NoCommand
  BY DEF NoCommand
<1>2. cmd[d] \in Commands[d] /\ cmd[d] \in Command
  BY <1>1, ChatConstants DEF OwnCommands
<1>3. cmd[d] \in [op : {"allow", "deny"}, chat : Chats]
  BY <1>2 DEF Command
<1>4. cmd[d] = [op |-> "allow", chat |-> cmd[d].chat]
  BY <1>3
<1> QED
  BY <1>2, <1>3, <1>4 DEF Unallowed

\* A config change other than a /deny begins to be saved.
LEMMA SaveMoves ==
  ASSUME TypeInv, NEW c \in Chats, NEW t \in Chats, NEW s, SaveConfig(c, s), pc[c] = "config",
         cmd[c].op # "deny", UNCHANGED <<allowed, aborted>>
  PROVE  Moves(c, t) /\ NoLate
<1>1. /\ pc'[c] = "configSave" /\ cmd' = cmd
      /\ \A d \in Chats \ {c} : pc'[d] = pc[d] /\ undo'[d] = undo[d]
  BY DEF SaveConfig, Goto, TypeInv, TypeOK
<1> QED
  BY <1>1 DEF Moves, NoLate, Shutting, Purges, MayReopen, Denying

LEMMA ConfigCommandMoves ==
  ASSUME TypeInv, OwnCommands, NEW c \in Chats, NEW t \in Chats, Unallowed(t),
         \/ PinModel(c) \/ UnpinModel(c) \/ AllowInConfig(c) \/ Grant(c) \/ LockForSetup(c)
         \/ SetUpRoom(c) \/ LockForPurge(c) \/ PurgeRoom(c) \/ PurgeSaveEnds(c)
  PROVE  Moves(c, t) /\ (PurgeRoom(c) \/ NoLate)
<1>1. CASE PinModel(c)
  BY <1>1, SaveMoves DEF PinModel, AtConfig, flagVars
<1>2. CASE UnpinModel(c)
  <2>1. pc[c] = "config" /\ cmd[c].op # "deny" /\ allowed' = allowed
    BY <1>2 DEF UnpinModel, AtConfig
  <2>2. Finish(c) \/ (SaveConfig(c, c) /\ aborted' = aborted)
    BY <1>2 DEF UnpinModel, flagVars
  <2> QED
    BY <2>1, <2>2, SaveMoves, FinishMoves
<1>3. CASE AllowInConfig(c)
  <2>1. /\ pc[c] = "config" /\ cmd[c].op # "deny" /\ UNCHANGED <<allowed, aborted>>
    BY <1>3 DEF AllowInConfig, AtConfig, flagVars
  <2>2. CASE SaveConfig(c, cmd[c].chat)
    BY <2>1, <2>2, SaveMoves
  <2>3. CASE ~SaveConfig(c, cmd[c].chat)
    <3>1. /\ pc' = [pc EXCEPT ![c] = "grant"] /\ cmd' = cmd
          /\ undo' = [undo EXCEPT ![c] = Remembered(cmd[c].chat)]
      BY <1>3, <2>3 DEF AllowInConfig, Goto
    <3>2. /\ pc'[c] = "grant"
          /\ \A d \in Chats \ {c} : pc'[d] = pc[d] /\ undo'[d] = undo[d]
      BY <3>1 DEF TypeInv, TypeOK
    <3> QED
      BY <2>1, <3>1, <3>2 DEF Moves, NoLate, Shutting, Purges, MayReopen, Denying
  <2> QED
    BY <2>2, <2>3
<1>4. CASE Grant(c)
  <2>1. /\ pc[c] = "grant" /\ allowed' = allowed \cup {cmd[c].chat} /\ cmd[c].op = "allow"
        /\ Finish(c) \/ Continue(c, "setup")
    BY <1>4 DEF Grant, TypeInv, CommandOK
  <2>2. t \in allowed' => t \in allowed
    BY <2>1, NotAllowed
  <2>3. /\ \A d \in Chats \ {c} : /\ pc'[d] = pc[d] /\ cmd'[d] = cmd[d] /\ undo'[d] = undo[d]
                                  /\ aborted'[d] = aborted[d]
        /\ pc'[c] \in {"idle", "setup"} /\ (pc'[c] = "setup" => aborted'[c] = aborted[c])
    BY <2>1 DEF Finish, Continue, Goto, TypeInv, TypeOK
  <2> QED
    BY <2>1, <2>2, <2>3 DEF Moves, NoLate, Shutting, Purges, MayReopen, Denying
<1>5. CASE LockForSetup(c) \/ SetUpRoom(c) \/ PurgeSaveEnds(c)
  <2>1. /\ allowed' = allowed
        /\ Finish(c) \/ (Continue(c, "setupLocked") /\ pc[c] = "setup")
    BY <1>5 DEF LockForSetup, LockConfig, SetUpRoom, PurgeSaveEnds, accessVars
  <2> QED
    BY <2>1, FinishMoves, ContinueMoves
<1>6. CASE LockForPurge(c) \/ PurgeRoom(c)
  <2>1. /\ allowed' = allowed /\ UNCHANGED <<cmd, undo, aborted>>
        /\ \E label \in {"purging", "purgeSave"} :
             /\ pc' = [pc EXCEPT ![c] = label] /\ pc[c] \in {"purge", "purging"}
             /\ PurgeRoom(c) \/ label = "purging"
    BY <1>6 DEF LockForPurge, LockTxn, PurgeRoom, Continue, Goto, accessVars
  <2>2. /\ \A d \in Chats \ {c} : pc'[d] = pc[d]
        /\ pc'[c] \in {"purging", "purgeSave"} /\ pc[c] \in {"purge", "purging"}
        /\ PurgeRoom(c) \/ pc'[c] = "purging"
    BY <2>1 DEF TypeInv, TypeOK
  <2> QED
    BY <2>1, <2>2 DEF Moves, NoLate, Shutting, Purges, MayReopen, Denying
<1> QED
  BY <1>1, <1>2, <1>3, <1>4, <1>5, <1>6

\* A /deny closes access: of its target it knows that it had some, or that it had none.
LEMMA CloseAccessShutOut ==
  ASSUME TypeInv, LocksHeld, NEW c \in Chats, NEW t \in Chats, ShutOut(t), CloseAccess(c)
  PROVE  ShutOut(t)' /\ NoLate
<1> DEFINE u == cmd[c].chat
<1>1. /\ pc[c] = "config" /\ cmd[c].op = "deny" /\ configLock = Nobody /\ cmd' = cmd
      /\ allowed' = allowed \ {u}
      /\ aborted' = [aborted EXCEPT ![u] = @ \/ (u # c /\ pc[u] # "idle")]
      /\ \/ pc' = [pc EXCEPT ![c] = "configSave"] /\ undo' = [undo EXCEPT ![c] = Remembered(u)]
         \/ pc' = [pc EXCEPT ![c] = "purge"] /\ undo' = undo
  BY DEF CloseAccess, AtConfig, SaveConfig, Goto
<1>2. \A d \in Chats : pc[d] # "configSave"
  BY <1>1, ChatConstants DEF LocksHeld, HoldsConfig
<1>3. /\ \A d \in Chats \ {c} : pc'[d] = pc[d] /\ undo'[d] = undo[d]
      /\ pc'[c] \in {"configSave", "purge"}
      /\ pc'[c] = "configSave" => undo'[c].live = (u \in allowed)
  <2>1. \A s : Remembered(s).live = (s \in allowed)
    BY DEF Remembered
  <2> QED
    BY <1>1, <2>1 DEF TypeInv, TypeOK
<1>4. u \in Chats
  BY <1>1, CommandType, ChatConstants DEF TypeInv, TypeOK, NoCommand
<1>5. aborted'[t] = (aborted[t] \/ (t = u /\ t # c /\ pc[t] # "idle"))
  BY <1>1, <1>4 DEF TypeInv, TypeOK
<1> HIDE DEF u
<1>6. \A d \in Chats \ {c} : (Shutting(d, t)' <=> Shutting(d, t)) /\ (Purges(d, t)' <=> Purges(d, t))
                             /\ ~MayReopen(d, t)'
  BY <1>1, <1>2, <1>3 DEF Shutting, Purges, Denying, MayReopen
<1>7. Shutting(c, t)' <=> t = u
  BY <1>1, <1>3 DEF Shutting, Purges, Denying, u
<1>8. NoLate
  BY <1>1, <1>3 DEF NoLate
<1>9. CASE t = u
  <2>1. t \notin allowed' /\ (pc'[t] = "idle" \/ aborted'[t] \/ Shutting(t, t)')
    BY <1>1, <1>3, <1>5, <1>7, <1>9
  <2>2. ASSUME NEW e \in Chats, Purges(e, t)', MayReopen(c, t)'
        PROVE  FALSE
    <3>1. pc'[c] = "configSave" /\ undo'[c].live
      BY <2>2 DEF MayReopen
    <3>2. t \in allowed /\ e # c
      BY <1>3, <1>9, <2>2, <3>1 DEF Purges
    <3>3. Shutting(e, t)
      BY <1>6, <2>2, <3>2 DEF Shutting, Purges
    <3> QED
      BY <3>2, <3>3 DEF ShutOut
  <2>3. (\E e \in Chats : Purges(e, t)') => \A d \in Chats : ~MayReopen(d, t)'
    BY <1>6, <2>2
  <2> QED
    BY <1>8, <2>1, <2>3 DEF ShutOut
<1>10. CASE t # u
  <2>1. /\ ~Shutting(c, t)' /\ ~Purges(c, t)' /\ ~MayReopen(c, t)' /\ ~Shutting(c, t)
    BY <1>1, <1>3, <1>10 DEF Shutting, Purges, Denying, MayReopen, u
  <2>2. t \in allowed' => t \in allowed
    BY <1>1
  <2>3. pc[t] = "idle" => pc'[t] = "idle"
    BY <1>1, <1>3
  <2>4. \A e \in Chats : (Shutting(e, t)' => Shutting(e, t)) /\ ~MayReopen(e, t)'
    BY <1>6, <2>1
  <2>5. Shutting(t, t) => Shutting(t, t)'
    BY <1>6, <2>1
  <2> QED
    BY <1>5, <1>8, <2>2, <2>3, <2>4, <2>5 DEF ShutOut
<1> QED
  BY <1>9, <1>10

\* The config is saved, or is not: only who holds its lock can say so.
LEMMA ConfigSaveShutOut ==
  ASSUME TypeInv, LocksHeld, NEW c \in Chats, NEW t \in Chats, ShutOut(t),
         ConfigSaved(c) \/ ConfigSaveFails(c)
  PROVE  ShutOut(t)' /\ NoLate
<1>1. pc[c] = "configSave"
  BY DEF ConfigSaved, ConfigSaveFails, Completes
<1>2. \A d \in Chats \ {c} : pc[d] # "configSave"
  BY <1>1, ChatConstants DEF LocksHeld, HoldsConfig
<1>3. CASE ConfigSaved(c)
  <2> DEFINE label == CASE cmd[c].op = "allow" -> "grant"
                        [] cmd[c].op = "deny" -> "purge"
                        [] OTHER -> "mutate"
  <2>1. Continue(c, label) /\ allowed' = allowed
    BY <1>3 DEF ConfigSaved, accessVars
  <2>2. /\ label \in {"grant", "purge", "mutate"}
        /\ label = "purge" <=> cmd[c].op = "deny"
    OBVIOUS
  <2> HIDE DEF label
  <2>3. /\ pc'[c] = label /\ UNCHANGED <<cmd, undo, aborted>>
        /\ \A d \in Chats \ {c} : pc'[d] = pc[d]
    BY <2>1 DEF Continue, Goto, TypeInv, TypeOK
  <2>4. \A d \in Chats : (Shutting(d, t)' <=> Shutting(d, t)) /\ ~MayReopen(d, t)'
    BY <1>1, <1>2, <2>2, <2>3 DEF Shutting, Purges, Denying, MayReopen
  <2>5. pc[t] = "idle" => pc'[t] = "idle"
    BY <1>1, <2>3
  <2>6. NoLate
    BY <2>2, <2>3 DEF NoLate
  <2> QED
    BY <2>1, <2>3, <2>4, <2>5, <2>6 DEF ShutOut
<1>4. CASE ConfigSaveFails(c)
  <2>1. Finish(c)
    BY <1>4 DEF ConfigSaveFails
  <2>2. /\ pc'[c] = "idle" /\ cmd'[c] = NoCommand
        /\ \A d \in Chats \ {c} : /\ pc'[d] = pc[d] /\ cmd'[d] = cmd[d] /\ undo'[d] = undo[d]
                                  /\ aborted'[d] = aborted[d]
    BY <2>1 DEF Finish, Goto, TypeInv, TypeOK
  <2>3. NoLate /\ \A d \in Chats : ~MayReopen(d, t)'
    BY <1>2, <2>2 DEF NoLate, MayReopen
  <2>4. ASSUME NEW d \in Chats, Shutting(d, t)'
        PROVE  t \notin allowed' /\ (pc'[t] = "idle" \/ aborted'[t] \/ Shutting(t, t)')
    <3>1. d # c /\ Purges(d, t)
      BY <1>2, <2>2, <2>4 DEF Shutting, Purges, Denying
    <3>2. /\ t \notin allowed /\ ~MayReopen(c, t)
          /\ pc[t] = "idle" \/ aborted[t] \/ Shutting(t, t)
      <4>1. Shutting(d, t) /\ Purges(d, t)
        BY <3>1 DEF Shutting, Purges
      <4> QED
        BY <4>1 DEF ShutOut
    <3>3. t \in allowed' => t \in allowed
      <4>1. CASE cmd[c].op = "deny"
        BY <1>1, <1>4, <3>2, <4>1 DEF ConfigSaveFails, MayReopen, Denying
      <4>2. CASE cmd[c].op # "deny"
        BY <1>4, <4>2 DEF ConfigSaveFails
      <4> QED
        BY <4>1, <4>2
    <3>4. t # c => (Shutting(t, t) => Shutting(t, t)')
      BY <2>2 DEF Shutting, Purges, Denying
    <3> QED
      BY <2>2, <3>2, <3>3, <3>4
  <2> QED
    BY <2>3, <2>4 DEF ShutOut
<1> QED
  BY <1>3, <1>4

\* A room stays empty as long as no turn of before the purge writes to it.
LEMMA RoomStaysEmptied ==
  ASSUME NEW t \in Chats, RoomEmptied(t), NoLate,
         (\E c \in Chats : PurgeSaving(c, t)) /\ Emptied(t) => Emptied(t)'
  PROVE  RoomEmptied(t)'
BY DEF RoomEmptied, NoLate, PurgeSaving, Denying

\* No worker but its own brings such a room back.
LEMMA OthersEmptied ==
  ASSUME TypeInv, OwnCommands, NEW c \in Chats, NEW t \in Chats, c # t, Unallowed(t),
         RoomEmptied(t), NoLate, StartMessage(c) \/ StartCommand(c) \/ Worker(c)
  PROVE  RoomEmptied(t)'
<1>1. pc'[t] = pc[t] /\ (rooms'[t] = rooms[t] \/ rooms'[t] = NoRoom)
  <2>1. CASE SetUpRoom(c)
    <3>1. cmd[c].op = "allow" /\ rooms' = [rooms EXCEPT ![cmd[c].chat] = RoomOrDefault(cmd[c].chat)]
          /\ Finish(c)
      BY <2>1 DEF SetUpRoom, PutRoom, TypeInv, CommandOK
    <3>2. cmd[c].chat # t
      BY <3>1, NotAllowed
    <3> QED
      BY <3>1, <3>2 DEF Finish, Goto, TypeInv, TypeOK
  <2>2. CASE PurgeRoom(c)
    BY <2>2 DEF PurgeRoom, DropRoom, Continue, Goto, TypeInv, TypeOK
  <2>3. CASE BeginRoomTurn(c) \/ MutateRoom(c)
    BY <2>3 DEF BeginRoomTurn, MutateRoom, PutRoom, Goto, TypeInv, TypeOK
  <2>4. CASE Commit(c) \/ RestoreAfterFailure(c)
    <3>1. /\ Finish(c) \/ Continue(c, "answer")
          /\ UNCHANGED convVars \/ \E r : PutRoom(c, r)
      BY <2>4 DEF Commit, RestoreAfterFailure
    <3> QED
      BY <3>1 DEF Finish, Continue, Goto, PutRoom, convVars, TypeInv, TypeOK
  <2>5. CASE Route(c) \/ NewChat(c)
    <3>1. /\ Finish(c) \/ \E label : Continue(c, label)
          /\ \E r : PutRoom(c, r)
      BY <2>5 DEF Route, NewChat
    <3> QED
      BY <3>1 DEF Finish, Continue, Goto, PutRoom, TypeInv, TypeOK
  <2>6. CASE RollbackSettings(c)
    <3>1. /\ Finish(c)
          /\ UNCHANGED convVars \/ DropRoom(c) \/ \E r : PutRoom(c, r)
      BY <2>6 DEF RollbackSettings
    <3> QED
      BY <3>1 DEF Finish, Goto, PutRoom, DropRoom, convVars, TypeInv, TypeOK
  <2>7. CASE /\ UNCHANGED convVars
             /\ Finish(c) \/ \E label : pc' = [pc EXCEPT ![c] = label]
    BY <2>7 DEF Finish, Goto, convVars, TypeInv, TypeOK
  <2>8. ASSUME \/ StartMessage(c) \/ StartCommand(c) \/ FetchFails(c) \/ FetchDone(c)
               \/ LockForTurn(c) \/ ProviderAnswers(c) \/ ProviderFails(c) \/ Answer(c) \/ Sent(c)
               \/ Die(c)
        PROVE  UNCHANGED convVars /\ (Finish(c) \/ \E label : pc' = [pc EXCEPT ![c] = label])
    BY <2>8 DEF StartMessage, StartCommand, FetchFails, FetchDone, LockForTurn, LockConfig,
       ProviderAnswers, ProviderFails, Answer, Sent, Die, Continue, Goto
  <2>9. ASSUME \/ LockForRoute(c) \/ NewChatSent(c) \/ LockForMutation(c) \/ RoomSaved(c)
               \/ RoomSaveFails(c) \/ PinModel(c) \/ UnpinModel(c)
        PROVE  UNCHANGED convVars /\ (Finish(c) \/ \E label : pc' = [pc EXCEPT ![c] = label])
    BY <2>9 DEF LockForRoute, LockConfig, NewChatSent, LockForMutation, LockTxn, RoomSaved,
       RoomSaveFails, PinModel, UnpinModel, SaveConfig, Continue, Goto
  <2>10. ASSUME \/ AllowInConfig(c) \/ CloseAccess(c) \/ ConfigSaved(c) \/ ConfigSaveFails(c)
                \/ Grant(c) \/ LockForSetup(c) \/ LockForPurge(c) \/ PurgeSaveEnds(c)
         PROVE  UNCHANGED convVars /\ (Finish(c) \/ \E label : pc' = [pc EXCEPT ![c] = label])
    BY <2>10 DEF AllowInConfig, CloseAccess, ConfigSaved, ConfigSaveFails, Grant, LockForSetup,
       LockConfig, LockForPurge, LockTxn, PurgeSaveEnds, SaveConfig, Continue, Goto
  <2> QED
    BY <2>1, <2>2, <2>3, <2>4, <2>5, <2>6, <2>7, <2>8, <2>9, <2>10
    DEF Worker, ModelTurn, RoomCommand, ConfigCommand
<1>2. Emptied(t) => Emptied(t)'
  BY <1>1 DEF Emptied
<1> QED
  BY <1>2, RoomStaysEmptied

\* What t's own worker makes of a room that is empty or gone.
LEMMA OwnEmptied ==
  ASSUME TypeInv, NEW t \in Chats, RoomEmptied(t), NoLate, ShutOut(t),
         StartMessage(t) \/ StartCommand(t) \/ Worker(t), ~SetUpRoom(t), ~PurgeRoom(t)
  PROVE  RoomEmptied(t)'
<1> DEFINE r == RoomOrDefault(t)
<1> SUFFICES ASSUME Emptied(t) PROVE Emptied(t)'
  BY RoomStaysEmptied
<1>0. /\ r \in Room
      /\ pc'[t] \in {"commit", "fail"} => pc'[t] = pc[t]
  BY RoomOrDefaultType DEF NoLate, TypeInv
<1>1. pc[t] \notin {"commit", "fail"} => r.history = <<>>
  BY DEF Emptied, RoomOrDefault, NewRoom
<1>2. ASSUME rooms' = rooms PROVE Emptied(t)'
  BY <1>0, <1>2 DEF Emptied
<1>3. ASSUME NEW q, PutRoom(t, q), q.history = <<>>, pc[t] \notin {"commit", "fail"}
      PROVE  Emptied(t)'
  BY <1>0, <1>3 DEF PutRoom, Emptied, TypeInv, TypeOK
<1>4. CASE Commit(t) \/ RestoreAfterFailure(t)
  <2>1. pc[t] \in {"commit", "fail"} /\ rooms[t] = NoRoom
    BY <1>4 DEF Commit, RestoreAfterFailure, Emptied
  <2> QED
    BY <1>2, <1>4, <2>1 DEF Commit, RestoreAfterFailure, SameGeneration, convVars
<1>5. CASE BeginRoomTurn(t)
  <2> DEFINE model == SelectedModel(pin[t], r)
             begun == BeginTurn(r, WireOf[model])
  <2>1. PutRoom(t, begun) /\ pc[t] = "beginLocked"
    BY <1>5 DEF BeginRoomTurn
  <2>2. begun.history = <<>>
    BY <1>0, <1>1, <2>1, InvalidateHistoryType DEF BeginTurn, Room
  <2> HIDE DEF begun
  <2> QED
    BY <1>3, <2>1, <2>2
<1>6. CASE Route(t)
  <2>1. PutRoom(t, r) /\ pc[t] = "routeLocked"
    BY <1>6 DEF Route
  <2> HIDE DEF r
  <2> QED
    BY <1>1, <1>3, <2>1
<1>7. CASE NewChat(t)
  <2>1. PutRoom(t, ResetHistory(r)) /\ pc[t] = "new"
    BY <1>7 DEF NewChat
  <2>2. ResetHistory(r).history = <<>>
    BY <1>0, ResetHistoryType
  <2> QED
    BY <1>3, <2>1, <2>2
<1>8. CASE MutateRoom(t)
  <2> DEFINE q == Mutation(cmd[t], r)
  <2>1. PutRoom(t, q) /\ pc[t] = "mutating"
    BY <1>8 DEF MutateRoom
  <2>2. cmd[t] \in Command \cup {NoCommand}
    BY DEF TypeInv, TypeOK
  <2>3. q.history = <<>>
    BY <1>0, <1>1, <2>1, <2>2, MutationContext
  <2> HIDE DEF q
  <2> QED
    BY <1>3, <2>1, <2>3
<1>9. CASE RollbackSettings(t)
  <2>1. pc[t] = "rollback"
    BY <1>9 DEF RollbackSettings
  <2>2. CASE before[t] = NoRoom \/ rooms[t] = NoRoom
    BY <1>9, <2>2 DEF RollbackSettings, DropRoom, convVars, Emptied, TypeInv, TypeOK
  <2>3. CASE before[t] # NoRoom /\ rooms[t] # NoRoom
    <3> DEFINE q == [rooms[t] EXCEPT !.settings = before[t]]
    <3>1. PutRoom(t, q) /\ rooms[t] \in Room /\ rooms[t].history = <<>>
      BY <1>9, <2>3 DEF RollbackSettings, Emptied, TypeInv, TypeOK
    <3>2. q.history = <<>>
      BY <3>1 DEF Room
    <3> HIDE DEF q
    <3> QED
      BY <1>3, <2>1, <3>1, <3>2
  <2> QED
    BY <2>2, <2>3
<1>10. CASE rooms' = rooms
  BY <1>2, <1>10
<1>11. ASSUME ~(Commit(t) \/ RestoreAfterFailure(t) \/ BeginRoomTurn(t) \/ Route(t) \/ NewChat(t)
                  \/ MutateRoom(t) \/ RollbackSettings(t))
       PROVE  rooms' = rooms
  BY <1>11, QuietStepKeepsTurns DEF convVars, Worker, ModelTurn, RoomCommand, ConfigCommand
<1> QED
  BY <1>4, <1>5, <1>6, <1>7, <1>8, <1>9, <1>10, <1>11

\* A provider's answer, or its failure, reaches no worker that a /deny has aborted.
LEMMA LateAnswer ==
  ASSUME TypeInv, NEW c \in Chats, NEW t \in Chats, ShutOut(t), RoomEmptied(t),
         ProviderAnswers(c) \/ ProviderFails(c)
  PROVE  RoomEmptied(t)'
<1>1. /\ pc[c] = "call" /\ ~aborted[c] /\ rooms' = rooms
      /\ Finish(c) \/ \E label \in {"commit", "fail"} : Continue(c, label)
  BY DEF ProviderAnswers, ProviderFails, Completes, convVars
<1>2. /\ \A d \in Chats \ {c} : pc'[d] = pc[d] /\ cmd'[d] = cmd[d]
      /\ pc'[c] \in {"idle", "commit", "fail"}
  BY <1>1 DEF Finish, Continue, Goto, TypeInv, TypeOK
<1>3. ASSUME NEW d \in Chats, PurgeSaving(d, t)'
      PROVE  Emptied(t)'
  <2>1. d # c /\ PurgeSaving(d, t)
    BY <1>2, <1>3 DEF PurgeSaving, Denying
  <2>2. Shutting(d, t)
    BY <2>1 DEF PurgeSaving, Shutting, Purges
  <2>3. t # c
    BY <1>1, <2>2 DEF ShutOut, Shutting, Purges
  <2>4. pc'[t] = pc[t] /\ rooms'[t] = rooms[t]
    BY <1>1, <1>2, <2>3
  <2> QED
    BY <2>1, <2>4 DEF RoomEmptied, Emptied
<1> QED
  BY <1>3 DEF RoomEmptied

\* The room that a /deny takes out of memory.
LEMMA PurgeEmpties ==
  ASSUME TypeInv, NEW c \in Chats, NEW t \in Chats, RoomEmptied(t), PurgeRoom(c)
  PROVE  RoomEmptied(t)'
<1>1. /\ rooms' = [rooms EXCEPT ![cmd[c].chat] = NoRoom] /\ cmd' = cmd
      /\ pc' = [pc EXCEPT ![c] = "purgeSave"] /\ pc[c] = "purging"
  BY DEF PurgeRoom, DropRoom, Continue, Goto
<1>2. rooms'[t] = NoRoom \/ (rooms'[t] = rooms[t] /\ cmd[c].chat # t)
  BY <1>1 DEF TypeInv, TypeOK
<1>3. Emptied(t) => Emptied(t)'
  <2>1. pc'[t] \in {"commit", "fail"} => pc'[t] = pc[t]
    BY <1>1 DEF TypeInv, TypeOK
  <2> QED
    BY <1>2, <2>1 DEF Emptied
<1>4. ASSUME NEW d \in Chats, PurgeSaving(d, t)'
      PROVE  Emptied(t)'
  <2>1. CASE d = c
    BY <1>1, <1>2, <1>4, <2>1 DEF PurgeSaving, Denying, Emptied
  <2>2. CASE d # c
    <3>1. PurgeSaving(d, t)
      BY <1>1, <1>4, <2>2 DEF PurgeSaving, Denying, TypeInv, TypeOK
    <3> QED
      BY <1>3, <3>1 DEF RoomEmptied
  <2> QED
    BY <2>1, <2>2
<1> QED
  BY <1>4 DEF RoomEmptied

LEMMA ShutStep == TypeInv /\ KeptInv /\ LocksHeld /\ ShutInv /\ [Next]_vars => ShutInv'
<1> SUFFICES ASSUME TypeInv, KeptInv, LocksHeld, ShutInv, [Next]_vars, NEW t \in Chats, Unallowed(t)
             PROVE  ShutOut(t)' /\ RoomEmptied(t)'
  BY DEF ShutInv, Unallowed
<1>0. ShutOut(t) /\ RoomEmptied(t) /\ OwnCommands
  BY DEF ShutInv, KeptInv
<1>1. ASSUME NEW c \in Chats, StartMessage(c) \/ StartCommand(c) \/ Worker(c)
      PROVE  /\ ShutOut(t)'
             /\ PurgeRoom(c) \/ ProviderAnswers(c) \/ ProviderFails(c) \/ NoLate
  <2>1. CASE ModelTurn(c) \/ StartMessage(c) \/ StartCommand(c) \/ Die(c)
    BY <1>0, <2>1, ModelTurnMoves, MovesShutOut
  <2>2. CASE RoomCommand(c)
    BY <1>0, <2>2, RoomCommandMoves, MovesShutOut
  <2>3. CASE ConfigCommand(c)
    BY <1>0, <2>3, ConfigCommandMoves, MovesShutOut, CloseAccessShutOut, ConfigSaveShutOut
    DEF ConfigCommand
  <2> QED
    BY <1>1, <2>1, <2>2, <2>3 DEF Worker
<1>2. ASSUME NEW c \in Chats, StartMessage(c) \/ StartCommand(c) \/ Worker(c)
      PROVE  RoomEmptied(t)'
  <2>1. CASE PurgeRoom(c) \/ ProviderAnswers(c) \/ ProviderFails(c)
    BY <1>0, <2>1, PurgeEmpties, LateAnswer
  <2>2. CASE NoLate /\ c # t
    BY <1>0, <1>2, <2>2, OthersEmptied
  <2>3. CASE NoLate /\ c = t /\ ~SetUpRoom(t) /\ ~PurgeRoom(t)
    BY <1>0, <1>2, <2>3, OwnEmptied
  <2>4. CASE SetUpRoom(t) /\ NoLate
    <3>1. /\ rooms' = [rooms EXCEPT ![cmd[t].chat] = RoomOrDefault(cmd[t].chat)]
          /\ cmd[t].op = "allow" /\ Finish(t)
      BY <2>4 DEF SetUpRoom, PutRoom, TypeInv, CommandOK
    <3>2. cmd[t].chat # t
      BY <1>0, <3>1, NotAllowed
    <3>3. rooms'[t] = rooms[t] /\ pc'[t] = "idle"
      BY <3>1, <3>2 DEF Finish, Goto, TypeInv, TypeOK
    <3>4. Emptied(t) => Emptied(t)'
      BY <3>3 DEF Emptied
    <3> QED
      BY <1>0, <2>4, <3>4, RoomStaysEmptied
  <2> QED
    BY <1>1, <1>2, <2>1, <2>2, <2>3, <2>4
<1>3. CASE TerminalReset
  <2>1. /\ UNCHANGED <<allowed, pc, cmd, undo, aborted>>
        /\ rooms'[t] = IF rooms[t] = NoRoom THEN NoRoom ELSE ResetHistory(rooms[t])
    BY <1>3 DEF TerminalReset, accessVars, flagVars
  <2>2. rooms[t] # NoRoom => ResetHistory(rooms[t]).history = <<>>
    BY ResetHistoryType DEF TypeInv, TypeOK
  <2>3. Emptied(t) => Emptied(t)'
    BY <2>1, <2>2 DEF Emptied
  <2>4. NoLate
    BY <2>1 DEF NoLate
  <2>5. ShutOut(t)'
    BY <1>0, <2>1 DEF ShutOut, Shutting, Purges, Denying, MayReopen
  <2> QED
    BY <1>0, <2>3, <2>4, <2>5, RoomStaysEmptied
<1>4. CASE UNCHANGED vars
  BY <1>0, <1>4 DEF vars, ShutOut, Shutting, Purges, Denying, MayReopen, RoomEmptied, PurgeSaving,
     Emptied
<1> QED
  BY <1>1, <1>2, <1>3, <1>4 DEF Next, Rest

LEMMA AlwaysShut == Spec => [](TypeInv /\ ShutInv)
<1>1. Init => KeptInv
  BY DEF Init, KeptInv, OwnCommands, AccessKept
<1>2. Init => LocksHeld
  BY ChatConstants DEF Init, LocksHeld, HoldsConfig, HoldsRooms, HoldsTxn
<1>3. Init => ShutInv
  BY DEF Init, ShutInv, ShutOut, Shutting, Purges, Denying, MayReopen, RoomEmptied, PurgeSaving
<1> QED
  BY <1>1, <1>2, <1>3, InitType, TypeStep, KeptStep, LocksStep, ShutStep, PTL DEF Spec

\* A /deny that runs to its end (handle_deny_chat and remove_room) leaves a chat that no
\* command allows without a conversation, however long its aborted worker, its commands
\* and its turns linger, and whatever saves fail.
THEOREM DeniedForGood ==
  Spec => [][\A c, t \in Chats :
               Unallowed(t) /\ pc[c] = "purgeSave" /\ pc'[c] = "idle" /\ cmd[c].chat = t =>
                 rooms[t] = NoRoom \/ rooms[t].history = <<>>]_vars
<1> DEFINE Gone == \A c, t \in Chats :
                     Unallowed(t) /\ pc[c] = "purgeSave" /\ pc'[c] = "idle" /\ cmd[c].chat = t =>
                       rooms[t] = NoRoom \/ rooms[t].history = <<>>
<1>1. TypeInv /\ ShutInv => [Gone]_vars
  BY DEF TypeInv, CommandOK, ShutInv, RoomEmptied, PurgeSaving, Denying, Emptied
<1> HIDE DEF Gone
<1>2. Spec => [][Gone]_vars
  BY <1>1, AlwaysShut, PTL
<1> QED
  BY <1>2 DEF Gone

\* As long as no chat sends an /allow, a /deny that runs to its end leaves no conversation,
\* in any order of steps.
THEOREM DenyEmptiesWithoutAllow ==
  ASSUME \A t \in Chats : Unallowed(t)
  PROVE  Spec => DenyEmptiesRoom
<1> DEFINE Gone == \A c, t \in Chats :
                     pc[c] = "purgeSave" /\ ~aborted[c] /\ pc'[c] = "idle" /\ cmd[c].chat = t =>
                       \/ t \in allowed \/ DenyUnderWay(t)'
                       \/ rooms[t] = NoRoom \/ rooms[t].history = <<>>
<1>1. TypeInv /\ ShutInv => [Gone]_vars
  BY DEF TypeInv, CommandOK, ShutInv, RoomEmptied, PurgeSaving, Denying, Emptied
<1> HIDE DEF Gone
<1>2. Spec => [][Gone]_vars
  BY <1>1, AlwaysShut, PTL
<1> QED
  BY <1>2 DEF Gone, DenyEmptiesRoom
=============================================================================
