------------------------- MODULE AccessPolicyProofs -------------------------
(***************************************************************************)
(* Proofs about AccessPolicy, for every set of chats, users and requesters *)
(* and every bound.                                                        *)
(***************************************************************************)
EXTENDS AccessPolicy, TLAPS

-----------------------------------------------------------------------------
(* The inductive invariant *)

\* An actor in the middle of an operation has one.
HasOperation == \A a \in Actors : pc[a] # "idle" => op[a] \in Op

\* The config lock is held exactly while its holder saves.
LockHeldToSave ==
  /\ lock # Nobody => pc[lock] = "save"
  /\ \A a \in Actors : pc[a] = "save" => lock = a

\* What a failed save puts back is what the file holds.
BeforeIsStored == \A a \in Actors : pc[a] = "save" => before[a] = disk

\* A config being saved has all the owners of the file, and of the operation's user
\* if there is one owner more.
OwnersOnlyGrow ==
  \A a \in Actors : pc[a] = "save" =>
    /\ disk.owners \subseteq cfg.owners
    /\ op[a].kind = "pair" => cfg.owners = before[a].owners \cup ({op[a].user} \ {Nobody})

\* Who is about to become a live owner is one in the file.
OwnerIsStored == \A a \in Actors : pc[a] = "owner" => op[a].user \in disk.owners

IInv ==
  /\ TypeOK
  /\ HasOperation
  /\ LockHeldToSave
  /\ MemoryMatchesFile
  /\ BeforeIsStored
  /\ OwnersOnlyGrow
  /\ OwnerIsStored
  /\ OwnersAreDurable

-----------------------------------------------------------------------------
(* Operators *)

LEMMA NobodyIsNoActor == Nobody \notin Actors /\ Poll \in Actors /\ Requesters \subseteq Actors
BY AccessConstants DEF Actors

LEMMA NewConfigType ==
  ASSUME TypeOK, NEW o \in Op
  PROVE  /\ NewConfig(o) \in Config
         /\ cfg.owners \subseteq NewConfig(o).owners
         /\ o.kind = "pair" => NewConfig(o).owners = cfg.owners \cup ({o.user} \ {Nobody})
<1>1. cfg \in Config
  BY DEF TypeOK
<1>2. o.chat \in Chats /\ o.user \in Users \cup {Nobody}
      /\ o.kind \in {"allow", "deny", "pair", "pin", "unpin", "join"}
  BY DEF Op
<1>3. CASE o.kind \in {"allow", "join"}
  BY <1>1, <1>2, <1>3 DEF NewConfig, Config
<1>4. CASE o.kind = "pair"
  <2>1. NewConfig(o) = Paired(cfg, o.chat, o.user)
    BY <1>4 DEF NewConfig
  <2> DEFINE new == {o.user} \ {Nobody}
  <2>2. new \subseteq Users
    BY <1>2
  <2>3. NewConfig(o) = [cfg EXCEPT !.allowed = @ \cup {o.chat}, !.owners = @ \cup new]
    BY <2>1 DEF Paired
  <2> HIDE DEF new
  <2>4. NewConfig(o) \in Config /\ NewConfig(o).owners = cfg.owners \cup new
    BY <1>1, <1>2, <2>2, <2>3 DEF Config
  <2> QED
    BY <2>4 DEF new
<1>5. CASE o.kind = "pin"
  BY <1>1, <1>2, <1>5 DEF NewConfig, Config
<1>6. CASE o.kind = "unpin"
  BY <1>1, <1>2, <1>6 DEF NewConfig, Unpinned, Config
<1>7. CASE o.kind = "deny"
  BY <1>1, <1>2, <1>7 DEF NewConfig, Denied, Config
<1> QED
  BY <1>2, <1>3, <1>4, <1>5, <1>6, <1>7

\* The steps an operation can go on to after its save.
LEMMA NextSteps ==
  ASSUME NEW o \in Op, NEW b \in BOOLEAN
  PROVE  /\ AfterSave(o, b) \in {"grant", "owner", "idle"}
         /\ AfterSave(o, b) = "owner" => o.kind = "pair" /\ b
         /\ AfterFailure(o) \in {"revoke", "idle"}
BY DEF AfterSave, AfterFailure, Op

LEMMA SpendType ==
  ASSUME TypeOK, NEW what \in {"ops", "failures", "restarts"}, NEW bound, Spend(what, bound)
  PROVE  used' \in [{"ops", "failures", "restarts"} -> Nat]
BY DEF Spend, TypeOK

\* An actor that goes on keeps its operation; the others do not move.
LEMMA ContinueType ==
  ASSUME TypeOK, HasOperation, NEW a \in Actors, NEW step \in Steps, Continue(a, step),
         pc[a] # "idle"
  PROVE  /\ pc' \in [Actors -> Steps]
         /\ op' \in [Actors -> Op \cup {NoOp}]
         /\ HasOperation'
         /\ pc'[a] = step
         /\ step # "idle" => op' = op
         /\ \A b \in Actors : b # a => pc'[b] = pc[b] /\ op'[b] = op[b]
BY DEF Continue, Goto, TypeOK, HasOperation

\* A denial stops one worker and moves on; the others do not move.
LEMMA DenyType ==
  ASSUME TypeOK, HasOperation, NEW a \in Actors, NEW step \in {"idle", "save"}, Deny(a, step),
         pc[a] # "idle"
  PROVE  /\ pc' \in [Actors -> Steps]
         /\ op' \in [Actors -> Op \cup {NoOp}]
         /\ HasOperation'
         /\ live' \in SUBSET Chats
         /\ wasLive' \in [Actors -> BOOLEAN]
         /\ raced' \in SUBSET Chats
         /\ pc'[a] = step
         /\ step # "idle" => op'[a] = op[a]
         /\ \A b \in Actors : b # a /\ pc'[b] # "idle" => pc'[b] = pc[b] /\ op'[b] = op[b]
<1> DEFINE c == op[a].chat
           killed == {c} \cap (Requesters \ {a})
           cut == {op[b].chat : b \in {b \in killed : Open(b)}}
<1>1. c \in Chats
  BY DEF HasOperation, Op
<1>2. killed \subseteq Actors
  BY NobodyIsNoActor
<1>3. \A b \in killed : Open(b) => op[b].chat \in Chats
  BY <1>2 DEF HasOperation, Open, Op
<1>4. pc' = [b \in Actors |-> IF b = a THEN step ELSE IF b \in killed THEN "idle" ELSE pc[b]]
  BY DEF Deny
<1>5. op' = [b \in Actors |-> IF pc'[b] = "idle" THEN NoOp ELSE op[b]]
  BY DEF Deny
<1>6. raced' = Overlap(a, c) \cup cut
  BY DEF Deny
<1>7. live' = live \ {c} /\ wasLive' = [wasLive EXCEPT ![a] = c \in live]
  BY DEF Deny
<1>8. cut \subseteq Chats
  BY <1>3
<1>9. Overlap(a, c) \subseteq Chats
  BY <1>1 DEF Overlap, TypeOK
<1>10. pc' \in [Actors -> Steps] /\ pc'[a] = step
       /\ \A b \in Actors : b # a /\ pc'[b] # "idle" => pc'[b] = pc[b]
  BY <1>4 DEF TypeOK, Steps
<1>11. op' \in [Actors -> Op \cup {NoOp}]
  BY <1>5, <1>10 DEF TypeOK
<1>12. HasOperation'
  BY <1>5, <1>10 DEF HasOperation
<1>13. live' \in SUBSET Chats
  BY <1>7 DEF TypeOK
<1>14. wasLive' \in [Actors -> BOOLEAN]
  BY <1>7 DEF TypeOK
<1>15. raced' \in SUBSET Chats
  BY <1>6, <1>8, <1>9
<1>16. \A b \in Actors : pc'[b] # "idle" => op'[b] = op[b]
  BY <1>5
<1> HIDE DEF cut, c, killed
<1> QED
  BY <1>10, <1>11, <1>12, <1>13, <1>14, <1>15, <1>16

-----------------------------------------------------------------------------
(* The invariant is inductive *)

LEMMA InitIInv == Init => IInv
<1> SUFFICES ASSUME Init PROVE IInv
  OBVIOUS
<1>1. TypeOK
  BY DEF Init, TypeOK, Effective, Config, Steps
<1> QED
  BY <1>1 DEF Init, IInv, HasOperation, LockHeldToSave, MemoryMatchesFile, BeforeIsStored,
     OwnersOnlyGrow, OwnerIsStored, OwnersAreDurable

\* An operation begins: nothing it is about changes yet.
LEMMA BeginKeepsIInv ==
  ASSUME IInv, NEW a \in Actors, pc[a] = "idle", NEW o \in Op, NEW step \in {"config", "attempt"},
         op' = [op EXCEPT ![a] = o], Goto(a, step), Spend("ops", MaxOps),
         UNCHANGED <<cfg, disk, live, liveOwners, lock, before, wasLive, raced>>
  PROVE  IInv'
<1>1. pc' = [pc EXCEPT ![a] = step]
  BY DEF Goto
<1>2. used' \in [{"ops", "failures", "restarts"} -> Nat]
  BY SpendType DEF IInv
<1>3. TypeOK'
  BY <1>1, <1>2 DEF IInv, TypeOK, Steps
<1>4. HasOperation' /\ OwnersOnlyGrow' /\ OwnerIsStored' /\ BeforeIsStored'
  BY <1>1 DEF IInv, TypeOK, HasOperation, OwnersOnlyGrow, OwnerIsStored, BeforeIsStored
<1>5. LockHeldToSave' /\ MemoryMatchesFile' /\ OwnersAreDurable'
  BY <1>1, NobodyIsNoActor
     DEF IInv, TypeOK, LockHeldToSave, MemoryMatchesFile, OwnersAreDurable
<1> QED
  BY <1>3, <1>4, <1>5 DEF IInv

\* An operation goes on outside the config lock, to a step that does not need it;
\* it may change live access.
LEMMA MoveKeepsIInv ==
  ASSUME IInv, NEW a \in Actors, pc[a] \notin {"idle", "save"},
         NEW step \in {"config", "idle", "grant"}, Continue(a, step),
         live' \in SUBSET Chats, raced' \in SUBSET Chats,
         UNCHANGED <<cfg, disk, lock, before, wasLive, used>>,
         liveOwners' = liveOwners \/ (pc[a] = "owner" /\ liveOwners' = liveOwners \cup {op[a].user})
  PROVE  IInv'
<1>1. step \in Steps
  BY DEF Steps
<1>2. /\ pc' \in [Actors -> Steps]
      /\ op' \in [Actors -> Op \cup {NoOp}]
      /\ HasOperation'
      /\ pc'[a] = step
      /\ \A b \in Actors : b # a => pc'[b] = pc[b] /\ op'[b] = op[b]
  BY <1>1, ContinueType DEF IInv
<1>3. liveOwners' \subseteq disk.owners /\ disk.owners \subseteq Users
  BY DEF IInv, OwnerIsStored, OwnersAreDurable, TypeOK, Config
<1>4. TypeOK'
  BY <1>2, <1>3 DEF IInv, TypeOK
<1>5. OwnersOnlyGrow' /\ OwnerIsStored' /\ BeforeIsStored'
  BY <1>2 DEF IInv, OwnersOnlyGrow, OwnerIsStored, BeforeIsStored
<1>6. LockHeldToSave'
  BY <1>2, NobodyIsNoActor DEF IInv, TypeOK, LockHeldToSave
<1>7. MemoryMatchesFile' /\ OwnersAreDurable'
  BY <1>3 DEF IInv, MemoryMatchesFile, OwnersAreDurable
<1> QED
  BY <1>2, <1>4, <1>5, <1>6, <1>7 DEF IInv

\* The config is changed in memory and about to be saved.
LEMMA ChangeConfigKeepsIInv ==
  ASSUME IInv, NEW a \in Actors, ChangeConfig(a)
  PROVE  IInv'
<1> DEFINE o == op[a]
<1>1. pc[a] = "config" /\ lock = Nobody /\ o \in Op /\ cfg = disk
  BY DEF ChangeConfig, IInv, HasOperation, MemoryMatchesFile
<1>2. /\ cfg' = NewConfig(o) /\ before' = [before EXCEPT ![a] = cfg] /\ lock' = a
      /\ UNCHANGED <<disk, liveOwners, used>>
  BY DEF ChangeConfig
<1>3. /\ cfg' \in Config
      /\ cfg.owners \subseteq cfg'.owners
      /\ o.kind = "pair" => cfg'.owners = cfg.owners \cup ({o.user} \ {Nobody})
  BY <1>1, <1>2, NewConfigType DEF IInv
<1>4. /\ pc' \in [Actors -> Steps]
      /\ op' \in [Actors -> Op \cup {NoOp}]
      /\ HasOperation'
      /\ live' \in SUBSET Chats
      /\ wasLive' \in [Actors -> BOOLEAN]
      /\ raced' \in SUBSET Chats
      /\ pc'[a] = "save"
      /\ op'[a] = op[a]
      /\ \A b \in Actors : b # a /\ pc'[b] # "idle" => pc'[b] = pc[b] /\ op'[b] = op[b]
  <2>1. CASE o.kind = "deny"
    <3>1. Deny(a, "save")
      BY <2>1 DEF ChangeConfig
    <3> QED
      BY <1>1, <3>1, DenyType DEF IInv
  <2>2. CASE o.kind # "deny"
    <3>1. Continue(a, "save") /\ raced' = Overlap(a, o.chat) /\ UNCHANGED <<live, wasLive>>
      BY <2>2 DEF ChangeConfig
    <3>2. "save" \in Steps /\ o.chat \in Chats
      BY <1>1 DEF Steps, Op
    <3>3. raced' \in SUBSET Chats
      BY <3>1, <3>2 DEF Overlap, IInv, TypeOK
    <3>4. live' \in SUBSET Chats /\ wasLive' \in [Actors -> BOOLEAN]
      BY <3>1 DEF IInv, TypeOK
    <3> QED
      BY <1>1, <3>1, <3>2, <3>3, <3>4, ContinueType DEF IInv
  <2> QED
    BY <2>1, <2>2
<1>5. \A b \in Actors : pc[b] # "save"
  BY <1>1, NobodyIsNoActor DEF IInv, LockHeldToSave
<1>6. \A b \in Actors : pc'[b] = "save" => b = a
  BY <1>4, <1>5
<1>7. before' \in [Actors -> Config] /\ before'[a] = cfg
  BY <1>2 DEF IInv, TypeOK
<1>8. TypeOK'
  BY <1>2, <1>3, <1>4, <1>7 DEF IInv, TypeOK
<1>9. LockHeldToSave' /\ MemoryMatchesFile'
  BY <1>2, <1>4, <1>6, NobodyIsNoActor DEF LockHeldToSave, MemoryMatchesFile
<1>10. BeforeIsStored' /\ OwnersOnlyGrow'
  BY <1>1, <1>2, <1>3, <1>4, <1>6, <1>7 DEF BeforeIsStored, OwnersOnlyGrow
<1>11. OwnerIsStored' /\ OwnersAreDurable'
  BY <1>2, <1>4 DEF IInv, OwnerIsStored, OwnersAreDurable
<1> QED
  BY <1>4, <1>8, <1>9, <1>10, <1>11 DEF IInv

\* The config is as it should be; a denial closes live access all the same.
LEMMA ConfigAsWantedKeepsIInv ==
  ASSUME IInv, NEW a \in Actors, ConfigAsWanted(a)
  PROVE  IInv'
<1> DEFINE o == op[a]
<1>1. pc[a] = "config" /\ o \in Op /\ UNCHANGED <<cfg, disk, liveOwners, lock, before, used>>
  BY DEF ConfigAsWanted, IInv, HasOperation
<1>2. CASE o.kind = "deny"
  <2>1. Deny(a, "idle")
    BY <1>2 DEF ConfigAsWanted
  <2>2. /\ pc' \in [Actors -> Steps]
        /\ op' \in [Actors -> Op \cup {NoOp}]
        /\ HasOperation'
        /\ live' \in SUBSET Chats
        /\ wasLive' \in [Actors -> BOOLEAN]
        /\ raced' \in SUBSET Chats
        /\ \A b \in Actors : pc'[b] # "idle" => pc'[b] = pc[b] /\ op'[b] = op[b]
    BY <1>1, <2>1, DenyType DEF IInv
  <2>3. \A b \in Actors : pc[b] # "save"
    BY NobodyIsNoActor DEF ConfigAsWanted, IInv, LockHeldToSave
  <2>4. TypeOK'
    BY <1>1, <2>2 DEF IInv, TypeOK
  <2>5. BeforeIsStored' /\ OwnersOnlyGrow' /\ OwnerIsStored'
    BY <1>1, <2>2 DEF IInv, BeforeIsStored, OwnersOnlyGrow, OwnerIsStored
  <2>6. LockHeldToSave' /\ MemoryMatchesFile' /\ OwnersAreDurable'
    BY <1>1, <2>2, <2>3
       DEF ConfigAsWanted, IInv, LockHeldToSave, MemoryMatchesFile, OwnersAreDurable
  <2> QED
    BY <2>2, <2>4, <2>5, <2>6 DEF IInv
<1>3. CASE o.kind # "deny"
  <2>1. /\ Continue(a, AfterSave(o, FALSE)) /\ raced' = Overlap(a, o.chat)
        /\ UNCHANGED <<live, wasLive>>
    BY <1>3 DEF ConfigAsWanted
  <2>2. AfterSave(o, FALSE) \in {"config", "idle", "grant"}
    BY <1>1, NextSteps
  <2>3. live' \in SUBSET Chats /\ raced' \in SUBSET Chats
    BY <1>1, <2>1 DEF Overlap, Op, IInv, TypeOK
  <2> QED
    BY <1>1, <2>1, <2>2, <2>3, MoveKeepsIInv
<1> QED
  BY <1>2, <1>3

\* A save ends: the file has the new config, or memory the old one again.
LEMMA SaveEndsKeepsIInv ==
  ASSUME IInv, NEW a \in Actors, Saved(a) \/ SaveFails(a)
  PROVE  IInv'
<1> DEFINE o == op[a]
           becameOwner == cfg.owners # before[a].owners
<1>1. /\ pc[a] = "save" /\ o \in Op /\ lock = a /\ before[a] = disk
      /\ disk.owners \subseteq cfg.owners
      /\ o.kind = "pair" => cfg.owners = before[a].owners \cup ({o.user} \ {Nobody})
  BY DEF Saved, SaveFails, IInv, HasOperation, LockHeldToSave, BeforeIsStored, OwnersOnlyGrow
<1>2. lock' = Nobody /\ UNCHANGED <<liveOwners, before, wasLive, raced>>
  BY DEF Saved, SaveFails
<1>3. /\ disk' = cfg' /\ disk' \in Config /\ disk.owners \subseteq disk'.owners
      /\ used' \in [{"ops", "failures", "restarts"} -> Nat]
      /\ live' \in SUBSET Chats
  <2>1. CASE Saved(a)
    BY <1>1, <2>1 DEF Saved, IInv, TypeOK
  <2>2. CASE SaveFails(a)
    <3>1. used' \in [{"ops", "failures", "restarts"} -> Nat]
      BY <2>2, SpendType DEF SaveFails, IInv
    <3>2. live' \in SUBSET Chats
      BY <1>1, <2>2 DEF SaveFails, IInv, TypeOK, Op
    <3> QED
      BY <1>1, <2>2, <3>1, <3>2 DEF SaveFails, RestoreConfig, IInv, TypeOK
  <2> QED
    BY <2>1, <2>2
<1>4. PICK step \in {"grant", "owner", "idle", "revoke"} :
        /\ Continue(a, step)
        /\ step = "owner" => o.user \in disk'.owners
  <2>1. CASE Saved(a)
    <3>1. disk' = cfg /\ Continue(a, AfterSave(o, becameOwner)) /\ becameOwner \in BOOLEAN
      BY <2>1 DEF Saved
    <3>2. /\ AfterSave(o, becameOwner) \in {"grant", "owner", "idle"}
          /\ AfterSave(o, becameOwner) = "owner" => o.kind = "pair" /\ becameOwner
      BY <1>1, <3>1, NextSteps
    <3>3. o.kind = "pair" /\ becameOwner => o.user \in disk'.owners
      BY <1>1, <3>1
    <3> QED
      BY <3>1, <3>2, <3>3
  <2>2. CASE SaveFails(a)
    <3>1. Continue(a, AfterFailure(o)) /\ AfterFailure(o) \in {"revoke", "idle"}
      BY <1>1, <2>2, NextSteps DEF SaveFails
    <3> QED
      BY <3>1
  <2> QED
    BY <2>1, <2>2
<1>5. step \in Steps
  BY DEF Steps
<1>6. /\ pc' \in [Actors -> Steps]
      /\ op' \in [Actors -> Op \cup {NoOp}]
      /\ HasOperation'
      /\ pc'[a] = step
      /\ step # "idle" => op' = op
      /\ \A b \in Actors : b # a => pc'[b] = pc[b] /\ op'[b] = op[b]
  BY <1>1, <1>4, <1>5, ContinueType DEF IInv
<1>7. \A b \in Actors : pc'[b] # "save"
  BY <1>1, <1>6 DEF IInv, LockHeldToSave
<1>8. TypeOK'
  BY <1>2, <1>3, <1>6 DEF IInv, TypeOK
<1>9. LockHeldToSave' /\ MemoryMatchesFile' /\ BeforeIsStored' /\ OwnersOnlyGrow'
  BY <1>2, <1>3, <1>7 DEF LockHeldToSave, MemoryMatchesFile, BeforeIsStored, OwnersOnlyGrow
<1>10. OwnerIsStored'
  BY <1>3, <1>4, <1>6 DEF IInv, OwnerIsStored
<1>11. OwnersAreDurable'
  BY <1>2, <1>3 DEF IInv, OwnersAreDurable
<1> QED
  BY <1>6, <1>8, <1>9, <1>10, <1>11 DEF IInv

\* The process starts again from the file.
LEMMA RestartKeepsIInv ==
  ASSUME IInv, Restart
  PROVE  IInv'
<1>1. PICK stored \in {disk} \cup (IF lock = Nobody THEN {} ELSE {cfg}) :
        /\ disk' = stored /\ cfg' = stored /\ live' = Effective(stored)
        /\ liveOwners' = stored.owners
        /\ before' = [a \in Actors |-> stored]
  BY DEF Restart
<1>2. /\ lock' = Nobody /\ raced' = {}
      /\ pc' = [a \in Actors |-> "idle"]
      /\ op' = [a \in Actors |-> NoOp]
      /\ wasLive' = [a \in Actors |-> FALSE]
  BY DEF Restart
<1>3. used' \in [{"ops", "failures", "restarts"} -> Nat]
  BY SpendType DEF Restart, IInv
<1>4. stored \in Config
  BY DEF IInv, TypeOK
<1>5. live' \in SUBSET Chats /\ liveOwners' \in SUBSET Users
  BY <1>1, <1>4 DEF Effective, Config
<1>6. TypeOK'
  BY <1>1, <1>2, <1>3, <1>4, <1>5 DEF TypeOK, Steps
<1> QED
  BY <1>1, <1>2, <1>6 DEF IInv, HasOperation, LockHeldToSave, MemoryMatchesFile, BeforeIsStored,
     OwnersOnlyGrow, OwnerIsStored, OwnersAreDurable

LEMMA NextKeepsIInv == IInv /\ [Next]_vars => IInv'
<1> SUFFICES ASSUME IInv, [Next]_vars PROVE IInv'
  OBVIOUS
<1>1. ASSUME NEW a \in Requesters, StartCommand(a)
      PROVE  IInv'
  <2>1. a \in Actors /\ a \in Chats /\ pc[a] = "idle" /\ Spend("ops", MaxOps) /\ Starts(a)
        /\ UNCHANGED <<cfg, disk, live, liveOwners, lock, before, wasLive, raced>>
    BY <1>1, AccessConstants DEF StartCommand, Actors
  <2>2. PICK o \in Op, step \in {"config", "attempt"} :
          op' = [op EXCEPT ![a] = o] /\ Goto(a, step)
    <3>1. CASE \E k \in {"allow", "deny"}, c \in Chats :
                 op' = [op EXCEPT ![a] = [kind |-> k, chat |-> c, user |-> Nobody]]
                 /\ Goto(a, "config")
      BY <3>1 DEF Op
    <3>2. CASE \E k \in {"pin", "unpin"} :
                 op' = [op EXCEPT ![a] = [kind |-> k, chat |-> a, user |-> Nobody]]
                 /\ Goto(a, "config")
      BY <2>1, <3>2 DEF Op
    <3>3. CASE op' = [op EXCEPT ![a] = [kind |-> "pair", chat |-> a, user |-> Nobody]]
               /\ Goto(a, "attempt")
      BY <2>1, <3>3 DEF Op
    <3> QED
      BY <2>1, <3>1, <3>2, <3>3 DEF Starts
  <2> QED
    BY <2>1, <2>2, BeginKeepsIInv
<1>2. CASE ReceivePair
  <2>1. PICK c \in Chats \ live, u \in Users \cup {Nobody} :
          op' = [op EXCEPT ![Poll] = [kind |-> "pair", chat |-> c, user |-> u]]
    BY <1>2 DEF ReceivePair
  <2>2. [kind |-> "pair", chat |-> c, user |-> u] \in Op
    BY DEF Op
  <2> QED
    BY <1>2, <2>1, <2>2, BeginKeepsIInv, NobodyIsNoActor DEF ReceivePair
<1>3. CASE ReceiveMembership
  <2>1. PICK c \in Chats, u \in cfg.owners :
          op' = [op EXCEPT ![Poll] = [kind |-> "join", chat |-> c, user |-> u]]
    BY <1>3 DEF ReceiveMembership
  <2>2. [kind |-> "join", chat |-> c, user |-> u] \in Op
    BY DEF Op, IInv, TypeOK, Config
  <2> QED
    BY <1>3, <2>1, <2>2, BeginKeepsIInv, NobodyIsNoActor DEF ReceiveMembership
<1>4. ASSUME NEW a \in Actors, Step(a)
      PROVE  IInv'
  <2>1. pc[a] # "idle" /\ op[a] \in Op
    BY <1>4 DEF Step, PairMatches, PairRejected, ChangeConfig, ConfigAsWanted, Saved, SaveFails,
       Grant, Revoke, AddOwner, IInv, HasOperation
  <2>2. op[a].chat \in Chats
    BY <2>1 DEF Op
  <2>3. CASE PairMatches(a)
    <3>1. live' \in SUBSET Chats /\ raced' \in SUBSET Chats
      BY <2>2, <2>3 DEF PairMatches, Overlap, IInv, TypeOK
    <3> QED
      BY <2>3, <3>1, MoveKeepsIInv DEF PairMatches
  <2>4. CASE PairRejected(a)
    <3>1. live' \in SUBSET Chats /\ raced' \in SUBSET Chats
      BY <2>4 DEF PairRejected, IInv, TypeOK
    <3> QED
      BY <2>4, <3>1, MoveKeepsIInv DEF PairRejected
  <2>5. CASE ChangeConfig(a)
    BY <2>5, ChangeConfigKeepsIInv
  <2>6. CASE ConfigAsWanted(a)
    BY <2>6, ConfigAsWantedKeepsIInv
  <2>7. CASE Saved(a) \/ SaveFails(a)
    BY <2>7, SaveEndsKeepsIInv
  <2>8. CASE Grant(a)
    <3>1. live' \in SUBSET Chats /\ raced' \in SUBSET Chats
      BY <2>2, <2>8 DEF Grant, IInv, TypeOK
    <3> QED
      BY <2>8, <3>1, MoveKeepsIInv DEF Grant
  <2>9. CASE Revoke(a)
    <3>1. live' \in SUBSET Chats /\ raced' \in SUBSET Chats
      BY <2>2, <2>9 DEF Revoke, TakeBack, IInv, TypeOK
    <3> QED
      BY <2>9, <3>1, MoveKeepsIInv DEF Revoke
  <2>10. CASE AddOwner(a)
    <3>1. live' \in SUBSET Chats /\ raced' \in SUBSET Chats
      BY <2>10 DEF AddOwner, IInv, TypeOK
    <3> QED
      BY <2>10, <3>1, MoveKeepsIInv DEF AddOwner
  <2> QED
    BY <1>4, <2>3, <2>4, <2>5, <2>6, <2>7, <2>8, <2>9, <2>10 DEF Step
<1>5. CASE Restart
  BY <1>5, RestartKeepsIInv
<1>6. CASE UNCHANGED vars
  BY <1>6 DEF vars, IInv, TypeOK, HasOperation, LockHeldToSave, MemoryMatchesFile,
     BeforeIsStored, OwnersOnlyGrow, OwnerIsStored, OwnersAreDurable
<1> QED
  BY <1>1, <1>2, <1>3, <1>4, <1>5, <1>6 DEF Next, Rest

-----------------------------------------------------------------------------
(* Theorems *)

LEMMA AlwaysIInv == Spec => []IInv
<1> QED
  BY InitIInv, NextKeepsIInv, PTL DEF Spec

\* Every variable stays in its domain, whatever the workers and the poll loop do to
\* the config, the file and live access.
THEOREM AccessTypeCorrect == Spec => []TypeOK
<1>1. IInv => TypeOK
  BY DEF IInv
<1> QED
  BY <1>1, AlwaysIInv, PTL

\* Whenever the config lock is free, memory has the config of the file: saves,
\* failed saves and restarts of any number of workers leave no difference.
THEOREM MemoryFollowsFile == Spec => []MemoryMatchesFile
<1>1. IInv => MemoryMatchesFile
  BY DEF IInv
<1> QED
  BY <1>1, AlwaysIInv, PTL

\* A live owner is an owner in the file: pairing makes nobody an owner before the
\* save (persist_paired_chat, add_owner).
THEOREM LiveOwnersAreStored == Spec => []OwnersAreDurable
<1>1. IInv => OwnersAreDurable
  BY DEF IInv
<1> QED
  BY <1>1, AlwaysIInv, PTL

-----------------------------------------------------------------------------
(* Live access agrees with the config: the invariant.                       *)

\* Operations come to the steps of their kind; a worker pins its own chat.
KindFits ==
  \A a \in Actors : pc[a] # "idle" =>
    /\ pc[a] = "grant" => op[a].kind \in {"allow", "join"}
    /\ pc[a] \in {"attempt", "revoke", "owner"} => op[a].kind = "pair"
    /\ op[a].kind \in {"pin", "unpin"} => op[a].chat = a /\ a \in Requesters

\* A config that is being saved differs from the stored one in the operation's chat only.
SaveIsOfItsChat ==
  \A a \in Actors : pc[a] = "save" =>
    \A c \in Chats \ {op[a].chat} : c \in Effective(cfg) <=> c \in Effective(before[a])

OpenOn(a, c) == Open(a) /\ op[a].chat = c

\* What a save leaves to do depends on what was so before.
Saving(a, c) ==
  /\ op[a].kind \in {"allow", "join"} =>
       c \in Effective(cfg) /\ (c \in live <=> c \in Effective(before[a]))
  /\ op[a].kind = "pair" => c \in live /\ c \in Effective(cfg) /\ c \notin Effective(before[a])
  /\ op[a].kind \in {"pin", "unpin"} =>
       c \in live /\ c \in Effective(cfg) /\ c \in Effective(before[a])
  /\ op[a].kind = "deny" =>
       c \notin live /\ c \notin Effective(cfg) /\ (wasLive[a] <=> c \in Effective(before[a]))

\* Where an operation about chat c is, c's access is as its next steps take it to be.
Fits(a, c) ==
  /\ pc[a] = "config" /\ op[a].kind = "pair" => c \in live /\ c \notin Effective(cfg)
  /\ pc[a] = "config" /\ op[a].kind \in {"pin", "unpin"} => c \in live
  /\ pc[a] = "save" => Saving(a, c)
  /\ pc[a] = "grant" => c \in Effective(cfg)
  /\ pc[a] = "owner" => c \in live /\ c \in Effective(cfg)
  /\ pc[a] = "revoke" => c \notin Effective(cfg)

\* One decision about a chat at a time; while there is none, live access is the config's.
ChatFits(c) ==
  /\ \A a, b \in Actors : OpenOn(a, c) /\ OpenOn(b, c) => a = b
  /\ (\A a \in Actors : ~OpenOn(a, c)) => (c \in live <=> c \in Effective(cfg))
  /\ \A a \in Actors : pc[a] # "idle" /\ op[a].chat = c => Fits(a, c)

AgreeInv ==
  /\ KindFits
  /\ SaveIsOfItsChat
  /\ \A c \in Chats \ raced : ChatFits(c)

\* What an operation makes of the config, chat by chat.
LEMMA NewEffective ==
  ASSUME TypeOK, NEW o \in Op
  PROVE  /\ \A c \in Chats \ {o.chat} : c \in Effective(NewConfig(o)) <=> c \in Effective(cfg)
         /\ o.kind \in {"allow", "join", "pair", "pin"} => o.chat \in Effective(NewConfig(o))
         /\ o.kind = "unpin" => (o.chat \in Effective(NewConfig(o)) <=> o.chat \in Effective(cfg))
         /\ o.kind = "deny" => o.chat \notin Effective(NewConfig(o))
<1>1. cfg \in Config /\ o.kind \in {"allow", "deny", "pair", "pin", "unpin", "join"}
  BY DEF TypeOK, Op
<1>2. CASE o.kind \in {"allow", "join"}
  BY <1>1, <1>2 DEF NewConfig, Config, Effective
<1>3. CASE o.kind = "pair"
  <2> DEFINE new == {o.user} \ {Nobody}
  <2>1. NewConfig(o) = [cfg EXCEPT !.allowed = @ \cup {o.chat}, !.owners = @ \cup new]
    BY <1>3 DEF NewConfig, Paired
  <2> HIDE DEF new
  <2>2. NewConfig(o).allowed = cfg.allowed \cup {o.chat} /\ NewConfig(o).pinned = cfg.pinned
    BY <1>1, <2>1 DEF Config
  <2> QED
    BY <1>3, <2>2 DEF Effective
<1>4. CASE o.kind = "pin"
  BY <1>1, <1>4 DEF NewConfig, Config, Effective
<1>5. CASE o.kind = "unpin"
  BY <1>1, <1>5 DEF NewConfig, Unpinned, Config, Effective
<1>6. CASE o.kind = "deny"
  BY <1>1, <1>6 DEF NewConfig, Denied, Config, Effective
<1> QED
  BY <1>1, <1>2, <1>3, <1>4, <1>5, <1>6

\* A step leaves a chat alone that it is not about, and no decision about which it cuts
\* short.
LEMMA ElsewhereKeeps ==
  ASSUME NEW c \in Chats, ChatFits(c),
         c \in live' <=> c \in live,
         c \in Effective(cfg') <=> c \in Effective(cfg),
         \A b \in Actors :
           \/ /\ pc'[b] = pc[b] /\ op'[b] = op[b]
              /\ before'[b] = before[b] /\ wasLive'[b] = wasLive[b]
           \/ ~OpenOn(b, c) /\ (pc'[b] = "idle" \/ op'[b].chat # c)
  PROVE  ChatFits(c)'
<1>1. \A b \in Actors : OpenOn(b, c)' => OpenOn(b, c)
  BY DEF OpenOn, Open
<1>2. \A b \in Actors : OpenOn(b, c) => OpenOn(b, c)'
  BY DEF OpenOn, Open
<1>3. ASSUME NEW b \in Actors, pc'[b] # "idle", op'[b].chat = c
      PROVE  Fits(b, c)'
  <2>1. /\ pc'[b] = pc[b] /\ op'[b] = op[b]
        /\ before'[b] = before[b] /\ wasLive'[b] = wasLive[b]
    BY <1>3
  <2>2. Fits(b, c)
    BY <1>3, <2>1 DEF ChatFits
  <2> QED
    BY <2>1, <2>2 DEF Fits, Saving
<1> QED
  BY <1>1, <1>2, <1>3 DEF ChatFits

\* A step about chat d, when nobody else has decided about it.
LEMMA OwnChatKeeps ==
  ASSUME TypeOK', NEW a \in Actors, NEW d \in Chats,
         \A b \in Actors \ {a} : ~OpenOn(b, d)',
         OpenOn(a, d)' \/ (d \in live' <=> d \in Effective(cfg')),
         pc'[a] # "idle" /\ op'[a].chat = d => Fits(a, d)',
         d \in live' \/ \A b \in Actors \ {a} :
           ~(pc'[b] = "config" /\ op'[b].kind \in {"pin", "unpin"} /\ op'[b].chat = d)
  PROVE  ChatFits(d)'
<1>1. ASSUME NEW b \in Actors, b # a, pc'[b] # "idle", op'[b].chat = d
      PROVE  Fits(b, d)'
  <2>1. ~OpenOn(b, d)' /\ pc'[b] \in Steps
    BY <1>1 DEF TypeOK
  <2>2. pc'[b] = "attempt" \/ (pc'[b] = "config" /\ op'[b].kind # "pair")
    BY <1>1, <2>1 DEF OpenOn, Open, Steps
  <2> QED
    BY <1>1, <2>2 DEF Fits
<1> QED
  BY <1>1 DEF ChatFits

-----------------------------------------------------------------------------
(* Live access agrees with the config: the steps.                           *)

LEMMA AgreeInit == Init => AgreeInv
<1> SUFFICES ASSUME Init PROVE AgreeInv
  OBVIOUS
<1>1. pc = [a \in Actors |-> "idle"] /\ live = Effective(cfg) /\ raced = {}
  BY DEF Init
<1>2. \A c \in Chats : ChatFits(c)
  BY <1>1 DEF ChatFits, OpenOn, Open
<1> QED
  BY <1>1, <1>2 DEF AgreeInv, KindFits, SaveIsOfItsChat

\* A new operation has changed nothing yet.
LEMMA BeginAgrees ==
  ASSUME IInv, AgreeInv, NEW a \in Actors, pc[a] = "idle", NEW o \in Op,
         NEW step \in {"config", "attempt"},
         step = "attempt" <=> o.kind = "pair",
         o.kind \in {"pin", "unpin"} => o.chat = a /\ a \in Requesters /\ a \in live,
         op' = [op EXCEPT ![a] = o], Goto(a, step),
         UNCHANGED <<cfg, live, before, wasLive, raced>>
  PROVE  AgreeInv'
<1>1. /\ pc'[a] = step /\ op'[a] = o
      /\ \A b \in Actors \ {a} : pc'[b] = pc[b] /\ op'[b] = op[b]
  BY DEF Goto, IInv, TypeOK
<1>2. KindFits'
  BY <1>1 DEF AgreeInv, KindFits
<1>3. SaveIsOfItsChat'
  BY <1>1 DEF AgreeInv, SaveIsOfItsChat
<1>4. ~Open(a) /\ ~Open(a)'
  BY <1>1 DEF Open
<1>5. ASSUME NEW c \in Chats \ raced
      PROVE  ChatFits(c)'
  <2>1. ChatFits(c)
    BY <1>5 DEF AgreeInv
  <2>2. \A b \in Actors : OpenOn(b, c)' <=> OpenOn(b, c)
    BY <1>1, <1>4 DEF OpenOn, Open
  <2>3. ASSUME NEW b \in Actors, pc'[b] # "idle", op'[b].chat = c
        PROVE  Fits(b, c)'
    <3>1. CASE b = a
      BY <1>1, <2>3, <3>1 DEF Fits
    <3>2. CASE b # a
      <4>1. Fits(b, c)
        BY <1>1, <2>1, <2>3, <3>2 DEF ChatFits
      <4> QED
        BY <1>1, <3>2, <4>1 DEF Fits, Saving
    <3> QED
      BY <3>1, <3>2
  <2> QED
    BY <2>1, <2>2, <2>3 DEF ChatFits
<1> QED
  BY <1>2, <1>3, <1>5 DEF AgreeInv

\* Who has decided about a chat, when somebody is about to.
LEMMA OverlapIs ==
  ASSUME NEW a \in Actors, NEW d
  PROVE  /\ raced \subseteq Overlap(a, d) /\ Overlap(a, d) \subseteq raced \cup {d}
         /\ d \notin Overlap(a, d) => d \notin raced /\ \A b \in Actors \ {a} : ~OpenOn(b, d)
BY DEF Overlap, OpenOn

\* An operation goes on by a step that changes live access at most.
LEMMA MoveAgrees ==
  ASSUME IInv, IInv', AgreeInv, NEW a \in Actors, pc[a] \notin {"idle", "save"},
         NEW step \in {"config", "idle", "grant"}, Continue(a, step),
         UNCHANGED <<cfg, before, wasLive>>,
         raced \subseteq raced',
         step = "grant" => op[a].kind \in {"allow", "join"},
         \A c \in Chats \ {op[a].chat} : c \in live' <=> c \in live,
         op[a].chat \notin raced' =>
           /\ \A b \in Actors \ {a} : ~OpenOn(b, op[a].chat)
           /\ step = "config" =>
                op[a].kind = "pair" /\ op[a].chat \in live' /\ op[a].chat \notin Effective(cfg)
           /\ step = "grant" => op[a].chat \in Effective(cfg)
           /\ step = "idle" => (op[a].chat \in live' <=> op[a].chat \in Effective(cfg))
           /\ op[a].chat \in live /\ op[a].chat \notin live' =>
                \A b \in Actors \ {a} : pc[b] # "idle" => op[b].chat # op[a].chat
  PROVE  AgreeInv'
<1> DEFINE d == op[a].chat
<1>1. d \in Chats /\ op[a] \in Op
  BY DEF IInv, HasOperation, Op
<1>2. step \in Steps
  BY DEF Steps
<1>3. /\ pc'[a] = step
      /\ step # "idle" => op' = op
      /\ \A b \in Actors : b # a => pc'[b] = pc[b] /\ op'[b] = op[b]
  BY <1>2, ContinueType DEF IInv
<1>4. KindFits'
  BY <1>3 DEF AgreeInv, KindFits
<1>5. SaveIsOfItsChat'
  BY <1>3 DEF AgreeInv, SaveIsOfItsChat
<1>6. ASSUME NEW c \in Chats \ raced'
      PROVE  ChatFits(c)'
  <2>1. ChatFits(c)
    BY <1>6 DEF AgreeInv
  <2>2. CASE c # d
    <3>1. ~OpenOn(a, c) /\ (pc'[a] = "idle" \/ op'[a].chat # c)
      BY <1>3, <2>2 DEF OpenOn
    <3> QED
      BY <1>3, <2>1, <2>2, <3>1, ElsewhereKeeps
  <2>3. CASE c = d
    <3>1. /\ \A b \in Actors \ {a} : ~OpenOn(b, c)
          /\ step = "config" => op[a].kind = "pair" /\ c \in live' /\ c \notin Effective(cfg)
          /\ step = "grant" => c \in Effective(cfg)
          /\ step = "idle" => (c \in live' <=> c \in Effective(cfg))
          /\ c \in live /\ c \notin live' => \A b \in Actors \ {a} : pc[b] # "idle" => op[b].chat # c
      BY <1>6, <2>3
    <3>2. \A b \in Actors \ {a} : ~OpenOn(b, c)'
      BY <1>3, <3>1 DEF OpenOn, Open
    <3>3. pc'[a] # "idle" /\ op'[a].chat = c => Fits(a, c)'
      BY <1>3, <3>1 DEF Fits
    <3>4. OpenOn(a, c)' \/ (c \in live' <=> c \in Effective(cfg'))
      BY <1>3, <2>3, <3>1 DEF OpenOn, Open
    <3>5. ASSUME NEW b \in Actors \ {a}, pc'[b] = "config", op'[b].kind \in {"pin", "unpin"},
                 op'[b].chat = c
          PROVE  c \in live'
      <4>1. pc[b] = "config" /\ op[b] = op'[b]
        BY <1>3, <3>5
      <4>2. Fits(b, c)
        BY <2>1, <3>5, <4>1 DEF ChatFits
      <4>3. c \in live
        BY <3>5, <4>1, <4>2 DEF Fits
      <4> QED
        BY <3>1, <3>5, <4>1, <4>3
    <3>6. TypeOK'
      BY DEF IInv
    <3> QED
      BY <3>2, <3>3, <3>4, <3>5, <3>6, OwnChatKeeps
  <2> QED
    BY <2>2, <2>3
<1> QED
  BY <1>4, <1>5, <1>6 DEF AgreeInv

\* A code matches.
LEMMA PairMatchesAgrees ==
  ASSUME IInv, IInv', AgreeInv, NEW a \in Actors, PairMatches(a)
  PROVE  AgreeInv'
<1> DEFINE d == op[a].chat
<1>1. /\ pc[a] = "attempt" /\ d \notin live /\ live' = live \cup {d}
      /\ raced' = Overlap(a, d) /\ Continue(a, "config") /\ UNCHANGED <<cfg, before, wasLive>>
      /\ d \in Chats /\ op[a].kind = "pair"
  BY DEF PairMatches, IInv, HasOperation, Op, AgreeInv, KindFits
<1>2. d \notin raced' => \A b \in Actors \ {a} : ~OpenOn(b, d)
  BY <1>1, OverlapIs
<1>3. d \notin raced' => d \notin Effective(cfg)
  <2>1. ~OpenOn(a, d)
    BY <1>1 DEF OpenOn, Open
  <2>2. d \notin raced' => ChatFits(d)
    BY <1>1, OverlapIs DEF AgreeInv
  <2> QED
    BY <1>1, <1>2, <2>1, <2>2 DEF ChatFits
<1>4. raced \subseteq raced'
  BY <1>1, OverlapIs
<1> QED
  BY <1>1, <1>2, <1>3, <1>4, MoveAgrees

\* The end of an operation that has nothing more to save.
LEMMA EndAgrees ==
  ASSUME IInv, IInv', AgreeInv, NEW a \in Actors, Grant(a) \/ Revoke(a) \/ AddOwner(a)
  PROVE  AgreeInv'
<1> DEFINE d == op[a].chat
<1>1. /\ pc[a] \in {"grant", "revoke", "owner"} /\ Continue(a, "idle")
      /\ UNCHANGED <<cfg, before, wasLive>> /\ raced \subseteq raced' /\ d \in Chats
      /\ \A c \in Chats \ {d} : c \in live' <=> c \in live
  BY DEF Grant, Revoke, TakeBack, AddOwner, IInv, HasOperation, Op
<1>2. d \notin raced' =>
        /\ \A b \in Actors \ {a} : ~OpenOn(b, d)
        /\ Fits(a, d)
  <2>1. OpenOn(a, d)
    BY <1>1 DEF OpenOn, Open
  <2> QED
    BY <1>1, <2>1 DEF AgreeInv, ChatFits
<1>3. d \notin raced' => (d \in live' <=> d \in Effective(cfg))
  BY <1>2 DEF Fits, Grant, Revoke, TakeBack, AddOwner
<1>4. d \notin raced' /\ d \in live /\ d \notin live' =>
        \A b \in Actors \ {a} : pc[b] # "idle" => op[b].chat # d
  BY DEF Grant, Revoke, TakeBack, AddOwner
<1> QED
  BY <1>1, <1>2, <1>3, <1>4, MoveAgrees

\* A code does not match: nothing was decided.
LEMMA RejectAgrees ==
  ASSUME IInv, AgreeInv, NEW a \in Actors, PairRejected(a)
  PROVE  AgreeInv'
<1>1. /\ pc[a] = "attempt" /\ Continue(a, "idle")
      /\ UNCHANGED <<cfg, live, before, wasLive, raced>> /\ "idle" \in Steps
  BY DEF PairRejected, Steps
<1>2. /\ pc'[a] = "idle"
      /\ \A b \in Actors : b # a => pc'[b] = pc[b] /\ op'[b] = op[b]
  BY <1>1, ContinueType DEF IInv
<1>3. KindFits' /\ SaveIsOfItsChat'
  BY <1>1, <1>2 DEF AgreeInv, KindFits, SaveIsOfItsChat
<1>4. ASSUME NEW c \in Chats \ raced
      PROVE  ChatFits(c)'
  <2>1. ChatFits(c) /\ ~OpenOn(a, c)
    BY <1>1, <1>4 DEF AgreeInv, OpenOn, Open
  <2> QED
    BY <1>1, <1>2, <2>1, ElsewhereKeeps
<1> QED
  BY <1>1, <1>3, <1>4 DEF AgreeInv

\* A decision under the config lock: what it does to the chat, and to who else is at it.
LEMMA DecisionIs ==
  ASSUME IInv, NEW a \in Actors, pc[a] = "config", NEW step \in Steps,
         \/ op[a].kind = "deny" /\ Deny(a, step)
         \/ /\ op[a].kind # "deny" /\ Continue(a, step)
            /\ raced' = Overlap(a, op[a].chat) /\ UNCHANGED <<live, wasLive>>
  PROVE  /\ raced \subseteq raced'
         /\ pc'[a] = step /\ (step # "idle" => op'[a] = op[a])
         /\ \A b \in Actors \ {a} :
              /\ wasLive'[b] = wasLive[b]
              /\ \/ pc'[b] = pc[b] /\ op'[b] = op[b]
                 \/ pc'[b] = "idle" /\ \A c \in Chats \ raced' : ~OpenOn(b, c)
         /\ \A c \in Chats \ {op[a].chat} : c \in live' <=> c \in live
         /\ op[a].kind # "deny" => live' = live
         /\ op[a].kind = "deny" =>
              /\ op[a].chat \notin live' /\ (wasLive'[a] <=> op[a].chat \in live)
              /\ \A b \in Actors \ {a} : pc'[b] # "idle" => b # op[a].chat \/ b \notin Requesters
         /\ op[a].chat \notin raced' => \A b \in Actors \ {a} : ~OpenOn(b, op[a].chat)
<1> DEFINE d == op[a].chat
<1>1. d \in Chats
  BY DEF IInv, HasOperation, Op
<1>2. CASE op[a].kind = "deny" /\ Deny(a, step)
  <2> DEFINE killed == {d} \cap (Requesters \ {a})
             cut == {op[b].chat : b \in {b \in killed : Open(b)}}
  <2>1. /\ live' = live \ {d} /\ wasLive' = [wasLive EXCEPT ![a] = d \in live]
        /\ pc' = [b \in Actors |-> IF b = a THEN step ELSE IF b \in killed THEN "idle" ELSE pc[b]]
        /\ op' = [b \in Actors |-> IF pc'[b] = "idle" THEN NoOp ELSE op[b]]
        /\ raced' = Overlap(a, d) \cup cut
    BY <1>2 DEF Deny
  <2>2. \A b \in killed : \A c \in Chats \ raced' : ~OpenOn(b, c)
    BY <2>1 DEF OpenOn
  <2>3. /\ raced \subseteq raced'
        /\ d \notin raced' => \A b \in Actors \ {a} : ~OpenOn(b, d)
    BY <2>1, OverlapIs
  <2>4. pc'[a] = step /\ (step # "idle" => op'[a] = op[a])
    BY <2>1
  <2>5. wasLive'[a] = (d \in live) /\ \A b \in Actors \ {a} : wasLive'[b] = wasLive[b]
    BY <2>1 DEF IInv, TypeOK
  <2> HIDE DEF cut
  <2>6. ASSUME NEW b \in Actors \ {a}
        PROVE  /\ \/ pc'[b] = pc[b] /\ op'[b] = op[b]
                  \/ pc'[b] = "idle" /\ \A c \in Chats \ raced' : ~OpenOn(b, c)
               /\ pc'[b] # "idle" => b # d \/ b \notin Requesters
    <3>1. CASE b \in killed
      BY <2>1, <2>2, <3>1
    <3>2. CASE b \notin killed
      <4>1. pc'[b] = pc[b] /\ (pc[b] # "idle" => op'[b] = op[b])
        BY <2>1, <3>2
      <4>2. pc[b] = "idle" => \A c \in Chats : ~OpenOn(b, c)
        BY DEF OpenOn, Open
      <4> QED
        BY <3>2, <4>1, <4>2
    <3> QED
      BY <3>1, <3>2
  <2> QED
    BY <1>2, <2>1, <2>3, <2>4, <2>5, <2>6
<1>3. CASE /\ op[a].kind # "deny" /\ Continue(a, step)
           /\ raced' = Overlap(a, d) /\ UNCHANGED <<live, wasLive>>
  <2>1. /\ pc'[a] = step /\ (step # "idle" => op' = op)
        /\ \A b \in Actors : b # a => pc'[b] = pc[b] /\ op'[b] = op[b]
    BY <1>3, ContinueType DEF IInv
  <2>2. /\ raced \subseteq raced'
        /\ d \notin raced' => \A b \in Actors \ {a} : ~OpenOn(b, d)
    BY <1>3, OverlapIs
  <2> QED
    BY <1>3, <2>1, <2>2
<1> QED
  BY <1>2, <1>3

\* What a decision finds: a chat that nobody else decides about.
LEMMA DecisionFinds ==
  ASSUME IInv, AgreeInv, NEW a \in Actors, pc[a] = "config", op[a].chat \notin raced,
         \A b \in Actors \ {a} : ~OpenOn(b, op[a].chat)
  PROVE  /\ op[a].kind = "pair" => op[a].chat \in live /\ op[a].chat \notin Effective(cfg)
         /\ op[a].kind # "pair" => (op[a].chat \in live <=> op[a].chat \in Effective(cfg))
         /\ op[a].kind \in {"pin", "unpin"} => op[a].chat \in live
<1> DEFINE d == op[a].chat
<1>1. d \in Chats
  BY DEF IInv, HasOperation, Op
<1>2. ChatFits(d)
  BY <1>1 DEF AgreeInv
<1>3. Fits(a, d)
  BY <1>2 DEF ChatFits
<1>4. op[a].kind # "pair" => ~OpenOn(a, d)
  BY DEF OpenOn, Open
<1> QED
  BY <1>2, <1>3, <1>4 DEF ChatFits, Fits

\* A worker that is about to pin a chat is that chat's, so a denial of the chat stops it.
LEMMA PinsAreOwn ==
  ASSUME IInv, AgreeInv, NEW a \in Actors, pc[a] # "idle", NEW b \in Actors \ {a}, NEW d,
         pc[b] # "idle", op[b].kind \in {"pin", "unpin"}, op[b].chat = d
  PROVE  b = d /\ b \in Requesters
BY DEF AgreeInv, KindFits

\* The config is changed in memory.
LEMMA ChangeConfigAgrees ==
  ASSUME IInv, IInv', AgreeInv, NEW a \in Actors, ChangeConfig(a)
  PROVE  AgreeInv'
<1>1. /\ pc[a] = "config" /\ lock = Nobody /\ op[a] \in Op /\ op[a].chat \in Chats
      /\ cfg' = NewConfig(op[a]) /\ before' = [before EXCEPT ![a] = cfg] /\ lock' = a
      /\ \/ op[a].kind = "deny" /\ Deny(a, "save")
         \/ /\ op[a].kind # "deny" /\ Continue(a, "save")
            /\ raced' = Overlap(a, op[a].chat) /\ UNCHANGED <<live, wasLive>>
      /\ op[a].kind \in {"allow", "deny", "pair", "pin", "unpin", "join"}
  BY DEF ChangeConfig, IInv, HasOperation, Op
<1>2. "save" \in Steps
  BY DEF Steps
<1>3. /\ raced \subseteq raced'
      /\ pc'[a] = "save" /\ op'[a] = op[a]
      /\ \A b \in Actors \ {a} :
           /\ wasLive'[b] = wasLive[b]
           /\ \/ pc'[b] = pc[b] /\ op'[b] = op[b]
              \/ pc'[b] = "idle" /\ \A c \in Chats \ raced' : ~OpenOn(b, c)
      /\ \A c \in Chats \ {op[a].chat} : c \in live' <=> c \in live
      /\ op[a].kind # "deny" => live' = live
      /\ op[a].kind = "deny" =>
           /\ op[a].chat \notin live' /\ (wasLive'[a] <=> op[a].chat \in live)
           /\ \A b \in Actors \ {a} : pc'[b] # "idle" => b # op[a].chat \/ b \notin Requesters
      /\ op[a].chat \notin raced' => \A b \in Actors \ {a} : ~OpenOn(b, op[a].chat)
  BY <1>1, <1>2, DecisionIs
<1>4. /\ \A c \in Chats \ {op[a].chat} : c \in Effective(cfg') <=> c \in Effective(cfg)
      /\ op[a].kind \in {"allow", "join", "pair", "pin"} => op[a].chat \in Effective(cfg')
      /\ op[a].kind = "unpin" => (op[a].chat \in Effective(cfg') <=> op[a].chat \in Effective(cfg))
      /\ op[a].kind = "deny" => op[a].chat \notin Effective(cfg')
  BY <1>1, NewEffective DEF IInv
<1>5. before'[a] = cfg /\ \A b \in Actors \ {a} : before'[b] = before[b]
  BY <1>1 DEF IInv, TypeOK
<1>6. KindFits'
  BY <1>1, <1>3 DEF AgreeInv, KindFits
<1>7. SaveIsOfItsChat'
  <2>1. \A b \in Actors : pc'[b] = "save" => b = a
    BY <1>1 DEF IInv, LockHeldToSave
  <2> QED
    BY <1>3, <1>4, <1>5, <2>1 DEF SaveIsOfItsChat
<1>8. ASSUME NEW c \in Chats \ raced'
      PROVE  ChatFits(c)'
  <2>1. ChatFits(c) /\ c \notin raced
    BY <1>3, <1>8 DEF AgreeInv
  <2>2. CASE c # op[a].chat
    <3>1. ~OpenOn(a, c) /\ op'[a].chat # c
      BY <1>3, <2>2 DEF OpenOn
    <3>2. \A b \in Actors :
           \/ /\ pc'[b] = pc[b] /\ op'[b] = op[b]
              /\ before'[b] = before[b] /\ wasLive'[b] = wasLive[b]
           \/ ~OpenOn(b, c) /\ (pc'[b] = "idle" \/ op'[b].chat # c)
      BY <1>3, <1>5, <1>8, <3>1
    <3>3. (c \in live' <=> c \in live) /\ (c \in Effective(cfg') <=> c \in Effective(cfg))
      BY <1>3, <1>4, <2>2
    <3> QED
      BY <2>1, <3>2, <3>3, ElsewhereKeeps
  <2>3. CASE c = op[a].chat
    <3>1. \A b \in Actors \ {a} : ~OpenOn(b, c)
      BY <1>3, <1>8, <2>3
    <3>2. \A b \in Actors \ {a} : ~OpenOn(b, c)'
      BY <1>3, <3>1 DEF OpenOn, Open
    <3>3. /\ op[a].kind = "pair" => c \in live /\ c \notin Effective(cfg)
          /\ op[a].kind # "pair" => (c \in live <=> c \in Effective(cfg))
          /\ op[a].kind \in {"pin", "unpin"} => c \in live
      BY <1>1, <2>1, <2>3, <3>1, DecisionFinds
    <3>4. Saving(a, c)'
      BY <1>1, <1>3, <1>4, <1>5, <2>3, <3>3 DEF Saving
    <3>5. Fits(a, c)' /\ OpenOn(a, c)'
      BY <1>3, <2>3, <3>4 DEF Fits, OpenOn, Open
    <3>6. ASSUME NEW b \in Actors \ {a}, pc'[b] = "config", op'[b].kind \in {"pin", "unpin"},
                 op'[b].chat = c
          PROVE  c \in live'
      <4>1. pc[b] = "config" /\ op[b] = op'[b]
        BY <1>3, <3>6
      <4>2. b = c /\ b \in Requesters
        BY <1>1, <3>6, <4>1, PinsAreOwn
      <4>3. op[a].kind # "deny" /\ live' = live
        BY <1>3, <2>3, <3>6, <4>2
      <4>4. Fits(b, c)
        BY <2>1, <3>6, <4>1 DEF ChatFits
      <4> QED
        BY <3>6, <4>1, <4>3, <4>4 DEF Fits
    <3>7. TypeOK'
      BY DEF IInv
    <3> QED
      BY <3>2, <3>5, <3>6, <3>7, OwnChatKeeps
  <2> QED
    BY <2>2, <2>3
<1> QED
  BY <1>6, <1>7, <1>8 DEF AgreeInv

\* The config is as it should be.
LEMMA ConfigAsWantedAgrees ==
  ASSUME IInv, IInv', AgreeInv, NEW a \in Actors, ConfigAsWanted(a)
  PROVE  AgreeInv'
<1>1. /\ pc[a] = "config" /\ lock = Nobody /\ op[a] \in Op /\ op[a].chat \in Chats
      /\ NewConfig(op[a]) = cfg /\ UNCHANGED <<cfg, before>>
      /\ op[a].kind \in {"allow", "deny", "pair", "unpin", "join"}
  BY DEF ConfigAsWanted, IInv, HasOperation, Op
<1>2. PICK step \in {"idle", "grant"} :
        /\ \/ op[a].kind = "deny" /\ Deny(a, step)
           \/ /\ op[a].kind # "deny" /\ Continue(a, step)
              /\ raced' = Overlap(a, op[a].chat) /\ UNCHANGED <<live, wasLive>>
        /\ step = "grant" <=> op[a].kind \in {"allow", "join"}
  <2>1. CASE op[a].kind = "deny"
    BY <2>1 DEF ConfigAsWanted
  <2>2. CASE op[a].kind # "deny"
    BY <1>1, <2>2 DEF ConfigAsWanted, AfterSave
  <2> QED
    BY <2>1, <2>2
<1>3. step \in Steps
  BY DEF Steps
<1>4. /\ raced \subseteq raced'
      /\ pc'[a] = step /\ (step # "idle" => op'[a] = op[a])
      /\ \A b \in Actors \ {a} :
           /\ wasLive'[b] = wasLive[b]
           /\ \/ pc'[b] = pc[b] /\ op'[b] = op[b]
              \/ pc'[b] = "idle" /\ \A c \in Chats \ raced' : ~OpenOn(b, c)
      /\ \A c \in Chats \ {op[a].chat} : c \in live' <=> c \in live
      /\ op[a].kind # "deny" => live' = live
      /\ op[a].kind = "deny" =>
           /\ op[a].chat \notin live' /\ (wasLive'[a] <=> op[a].chat \in live)
           /\ \A b \in Actors \ {a} : pc'[b] # "idle" => b # op[a].chat \/ b \notin Requesters
      /\ op[a].chat \notin raced' => \A b \in Actors \ {a} : ~OpenOn(b, op[a].chat)
  BY <1>1, <1>2, <1>3, DecisionIs
<1>5. /\ op[a].kind \in {"allow", "join", "pair"} => op[a].chat \in Effective(cfg)
      /\ op[a].kind = "deny" => op[a].chat \notin Effective(cfg)
  BY <1>1, NewEffective DEF IInv
<1>6. KindFits'
  BY <1>1, <1>2, <1>4 DEF AgreeInv, KindFits
<1>7. SaveIsOfItsChat'
  <2>1. \A b \in Actors : pc'[b] # "save"
    BY <1>1, <1>4, NobodyIsNoActor DEF ConfigAsWanted, IInv, LockHeldToSave
  <2> QED
    BY <2>1 DEF SaveIsOfItsChat
<1>8. ASSUME NEW c \in Chats \ raced'
      PROVE  ChatFits(c)'
  <2>1. ChatFits(c) /\ c \notin raced
    BY <1>4, <1>8 DEF AgreeInv
  <2>2. CASE c # op[a].chat
    <3>1. ~OpenOn(a, c) /\ (pc'[a] = "idle" \/ op'[a].chat # c)
      BY <1>4, <2>2 DEF OpenOn
    <3>2. \A b \in Actors :
           \/ /\ pc'[b] = pc[b] /\ op'[b] = op[b]
              /\ before'[b] = before[b] /\ wasLive'[b] = wasLive[b]
           \/ ~OpenOn(b, c) /\ (pc'[b] = "idle" \/ op'[b].chat # c)
      BY <1>1, <1>4, <1>8, <3>1
    <3>3. (c \in live' <=> c \in live) /\ (c \in Effective(cfg') <=> c \in Effective(cfg))
      BY <1>1, <1>4, <2>2
    <3> QED
      BY <2>1, <3>2, <3>3, ElsewhereKeeps
  <2>3. CASE c = op[a].chat
    <3>1. \A b \in Actors \ {a} : ~OpenOn(b, c)
      BY <1>4, <1>8, <2>3
    <3>2. \A b \in Actors \ {a} : ~OpenOn(b, c)'
      BY <1>4, <3>1 DEF OpenOn, Open
    <3>3. /\ op[a].kind = "pair" => c \in live /\ c \notin Effective(cfg)
          /\ op[a].kind # "pair" => (c \in live <=> c \in Effective(cfg))
      BY <1>1, <2>1, <2>3, <3>1, DecisionFinds
    <3>4. step = "idle" => (c \in live' <=> c \in Effective(cfg'))
      BY <1>1, <1>2, <1>4, <1>5, <2>3, <3>3
    <3>5. step = "grant" => Fits(a, c)' /\ OpenOn(a, c)'
      BY <1>1, <1>2, <1>4, <1>5, <2>3 DEF Fits, OpenOn, Open
    <3>6. ASSUME NEW b \in Actors \ {a}, pc'[b] = "config", op'[b].kind \in {"pin", "unpin"},
                 op'[b].chat = c
          PROVE  c \in live'
      <4>1. pc[b] = "config" /\ op[b] = op'[b]
        BY <1>4, <3>6
      <4>2. b = c /\ b \in Requesters
        BY <1>1, <3>6, <4>1, PinsAreOwn
      <4>3. op[a].kind # "deny" /\ live' = live
        BY <1>4, <2>3, <3>6, <4>2
      <4>4. Fits(b, c)
        BY <2>1, <3>6, <4>1 DEF ChatFits
      <4> QED
        BY <3>6, <4>1, <4>3, <4>4 DEF Fits
    <3>7. TypeOK'
      BY DEF IInv
    <3>8. OpenOn(a, c)' \/ (c \in live' <=> c \in Effective(cfg'))
      BY <3>4, <3>5
    <3>9. pc'[a] # "idle" => Fits(a, c)'
      BY <1>4, <3>5
    <3> QED
      BY <3>2, <3>6, <3>7, <3>8, <3>9, OwnChatKeeps
  <2> QED
    BY <2>2, <2>3
<1> QED
  BY <1>6, <1>7, <1>8 DEF AgreeInv

\* A save ends: the chat it was about is settled, or the operation has a step left that
\* settles it; a failed one changes back what it had changed, and that alone.
LEMMA SaveEndsAgrees ==
  ASSUME IInv, IInv', AgreeInv, NEW a \in Actors, Saved(a) \/ SaveFails(a)
  PROVE  AgreeInv'
<1>1. /\ pc[a] = "save" /\ op[a] \in Op /\ op[a].chat \in Chats
      /\ op[a].kind \in {"allow", "deny", "pair", "pin", "unpin", "join"}
      /\ lock' = Nobody /\ UNCHANGED <<before, wasLive, raced>>
  BY DEF Saved, SaveFails, IInv, HasOperation, Op
<1>2. PICK step \in {"grant", "owner", "idle", "revoke"} :
        /\ Continue(a, step)
        /\ \/ /\ UNCHANGED <<cfg, live>> /\ Saved(a)
              /\ step = AfterSave(op[a], cfg.owners # before[a].owners)
           \/ /\ cfg' = before[a] /\ step = AfterFailure(op[a])
              /\ live' = IF op[a].kind = "deny" /\ wasLive[a] THEN live \cup {op[a].chat} ELSE live
  <2>1. CASE Saved(a)
    <3>1. (cfg.owners # before[a].owners) \in BOOLEAN
      OBVIOUS
    <3>2. AfterSave(op[a], cfg.owners # before[a].owners) \in {"grant", "owner", "idle"}
      BY <1>1, <3>1, NextSteps
    <3> QED
      BY <2>1, <3>2 DEF Saved
  <2>2. CASE SaveFails(a)
    <3>1. AfterFailure(op[a]) \in {"revoke", "idle"}
      BY DEF AfterFailure
    <3> QED
      BY <2>2, <3>1 DEF SaveFails, RestoreConfig
  <2> QED
    BY <2>1, <2>2
<1>3. step \in Steps
  BY DEF Steps
<1>4. /\ pc'[a] = step
      /\ step # "idle" => op' = op
      /\ \A b \in Actors : b # a => pc'[b] = pc[b] /\ op'[b] = op[b]
  BY <1>1, <1>2, <1>3, ContinueType DEF IInv
<1>5. /\ step = "grant" => op[a].kind \in {"allow", "join"}
      /\ step \in {"owner", "revoke"} => op[a].kind = "pair"
  BY <1>1, <1>2 DEF AfterSave, AfterFailure
<1>6. KindFits'
  BY <1>1, <1>4, <1>5 DEF AgreeInv, KindFits
<1>7. SaveIsOfItsChat'
  <2>1. \A b \in Actors : pc'[b] # "save"
    BY <1>1, NobodyIsNoActor DEF IInv, LockHeldToSave
  <2> QED
    BY <2>1 DEF SaveIsOfItsChat
<1>8. ASSUME NEW c \in Chats \ raced
      PROVE  ChatFits(c)'
  <2>1. ChatFits(c)
    BY <1>8 DEF AgreeInv
  <2>2. CASE c # op[a].chat
    <3>1. ~OpenOn(a, c) /\ (pc'[a] = "idle" \/ op'[a].chat # c)
      BY <1>4, <2>2 DEF OpenOn
    <3>2. c \in Effective(cfg) <=> c \in Effective(before[a])
      BY <1>1, <2>2 DEF AgreeInv, SaveIsOfItsChat
    <3>3. (c \in live' <=> c \in live) /\ (c \in Effective(cfg') <=> c \in Effective(cfg))
      BY <1>2, <2>2, <3>2
    <3> QED
      BY <1>1, <1>4, <2>1, <3>1, <3>3, ElsewhereKeeps
  <2>3. CASE c = op[a].chat
    <3>1. OpenOn(a, c) /\ Fits(a, c)
      BY <1>1, <2>1, <2>3 DEF OpenOn, Open, ChatFits
    <3>2. Saving(a, c) /\ \A b \in Actors \ {a} : ~OpenOn(b, c)
      BY <1>1, <2>1, <3>1 DEF Fits, ChatFits
    <3>3. \A b \in Actors \ {a} : ~OpenOn(b, c)'
      BY <1>4, <3>2 DEF OpenOn, Open
    <3>4. /\ step = "idle" => (c \in live' <=> c \in Effective(cfg'))
          /\ step = "grant" => c \in Effective(cfg')
          /\ step = "owner" => c \in live' /\ c \in Effective(cfg')
          /\ step = "revoke" => c \notin Effective(cfg')
          /\ c \in live => c \in live'
      <4>1. CASE Saved(a) /\ UNCHANGED <<cfg, live>>
                 /\ step = AfterSave(op[a], cfg.owners # before[a].owners)
        BY <1>1, <3>2, <4>1 DEF Saving, AfterSave
      <4>2. CASE /\ cfg' = before[a] /\ step = AfterFailure(op[a])
                 /\ live' = IF op[a].kind = "deny" /\ wasLive[a] THEN live \cup {op[a].chat} ELSE live
        BY <1>1, <2>3, <3>2, <4>2 DEF Saving, AfterFailure
      <4> QED
        BY <1>2, <4>1, <4>2
    <3>5. pc'[a] # "idle" => Fits(a, c)'
      BY <1>2, <1>4, <3>4 DEF Fits
    <3>6. OpenOn(a, c)' \/ (c \in live' <=> c \in Effective(cfg'))
      BY <1>2, <1>4, <2>3, <3>4 DEF OpenOn, Open
    <3>7. ASSUME NEW b \in Actors \ {a}, pc'[b] = "config", op'[b].kind \in {"pin", "unpin"},
                 op'[b].chat = c
          PROVE  c \in live'
      <4>1. Fits(b, c)
        BY <1>4, <2>1, <3>7 DEF ChatFits
      <4> QED
        BY <1>4, <3>4, <3>7, <4>1 DEF Fits
    <3>8. TypeOK'
      BY DEF IInv
    <3> QED
      BY <3>3, <3>5, <3>6, <3>7, <3>8, OwnChatKeeps
  <2> QED
    BY <2>2, <2>3
<1> QED
  BY <1>1, <1>6, <1>7, <1>8 DEF AgreeInv

LEMMA NextAgrees == IInv /\ IInv' /\ AgreeInv /\ [Next]_vars => AgreeInv'
<1> SUFFICES ASSUME IInv, IInv', AgreeInv, [Next]_vars PROVE AgreeInv'
  OBVIOUS
<1>1. ASSUME NEW a \in Requesters, StartCommand(a)
      PROVE  AgreeInv'
  <2>1. a \in Actors /\ a \in Chats /\ pc[a] = "idle" /\ a \in live /\ Starts(a)
        /\ UNCHANGED <<cfg, live, before, wasLive, raced>>
    BY <1>1, AccessConstants DEF StartCommand, Starts, Actors
  <2>2. \E o \in Op, step \in {"config", "attempt"} :
          /\ op' = [op EXCEPT ![a] = o] /\ Goto(a, step)
          /\ step = "attempt" <=> o.kind = "pair"
          /\ o.kind \in {"pin", "unpin"} => o.chat = a
    <3>1. ASSUME NEW k \in {"allow", "deny"}, NEW c \in Chats,
                 op' = [op EXCEPT ![a] = [kind |-> k, chat |-> c, user |-> Nobody]],
                 Goto(a, "config")
          PROVE  \E o \in Op, step \in {"config", "attempt"} :
                   /\ op' = [op EXCEPT ![a] = o] /\ Goto(a, step)
                   /\ step = "attempt" <=> o.kind = "pair"
                   /\ o.kind \in {"pin", "unpin"} => o.chat = a
      <4>1. [kind |-> k, chat |-> c, user |-> Nobody] \in Op
        BY DEF Op
      <4> QED
        BY <3>1, <4>1
    <3>2. ASSUME NEW k \in {"pin", "unpin"},
                 op' = [op EXCEPT ![a] = [kind |-> k, chat |-> a, user |-> Nobody]],
                 Goto(a, "config")
          PROVE  \E o \in Op, step \in {"config", "attempt"} :
                   /\ op' = [op EXCEPT ![a] = o] /\ Goto(a, step)
                   /\ step = "attempt" <=> o.kind = "pair"
                   /\ o.kind \in {"pin", "unpin"} => o.chat = a
      <4>1. [kind |-> k, chat |-> a, user |-> Nobody] \in Op
        BY <2>1 DEF Op
      <4> QED
        BY <3>2, <4>1
    <3>3. ASSUME op' = [op EXCEPT ![a] = [kind |-> "pair", chat |-> a, user |-> Nobody]],
                 Goto(a, "attempt")
          PROVE  \E o \in Op, step \in {"config", "attempt"} :
                   /\ op' = [op EXCEPT ![a] = o] /\ Goto(a, step)
                   /\ step = "attempt" <=> o.kind = "pair"
                   /\ o.kind \in {"pin", "unpin"} => o.chat = a
      <4>1. [kind |-> "pair", chat |-> a, user |-> Nobody] \in Op
        BY <2>1 DEF Op
      <4> QED
        BY <3>3, <4>1
    <3> QED
      BY <2>1, <3>1, <3>2, <3>3 DEF Starts
  <2> QED
    BY <1>1, <2>1, <2>2, BeginAgrees
<1>2. CASE ReceivePair
  <2>1. PICK c \in Chats \ live, u \in Users \cup {Nobody} :
          op' = [op EXCEPT ![Poll] = [kind |-> "pair", chat |-> c, user |-> u]]
    BY <1>2 DEF ReceivePair
  <2>2. [kind |-> "pair", chat |-> c, user |-> u] \in Op
    BY DEF Op
  <2> QED
    BY <1>2, <2>1, <2>2, BeginAgrees, NobodyIsNoActor DEF ReceivePair
<1>3. CASE ReceiveMembership
  <2>1. PICK c \in Chats, u \in cfg.owners :
          op' = [op EXCEPT ![Poll] = [kind |-> "join", chat |-> c, user |-> u]]
    BY <1>3 DEF ReceiveMembership
  <2>2. [kind |-> "join", chat |-> c, user |-> u] \in Op
    BY DEF Op, IInv, TypeOK, Config
  <2> QED
    BY <1>3, <2>1, <2>2, BeginAgrees, NobodyIsNoActor DEF ReceiveMembership
<1>4. ASSUME NEW a \in Actors, Step(a)
      PROVE  AgreeInv'
  BY <1>4, PairMatchesAgrees, RejectAgrees, ChangeConfigAgrees, ConfigAsWantedAgrees,
     SaveEndsAgrees, EndAgrees DEF Step
<1>5. CASE Restart
  <2>1. pc' = [a \in Actors |-> "idle"] /\ raced' = {} /\ live' = Effective(cfg')
    BY <1>5 DEF Restart
  <2>2. \A c \in Chats : ChatFits(c)'
    BY <2>1 DEF ChatFits, OpenOn, Open
  <2> QED
    BY <2>1, <2>2 DEF AgreeInv, KindFits, SaveIsOfItsChat
<1>6. CASE UNCHANGED vars
  <2>1. UNCHANGED <<cfg, live, pc, op, before, wasLive, raced>>
    BY <1>6 DEF vars
  <2>2. \A c \in Chats \ raced : ChatFits(c)'
    BY <2>1, ElsewhereKeeps DEF AgreeInv
  <2> QED
    BY <2>1, <2>2 DEF AgreeInv, KindFits, SaveIsOfItsChat
<1> QED
  BY <1>1, <1>2, <1>3, <1>4, <1>5, <1>6 DEF Next, Rest

-----------------------------------------------------------------------------
(* Theorems: agreement.                                                     *)

LEMMA AlwaysAgreeInv == Spec => []AgreeInv
<1> QED
  BY AgreeInit, NextAgrees, AlwaysIInv, PTL DEF Spec

\* When nothing is under way, live access is what the config and so a restart says, for
\* every chat about which no two decisions overlapped: whatever was allowed, denied,
\* paired, pinned or failed to be saved, of this chat or of others.
THEOREM AccessAgrees == Spec => []AgreesUnlessRaced
<1>1. AgreeInv => AgreesUnlessRaced
  <2> SUFFICES ASSUME AgreeInv, Idle, NEW c \in Chats \ raced
               PROVE  c \in live <=> c \in Effective(cfg)
    BY DEF AgreesUnlessRaced
  <2>1. ChatFits(c)
    BY DEF AgreeInv
  <2>2. \A a \in Actors : ~OpenOn(a, c)
    BY DEF Idle, OpenOn, Open
  <2> QED
    BY <2>1, <2>2 DEF ChatFits
<1> QED
  BY <1>1, AlwaysAgreeInv, PTL

\* A chat falls out of the config by a denial of that chat only, or because the save
\* that was to bring it in failed.
LEMMA RemovalIs ==
  ASSUME IInv, AgreeInv, [Next]_vars, NEW c \in Effective(cfg) \ Effective(cfg')
  PROVE  \E a \in Actors : /\ pc[a] # "idle" /\ op[a].chat = c
                           /\ (op[a].kind = "deny" \/ pc[a] = "save")
<1>1. cfg' # cfg /\ c \in Chats
  BY DEF Effective, IInv, TypeOK, Config
<1>2. ASSUME NEW a \in Actors, ChangeConfig(a)
      PROVE  op[a].kind = "deny" /\ op[a].chat = c /\ pc[a] # "idle"
  <2>1. pc[a] = "config" /\ op[a] \in Op /\ cfg' = NewConfig(op[a])
    BY <1>2 DEF ChangeConfig, IInv, HasOperation
  <2>2. op[a].kind \in {"allow", "deny", "pair", "pin", "unpin", "join"}
    BY <2>1 DEF Op
  <2> QED
    BY <1>1, <2>1, <2>2, NewEffective DEF IInv
<1>3. ASSUME NEW a \in Actors, SaveFails(a)
      PROVE  op[a].chat = c /\ pc[a] = "save"
  <2>1. pc[a] = "save" /\ cfg' = before[a]
    BY <1>3 DEF SaveFails, RestoreConfig
  <2> QED
    BY <1>1, <2>1 DEF AgreeInv, SaveIsOfItsChat
<1>4. CASE Restart
  <2>1. PICK a \in Actors : lock = a /\ pc[a] = "save" /\ cfg' = disk
    <3>1. lock # Nobody /\ cfg' = disk
      BY <1>1, <1>4 DEF Restart, IInv, MemoryMatchesFile
    <3> QED
      BY <3>1 DEF IInv, TypeOK, LockHeldToSave
  <2>2. before[a] = disk
    BY <2>1 DEF IInv, BeforeIsStored
  <2>3. op[a].chat = c
    BY <1>1, <2>1, <2>2 DEF AgreeInv, SaveIsOfItsChat
  <2> QED
    BY <2>1, <2>3
<1>5. CASE \/ \E a \in Requesters : StartCommand(a)
           \/ ReceivePair \/ ReceiveMembership
           \/ \E a \in Actors : \/ PairMatches(a) \/ PairRejected(a) \/ ConfigAsWanted(a)
                                \/ Saved(a) \/ Grant(a) \/ Revoke(a) \/ AddOwner(a)
           \/ Rest \/ UNCHANGED vars
  BY <1>1, <1>5 DEF StartCommand, ReceivePair, ReceiveMembership, PairMatches, PairRejected,
     ConfigAsWanted, Saved, Grant, Revoke, AddOwner, Rest, vars
<1> QED
  BY <1>2, <1>3, <1>4, <1>5 DEF Next, Step

\* Releasing a pin, and any operation about another chat, takes no chat out of the config.
THEOREM ChatsAreNotLost == Spec => OnlyDenyRemoves
<1>1. IInv /\ AgreeInv /\ [Next]_vars =>
        [\A c \in Effective(cfg) \ Effective(cfg') :
           \E a \in Actors : /\ pc[a] # "idle" /\ op[a].chat = c
                             /\ (op[a].kind = "deny" \/ pc[a] = "save")]_vars
  BY RemovalIs
<1> QED
  BY <1>1, AlwaysIInv, AlwaysAgreeInv, PTL DEF Spec, OnlyDenyRemoves
=============================================================================
