---------------------------- MODULE AccessPolicy ----------------------------
(***************************************************************************)
(* Which chats may use the bot and which users own it, in the three places *)
(* that say so: the config in memory, the config file, and the live access *)
(* control that every message is checked against (src/runtime.rs,          *)
(* src/access.rs).                                                         *)
(*                                                                         *)
(* The workers of the chats handle /allow, /deny, /pair and /model pin and *)
(* unpin; the poll loop handles /pair of unknown chats and the news that   *)
(* an owner added the bot to a chat.  All of them change the config and    *)
(* save it under the config lock, and put back what they changed if the    *)
(* save fails.  Live access has a lock of its own and is changed before    *)
(* (pairing), after (/allow) or during (/deny) that save.                  *)
(*                                                                         *)
(* How a pairing code is judged is the subject of Pairing; here an attempt *)
(* is right or wrong.  What access is needed for is left out.              *)
(***************************************************************************)
EXTENDS Naturals, FiniteSets

CONSTANTS
  Chats,        \* chats
  Users,        \* Telegram users
  Requesters,   \* chats whose workers handle commands in this instance
  Poll,         \* the poll loop, which handles updates one at a time too
  Nobody,       \* no holder of the config lock, no user
  MaxOps,       \* bound on commands and updates
  MaxFailures,  \* bound on failed saves
  MaxRestarts   \* bound on restarts

ASSUME AccessConstants ==
  /\ Requesters \subseteq Chats
  /\ Poll \notin Chats
  /\ Nobody \notin Chats \cup Users \cup {Poll}
  /\ {MaxOps, MaxFailures, MaxRestarts} \subseteq Nat

Actors == Requesters \cup {Poll}

VARIABLES
  cfg,         \* the config in memory
  disk,        \* the config file
  live,        \* AccessControl.allowed_chat_ids
  liveOwners,  \* AccessControl.owner_user_ids
  lock,        \* holder of the config lock
  pc,          \* where each actor is in its operation
  op,          \* the operation
  before,      \* the config as it was, kept for a failed save
  wasLive,     \* /deny: did the chat have live access?
  raced,       \* chats about which two decisions overlapped, or one was cut short
  used         \* how much of each bound is spent

vars == <<cfg, disk, live, liveOwners, lock, pc, op, before, wasLive, raced, used>>

\* The part of the config that access depends on: telegram.allowed_chat_ids,
\* the chats some model is pinned to, telegram.owner_user_ids.
Config == [allowed : SUBSET Chats, pinned : SUBSET Chats, owners : SUBSET Users]

\* AccessConfig::effective_allowed
Effective(config) == config.allowed \cup config.pinned

Op == [kind : {"allow", "deny", "pair", "pin", "unpin", "join"}, chat : Chats,
       user : Users \cup {Nobody}]

NoOp == [kind |-> "none"]

Steps == {"idle", "attempt", "config", "save", "grant", "revoke", "owner"}

Init ==
  /\ cfg \in Config
  /\ disk = cfg
  /\ live = Effective(cfg)
  /\ liveOwners = cfg.owners
  /\ lock = Nobody
  /\ pc = [a \in Actors |-> "idle"]
  /\ op = [a \in Actors |-> NoOp]
  /\ before = [a \in Actors |-> cfg]
  /\ wasLive = [a \in Actors |-> FALSE]
  /\ raced = {}
  /\ used = [ops |-> 0, failures |-> 0, restarts |-> 0]

-----------------------------------------------------------------------------
(* Helpers *)

Spend(what, bound) ==
  /\ used[what] < bound
  /\ used' = [used EXCEPT ![what] = @ + 1]

Goto(a, step) == pc' = [pc EXCEPT ![a] = step]

\* An actor goes on to a step of its operation; "idle" ends it.
Continue(a, step) ==
  /\ Goto(a, step)
  /\ op' = IF step = "idle" THEN [op EXCEPT ![a] = NoOp] ELSE op

\* An operation that has changed something and is not through yet.
Open(a) ==
  \/ pc[a] \in {"save", "grant", "revoke", "owner"}
  \/ pc[a] = "config" /\ op[a].kind = "pair"

\* Actor a is about to change chat c's access.
Overlap(a, c) ==
  IF \E b \in Actors \ {a} : Open(b) /\ op[b].chat = c THEN raced \cup {c} ELSE raced

-----------------------------------------------------------------------------
(* Where an operation begins *)

\* Commands a worker gets to handle; all but /pair are for owners only, and the
\* owner gate reads live access.
Starts(a) ==
  /\ a \in live
  /\ \/ /\ liveOwners # {}
        /\ \/ \E k \in {"allow", "deny"}, c \in Chats :
                op' = [op EXCEPT ![a] = [kind |-> k, chat |-> c, user |-> Nobody]]
           \/ \E k \in {"pin", "unpin"} :
                op' = [op EXCEPT ![a] = [kind |-> k, chat |-> a, user |-> Nobody]]
        /\ Goto(a, "config")
     \/ /\ op' = [op EXCEPT ![a] = [kind |-> "pair", chat |-> a, user |-> Nobody]]
        /\ Goto(a, "attempt")

StartCommand(a) ==
  /\ pc[a] = "idle"
  /\ Spend("ops", MaxOps)
  /\ Starts(a)
  /\ UNCHANGED <<cfg, disk, live, liveOwners, lock, before, wasLive, raced>>

\* handle_update: /pair from a chat that is not allowed; the sender may be
\* anonymous.
ReceivePair ==
  /\ pc[Poll] = "idle"
  /\ Spend("ops", MaxOps)
  /\ \E c \in Chats \ live, u \in Users \cup {Nobody} :
       op' = [op EXCEPT ![Poll] = [kind |-> "pair", chat |-> c, user |-> u]]
  /\ Goto(Poll, "attempt")
  /\ UNCHANGED <<cfg, disk, live, liveOwners, lock, before, wasLive, raced>>

\* handle_membership_change: somebody added the bot to a chat.  Without an owner
\* this only arms a code.
ReceiveMembership ==
  /\ pc[Poll] = "idle"
  /\ lock = Nobody
  /\ Spend("ops", MaxOps)
  /\ \E c \in Chats, u \in cfg.owners :
       op' = [op EXCEPT ![Poll] = [kind |-> "join", chat |-> c, user |-> u]]
  /\ Goto(Poll, "config")
  /\ UNCHANGED <<cfg, disk, live, liveOwners, lock, before, wasLive, raced>>

-----------------------------------------------------------------------------
(* Live access that is granted before the config is saved *)

PairMatches(a) ==
  LET c == op[a].chat
  IN  /\ pc[a] = "attempt"
      /\ c \notin live
      /\ live' = live \cup {c}
      /\ raced' = Overlap(a, c)
      /\ Continue(a, "config")
      /\ UNCHANGED <<cfg, disk, liveOwners, lock, before, wasLive, used>>

\* Already allowed, locked out, or the wrong code
PairRejected(a) ==
  /\ pc[a] = "attempt"
  /\ Continue(a, "idle")
  /\ UNCHANGED <<cfg, disk, live, liveOwners, lock, before, wasLive, raced, used>>

-----------------------------------------------------------------------------
(* Changing and saving the config, under its lock *)

\* What each operation makes of the config

Paired(config, c, u) ==
  [config EXCEPT !.allowed = @ \cup {c}, !.owners = @ \cup ({u} \ {Nobody})]

\* Mutant: a chat that was allowed by its pin alone is forgotten.
UnpinnedOnly(config, c) == [config EXCEPT !.pinned = @ \ {c}]

Unpinned(config, c) ==
  IF c \in config.pinned
  THEN [config EXCEPT !.pinned = @ \ {c}, !.allowed = @ \cup {c}]
  ELSE config

Denied(config, c) == [config EXCEPT !.allowed = @ \ {c}, !.pinned = @ \ {c}]

NewConfig(o) ==
  CASE o.kind \in {"allow", "join"} -> [cfg EXCEPT !.allowed = @ \cup {o.chat}]
    [] o.kind = "pair" -> Paired(cfg, o.chat, o.user)
    [] o.kind = "pin" -> [cfg EXCEPT !.pinned = @ \cup {o.chat}]
    [] o.kind = "unpin" -> Unpinned(cfg, o.chat)
    [] o.kind = "deny" -> Denied(cfg, o.chat)

\* Where an operation goes on once the config is as it wants it, and where it
\* goes when the save failed.
AfterSave(o, becameOwner) ==
  CASE o.kind \in {"allow", "join"} -> "grant"
    [] o.kind = "pair" /\ becameOwner -> "owner"
    [] OTHER -> "idle"

\* Mutant: the sender becomes an owner though the pairing was not saved.
OwnerAnyway(o) == IF o.kind = "pair" /\ o.user # Nobody THEN "owner" ELSE "idle"

AfterFailure(o) == IF o.kind = "pair" THEN "revoke" ELSE "idle"

\* handle_deny_chat closes live access and aborts the chat's worker, wherever that
\* waits, before it saves; a chat that denies itself goes on.  (The worker is not
\* saving: that needs the lock.)
Deny(a, step) ==
  LET c == op[a].chat
      killed == {c} \cap (Requesters \ {a})
      cut == {op[b].chat : b \in {b \in killed : Open(b)}}
  IN  /\ live' = live \ {c}
      /\ wasLive' = [wasLive EXCEPT ![a] = c \in live]
      /\ pc' = [b \in Actors |-> IF b = a THEN step ELSE IF b \in killed THEN "idle" ELSE pc[b]]
      /\ op' = [b \in Actors |-> IF pc'[b] = "idle" THEN NoOp ELSE op[b]]
      /\ raced' = Overlap(a, c) \cup cut

\* /model pin saves even if nothing changed.
ChangeConfig(a) ==
  LET o == op[a]
      new == NewConfig(o)
  IN  /\ pc[a] = "config"
      /\ lock = Nobody
      /\ new # cfg \/ o.kind = "pin"
      /\ cfg' = new
      /\ before' = [before EXCEPT ![a] = cfg]
      /\ lock' = a
      /\ IF o.kind = "deny"
         THEN Deny(a, "save")
         ELSE Continue(a, "save") /\ raced' = Overlap(a, o.chat) /\ UNCHANGED <<live, wasLive>>
      /\ UNCHANGED <<disk, liveOwners, used>>

ConfigAsWanted(a) ==
  LET o == op[a]
  IN  /\ pc[a] = "config"
      /\ lock = Nobody
      /\ NewConfig(o) = cfg /\ o.kind # "pin"
      /\ IF o.kind = "deny"
         THEN Deny(a, "idle")
         ELSE /\ Continue(a, AfterSave(o, FALSE))
              /\ raced' = Overlap(a, o.chat)
              /\ UNCHANGED <<live, wasLive>>
      /\ UNCHANGED <<cfg, disk, liveOwners, lock, before, used>>

Saved(a) ==
  /\ pc[a] = "save"
  /\ disk' = cfg
  /\ lock' = Nobody
  /\ Continue(a, AfterSave(op[a], cfg.owners # before[a].owners))
  /\ UNCHANGED <<cfg, live, liveOwners, before, wasLive, raced, used>>

\* Mutant: the config in memory keeps what could not be saved.
KeepConfig(a) == UNCHANGED cfg

RestoreConfig(a) == cfg' = before[a]

SaveFails(a) ==
  /\ pc[a] = "save"
  /\ Spend("failures", MaxFailures)
  /\ RestoreConfig(a)
  /\ live' = IF op[a].kind = "deny" /\ wasLive[a] THEN live \cup {op[a].chat} ELSE live
  /\ lock' = Nobody
  /\ Continue(a, AfterFailure(op[a]))
  /\ UNCHANGED <<disk, liveOwners, before, wasLive, raced>>

-----------------------------------------------------------------------------
(* Live access that follows the config *)

Grant(a) ==
  /\ pc[a] = "grant"
  /\ live' = live \cup {op[a].chat}
  /\ Continue(a, "idle")
  /\ UNCHANGED <<cfg, disk, liveOwners, lock, before, wasLive, raced, used>>

\* Mutant: a pairing that could not be saved keeps its access.
KeepProvisional(a) == UNCHANGED live

TakeBack(a) == live' = live \ {op[a].chat}

\* persist_provisional_pair takes the provisional access back.
Revoke(a) ==
  /\ pc[a] = "revoke"
  /\ TakeBack(a)
  /\ raced' = IF \E b \in Actors \ {a} : pc[b] # "idle" /\ op[b].chat = op[a].chat
              THEN raced \cup {op[a].chat} ELSE raced
  /\ Continue(a, "idle")
  /\ UNCHANGED <<cfg, disk, liveOwners, lock, before, wasLive, used>>

AddOwner(a) ==
  /\ pc[a] = "owner"
  /\ liveOwners' = liveOwners \cup {op[a].user}
  /\ Continue(a, "idle")
  /\ UNCHANGED <<cfg, disk, live, lock, before, wasLive, raced, used>>

-----------------------------------------------------------------------------
(* Restarts *)

\* The process ends, at any point, and starts again from the file; a save that
\* was under way has reached the file or not.
Restart ==
  /\ Spend("restarts", MaxRestarts)
  /\ \E stored \in {disk} \cup (IF lock = Nobody THEN {} ELSE {cfg}) :
       /\ disk' = stored
       /\ cfg' = stored
       /\ live' = Effective(stored)
       /\ liveOwners' = stored.owners
       /\ before' = [a \in Actors |-> stored]
  /\ lock' = Nobody
  /\ pc' = [a \in Actors |-> "idle"]
  /\ op' = [a \in Actors |-> NoOp]
  /\ wasLive' = [a \in Actors |-> FALSE]
  /\ raced' = {}

-----------------------------------------------------------------------------
Step(a) ==
  \/ PairMatches(a) \/ PairRejected(a) \/ ChangeConfig(a) \/ ConfigAsWanted(a)
  \/ Saved(a) \/ SaveFails(a) \/ Grant(a) \/ Revoke(a) \/ AddOwner(a)

Idle == \A a \in Actors : pc[a] = "idle"

Rest == Idle /\ UNCHANGED vars

Next ==
  \/ \E a \in Requesters : StartCommand(a)
  \/ ReceivePair \/ ReceiveMembership
  \/ \E a \in Actors : Step(a)
  \/ Restart \/ Rest

Spec == Init /\ [][Next]_vars
-----------------------------------------------------------------------------
(* Properties *)

\* Every variable stays in its domain.
TypeOK ==
  /\ cfg \in Config
  /\ disk \in Config
  /\ live \in SUBSET Chats
  /\ liveOwners \in SUBSET Users
  /\ lock \in Actors \cup {Nobody}
  /\ pc \in [Actors -> Steps]
  /\ op \in [Actors -> Op \cup {NoOp}]
  /\ before \in [Actors -> Config]
  /\ wasLive \in [Actors -> BOOLEAN]
  /\ raced \in SUBSET Chats
  /\ used \in [{"ops", "failures", "restarts"} -> Nat]

\* Whenever nobody is saving, the config in memory is the one in the file: no
\* failed save leaves a trace in memory, and no change of one operation is put
\* back, or saved, by another.
MemoryMatchesFile == lock = Nobody => cfg = disk

\* Nobody has an owner's power that a restart would take away.
OwnersAreDurable == liveOwners \subseteq disk.owners

\* A chat that is not allowed in the config has no live access once nothing is
\* under way: no denial that was saved is undone in memory (handle_deny_chat).
DenialHolds == Idle => live \subseteq Effective(cfg)

\* When nothing is under way, live access is what the config says, and so what a
\* restart would make it, for every chat about which no two decisions overlapped:
\* failed saves, pins, provisional access of a pairing, and denials of other chats
\* in between leave memory, file and live access in agreement.
AgreesUnlessRaced == Idle => \A c \in Chats \ raced : c \in live <=> c \in Effective(cfg)

\* A chat falls out of the config only by a denial of that chat, or because the
\* save that was to bring it in failed: releasing a pin does not.
OnlyDenyRemoves ==
  [][\A c \in Effective(cfg) \ Effective(cfg') :
       \E a \in Actors :
         /\ pc[a] # "idle" /\ op[a].chat = c
         /\ (op[a].kind = "deny" \/ pc[a] = "save")]_vars
=============================================================================
