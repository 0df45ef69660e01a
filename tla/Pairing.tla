------------------------------ MODULE Pairing ------------------------------
(***************************************************************************)
(* Pairing codes of chats that may not use the bot yet (src/access.rs) and *)
(* the poll loop that issues and judges them (src/runtime.rs).             *)
(*                                                                         *)
(* A message of an unknown chat is handled under three separate holds of   *)
(* the access lock: arm a code and print it if it is new, judge the code   *)
(* of a /pair, and after a wrong one print the code again.  In between,    *)
(* the clock moves on and the workers of other chats /allow and /deny.     *)
(*                                                                         *)
(* The one-time hint to an unknown chat is left out, and the owner that a  *)
(* pairing may make is in AccessPolicy.  The clock does not go back, and a *)
(* chat does not guess a code that nobody has seen.                        *)
(***************************************************************************)
EXTENDS Naturals, Sequences, FiniteSets

CONSTANTS
  Chats,        \* chats
  Ttl,          \* PAIRING_CODE_TTL, in clock ticks
  Window,       \* LOCKOUT_WINDOW
  Lockout,      \* LOCKOUT_DURATION
  MaxAttempts,  \* MAX_PAIRING_ATTEMPTS
  MaxTime,      \* bound on the clock
  MaxDecisions  \* bound on /allow and /deny

ASSUME PairingConstants ==
  /\ {Ttl, Window, Lockout} \subseteq Nat \ {0}
  /\ MaxAttempts \in Nat \ {0, 1}
  /\ {MaxTime, MaxDecisions} \subseteq Nat
  /\ Window <= Lockout

VARIABLES
  now,        \* the clock
  allowed,    \* AccessControl.allowed_chat_ids
  pending,    \* AccessControl.pending: the code of each chat
  attempts,   \* AccessControl.attempts
  pc,         \* where the poll loop is
  msg,        \* the message it handles
  issued,     \* the codes generated so far, with the chat and the time of issue
  printed,    \* the codes on the console
  void,       \* codes used, or issued to a chat before it was denied
  tries,      \* when each chat's codes were compared, within the last Window
  decisions   \* how many /allow and /deny there were

accessVars == <<allowed, pending, attempts>>
historyVars == <<issued, void, tries>>
vars == <<now, allowed, pending, attempts, pc, msg, issued, printed, void, tries, decisions>>

\* Codes are numbered in the order they are generated; 0 is a code nobody issued.
Codes == 1 .. Len(issued)

None == [none |-> TRUE]

PairingState == [code : Nat, expires : Nat]

\* until is 0 for None.
AttemptState == [started : Nat, count : 1 .. MaxAttempts, until : Nat]

\* A message is /pair with a code, or something else.
Message == [chat : Chats, pair : BOOLEAN, code : Nat]

Init ==
  /\ now = 0
  /\ allowed \in SUBSET Chats
  /\ pending = [c \in Chats |-> None]
  /\ attempts = [c \in Chats |-> None]
  /\ pc = "idle"
  /\ msg = None
  /\ issued = <<>>
  /\ printed = {}
  /\ void = {}
  /\ tries = [c \in Chats |-> <<>>]
  /\ decisions = 0

-----------------------------------------------------------------------------
(* AccessControl *)

\* ensure_room_code issues a code if there is none, or it has expired.
NeedsIssue(c) == pending[c] = None \/ now >= pending[c].expires

EnsuredCode(c) ==
  IF NeedsIssue(c)
  THEN [code |-> Len(issued) + 1, expires |-> now + Ttl]
  ELSE pending[c]

Issue(c) ==
  issued' = IF NeedsIssue(c) THEN Append(issued, [chat |-> c, at |-> now]) ELSE issued

Locked(c) == attempts[c] # None /\ now < attempts[c].until

\* locked_until forgets the attempts before a lock that is over.
Unlocked(c) ==
  IF attempts[c] # None /\ attempts[c].until # 0 THEN None ELSE attempts[c]

\* Mutant: one attempt too many before the lock.
TooManyLate(count) == count > MaxAttempts

TooMany(count) == count >= MaxAttempts

\* record_failed_attempt
Failed(attempt) ==
  LET fresh == attempt = None \/ now - attempt.started >= Window
      count == IF fresh THEN 1 ELSE attempt.count + 1
  IN  [started |-> IF fresh THEN now ELSE attempt.started,
       count   |-> count,
       until   |-> IF TooMany(count) THEN now + Lockout ELSE 0]

\* deny_chat
Forgotten(c) == {k \in Codes : issued[k].chat = c}

\* Mutant: a denied chat keeps its code.
KeepCode(c) == pending

DropCode(c) == [pending EXCEPT ![c] = None]

-----------------------------------------------------------------------------
(* The poll loop *)

Goto(step) == pc' = step /\ msg' = IF step = "idle" THEN None ELSE msg

\* handle_update, check_chat: an unknown chat sends a message.
Receive ==
  /\ pc = "idle"
  /\ \E c \in Chats \ allowed :
       \/ msg' = [chat |-> c, pair |-> FALSE, code |-> 0]
       \/ \E code \in printed \cup {0} : msg' = [chat |-> c, pair |-> TRUE, code |-> code]
  /\ pc' = "arm"
  /\ UNCHANGED <<now, accessVars, historyVars, printed, decisions>>

\* A message of a chat that is allowed goes to its worker.
Dispatch == pc = "idle" /\ allowed # {} /\ UNCHANGED vars

\* arm_room; no code for a chat that is allowed by now.  Only a code that is newly
\* issued is printed.
Arm ==
  LET c == msg.chat
  IN  /\ pc = "arm"
      /\ IF c \in allowed
         THEN UNCHANGED <<pending, issued, printed>>
         ELSE /\ Issue(c)
              /\ pending' = [pending EXCEPT ![c] = EnsuredCode(c)]
              /\ printed' = printed \cup (IF NeedsIssue(c) THEN {EnsuredCode(c).code} ELSE {})
      /\ Goto(IF msg.pair THEN "attempt" ELSE "idle")
      /\ UNCHANGED <<now, allowed, attempts, void, tries, decisions>>

\* attempt_pair: AlreadyAllowed or LockedOut
Refused ==
  /\ pc = "attempt"
  /\ msg.chat \in allowed \/ Locked(msg.chat)
  /\ Goto("idle")
  /\ UNCHANGED <<now, accessVars, historyVars, printed, decisions>>

\* A code is compared: what both outcomes have in common.
Compare(c) ==
  /\ pc = "attempt"
  /\ c \notin allowed /\ ~Locked(c)
  /\ Issue(c)
  /\ tries' = [tries EXCEPT ![c] = Append(@, now)]
  /\ UNCHANGED <<now, printed, decisions>>

\* attempt_pair: Paired
Pair ==
  LET c == msg.chat
  IN  /\ Compare(c)
      /\ msg.code = EnsuredCode(c).code
      /\ allowed' = allowed \cup {c}
      /\ attempts' = [attempts EXCEPT ![c] = None]
      /\ pending' = DropCode(c)
      /\ void' = void \cup {msg.code}
      /\ Goto("idle")

\* Mutant: a wrong code is answered without a word on the console.
SilentRejection(attempt) == "idle"

AfterWrongCode(attempt) == IF attempt.until = 0 THEN "show" ELSE "idle"

\* attempt_pair: Rejected, or LockedOut by this attempt
Reject ==
  LET c == msg.chat
  IN  /\ Compare(c)
      /\ msg.code # EnsuredCode(c).code
      /\ pending' = [pending EXCEPT ![c] = EnsuredCode(c)]
      /\ attempts' = [attempts EXCEPT ![c] = Failed(Unlocked(c))]
      /\ Goto(AfterWrongCode(attempts'[c]))
      /\ UNCHANGED <<allowed, void>>

\* handle_pair_attempt prints the code of the room after a rejection.
Show ==
  /\ pc = "show"
  /\ printed' = printed \cup (IF pending[msg.chat] = None THEN {} ELSE {pending[msg.chat].code})
  /\ Goto("idle")
  /\ UNCHANGED <<now, accessVars, historyVars, decisions>>

\* handle_membership_change: somebody who is no owner adds the bot to a chat, and the
\* chat's code is printed, new or not.
Added ==
  /\ pc = "idle"
  /\ \E c \in Chats \ allowed :
       /\ Issue(c)
       /\ pending' = [pending EXCEPT ![c] = EnsuredCode(c)]
       /\ printed' = printed \cup {pending'[c].code}
  /\ UNCHANGED <<now, allowed, attempts, pc, msg, void, tries, decisions>>

-----------------------------------------------------------------------------
(* The workers of other chats, and the clock *)

\* allow_chat leaves the chat's code and attempts as they are.
Allow(c) ==
  /\ decisions < MaxDecisions
  /\ decisions' = decisions + 1
  /\ allowed' = allowed \cup {c}
  /\ UNCHANGED <<now, pending, attempts, pc, msg, historyVars, printed>>

Deny(c) ==
  /\ decisions < MaxDecisions
  /\ decisions' = decisions + 1
  /\ allowed' = allowed \ {c}
  /\ attempts' = [attempts EXCEPT ![c] = None]
  /\ pending' = DropCode(c)
  /\ void' = void \cup Forgotten(c)
  /\ tries' = [tries EXCEPT ![c] = <<>>]
  /\ UNCHANGED <<now, pc, msg, issued, printed>>

\* The tries of the last Window; times are in order.
Recent(times, t) ==
  SubSeq(times, Cardinality({i \in DOMAIN times : t - times[i] >= Window}) + 1, Len(times))

Tick ==
  /\ now < MaxTime
  /\ now' = now + 1
  /\ tries' = [c \in Chats |-> Recent(tries[c], now')]
  /\ UNCHANGED <<accessVars, pc, msg, issued, printed, void, decisions>>

Next ==
  \/ Receive \/ Dispatch \/ Arm \/ Refused \/ Pair \/ Reject \/ Show \/ Added
  \/ \E c \in Chats : Allow(c) \/ Deny(c)
  \/ Tick

Spec == Init /\ [][Next]_vars
-----------------------------------------------------------------------------
(* Properties *)

\* Every variable stays in its domain; no chat has more attempts on its account than
\* the limit.
TypeOK ==
  /\ now \in Nat
  /\ allowed \in SUBSET Chats
  /\ pending \in [Chats -> PairingState \cup {None}]
  /\ attempts \in [Chats -> AttemptState \cup {None}]
  /\ pc \in {"idle", "arm", "attempt", "show"}
  /\ msg \in Message \cup {None}
  /\ issued \in Seq([chat : Chats, at : Nat])
  /\ printed \in SUBSET Codes
  /\ void \in SUBSET Codes
  /\ tries \in [Chats -> Seq(Nat)]
  /\ decisions \in Nat

\* A window begins with an attempt, and one that reaches the limit ends in a lock: so a
\* chat that is not denied meanwhile compares at most 2 * (MaxAttempts - 1) codes in any
\* period of one window, wherever the period begins.
AttemptsBounded == \A c \in Chats : Len(tries[c]) <= 2 * (MaxAttempts - 1)

\* A chat pairs only with a code that was issued to itself, less than Ttl ago, that
\* nobody has paired with and no /deny of the chat has revoked since.
PairsWithFreshCode ==
  [][\A c \in Chats : Pair /\ msg.chat = c =>
       /\ msg.code \in Codes \ void
       /\ issued[msg.code].chat = c
       /\ now - issued[msg.code].at < Ttl]_vars

\* The chat was locked out by the very attempt that issued its code: a code that expires
\* between arm_room and attempt_pair is replaced there, and that attempt prints nothing.
IssuedByLockout(c) ==
  /\ attempts[c] # None /\ attempts[c].until # 0
  /\ attempts[c].until = issued[pending[c].code].at + Lockout

\* Between messages, the code that would pair a chat is on the console, unless the
\* attempt that issued it locked the chat out.  Such a code is not printed by the messages
\* that follow either, as it is not new to them: only by the next wrong code after the
\* lock, or when the bot is added to the chat once more.
CodeIsPrinted ==
  pc = "idle" => \A c \in Chats :
    pending[c] # None => pending[c].code \in printed \/ IssuedByLockout(c)
=============================================================================
