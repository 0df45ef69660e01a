--------------------------- MODULE PairingProofs ---------------------------
(***************************************************************************)
(* Proofs about Pairing, for every set of chats, every lifetime of codes,  *)
(* windows, limits and bounds.                                             *)
(***************************************************************************)
EXTENDS Pairing, TLAPS, FiniteSetTheorems, SequenceTheorems

-----------------------------------------------------------------------------
(* The inductive invariant *)

\* The poll loop has a message while it handles one, and a code in it is one that
\* somebody has seen, or none at all.
MessageKnown == pc # "idle" => msg \in Message /\ msg.code \in Codes \cup {0}

\* A chat's code was issued to it, is not void, and expires Ttl after its issue.
PendingGood ==
  \A c \in Chats : pending[c] # None =>
    /\ pending[c].code \in Codes \ void
    /\ issued[pending[c].code].chat = c
    /\ pending[c].expires = issued[pending[c].code].at + Ttl

\* Attempts that have not led to a lock are below the limit.
BelowLimit ==
  \A c \in Chats : attempts[c] # None =>
    /\ attempts[c].started <= now
    /\ attempts[c].until = 0 => attempts[c].count < MaxAttempts

\* CodeIsPrinted, for a chat
PrintedOrLocked(c) ==
  pending[c] # None =>
    pending[c].code \in printed \/ IssuedByLockout(c)

\* In the middle of a message, only the code that is about to be shown may be unknown.
OthersPrinted ==
  \A c \in Chats : (pc = "show" /\ msg.chat = c) \/ PrintedOrLocked(c)

IInv ==
  /\ TypeOK
  /\ MessageKnown
  /\ PendingGood
  /\ BelowLimit
  /\ OthersPrinted

-----------------------------------------------------------------------------
(* Issuing a code *)

LEMMA ElementsType ==
  ASSUME NEW S, NEW s \in Seq(S)
  PROVE  \A k \in 1 .. Len(s) : s[k] \in S
OBVIOUS

\* No state of a chat is the record that stands for no state.
LEMMA NoneIsNoState ==
  /\ None \notin PairingState
  /\ None \notin AttemptState
  /\ None \notin Message
BY DEF None, PairingState, AttemptState, Message

\* A code is either the chat's own that has not expired, or a new one; codes issued
\* before are as they were.
LEMMA IssueFacts ==
  ASSUME IInv, NEW c \in Chats, Issue(c)
  PROVE  /\ issued' \in Seq([chat : Chats, at : Nat])
         /\ Codes \subseteq Codes'
         /\ \A k \in Codes : issued'[k] = issued[k]
         /\ EnsuredCode(c) \in PairingState
         /\ EnsuredCode(c).code \in Codes' \ void
         /\ issued'[EnsuredCode(c).code].chat = c
         /\ EnsuredCode(c).expires = issued'[EnsuredCode(c).code].at + Ttl
         /\ EnsuredCode(c).code \in Codes =>
              EnsuredCode(c) = pending[c] /\ pending[c] # None /\ now < pending[c].expires
         /\ NeedsIssue(c) => issued'[EnsuredCode(c).code].at = now
         /\ ~NeedsIssue(c) =>
              EnsuredCode(c) = pending[c] /\ pending[c] # None /\ UNCHANGED issued
<1> DEFINE r == [chat |-> c, at |-> now]
<1>1. /\ issued \in Seq([chat : Chats, at : Nat]) /\ now \in Nat /\ void \subseteq Codes
      /\ pending[c] \in PairingState \cup {None} /\ Len(issued) \in Nat
      /\ Ttl \in Nat /\ r \in [chat : Chats, at : Nat]
  BY PairingConstants DEF IInv, TypeOK
<1>2. CASE NeedsIssue(c)
  <2>1. issued' = Append(issued, r)
    BY <1>2 DEF Issue
  <2>2. EnsuredCode(c) = [code |-> Len(issued) + 1, expires |-> now + Ttl]
    BY <1>2 DEF EnsuredCode
  <2> HIDE DEF r
  <2>3. /\ issued' \in Seq([chat : Chats, at : Nat]) /\ Len(issued') = Len(issued) + 1
        /\ \A k \in 1 .. Len(issued) : issued'[k] = issued[k]
        /\ issued'[Len(issued) + 1] = r
    BY <1>1, <2>1
  <2>4. Len(issued) + 1 \in Codes' \ Codes /\ Codes \subseteq Codes'
    BY <1>1, <2>3 DEF Codes
  <2>5. r.chat = c /\ r.at = now
    BY DEF r
  <2>6. EnsuredCode(c) \in PairingState
    BY <1>1, <2>2 DEF PairingState
  <2>7. issued'[EnsuredCode(c).code].at = now
    BY <1>1, <2>2, <2>3, <2>5
  <2> QED
    BY <1>1, <1>2, <2>2, <2>3, <2>4, <2>5, <2>6, <2>7 DEF Codes
<1>3. CASE ~NeedsIssue(c)
  <2>1. issued' = issued /\ EnsuredCode(c) = pending[c]
    BY <1>3 DEF Issue, EnsuredCode
  <2>2. pending[c] # None /\ pending[c] \in PairingState /\ now < pending[c].expires
    BY <1>1, <1>3 DEF NeedsIssue, PairingState
  <2> QED
    BY <1>1, <1>3, <2>1, <2>2 DEF IInv, PendingGood, Codes
<1> QED
  BY <1>2, <1>3

\* A failed attempt leaves an account below the limit, or a lock.
LEMMA FailedFacts ==
  ASSUME IInv, NEW c \in Chats
  PROVE  LET f == Failed(Unlocked(c))
         IN  /\ f \in AttemptState
             /\ f.started <= now
             /\ f.until = 0 => f.count < MaxAttempts
             /\ f # None
             /\ f.until # 0 => f.until = now + Lockout
             /\ attempts[c] # None /\ attempts[c].until # 0 => f.until = 0
<1> DEFINE u == Unlocked(c)
<1>1. now \in Nat /\ Lockout \in Nat \ {0} /\ MaxAttempts \in Nat \ {0, 1} /\ Window \in Nat \ {0}
  BY PairingConstants DEF IInv, TypeOK
<1>2. u = None \/ (u \in AttemptState /\ u.until = 0 /\ u.count < MaxAttempts /\ u.started <= now)
  BY DEF Unlocked, IInv, TypeOK, BelowLimit
<1> DEFINE fresh == u = None \/ now - u.started >= Window
           count == IF fresh THEN 1 ELSE u.count + 1
           started == IF fresh THEN now ELSE u.started
           until == IF TooMany(count) THEN now + Lockout ELSE 0
<1>3. count \in 1 .. MaxAttempts /\ started \in Nat /\ started <= now
  BY <1>1, <1>2 DEF AttemptState
<1>4. until \in Nat /\ (until = 0 => count < MaxAttempts)
  BY <1>1, <1>3 DEF TooMany
<1>5. Failed(u) = [started |-> started, count |-> count, until |-> until]
  BY DEF Failed
<1> HIDE DEF u, count, started, until
<1>6. Failed(u) \in AttemptState /\ Failed(u).started <= now
      /\ (Failed(u).until = 0 => Failed(u).count < MaxAttempts)
  BY <1>3, <1>4, <1>5 DEF AttemptState
<1>7. until # 0 => until = now + Lockout
  BY DEF until
<1>8. attempts[c] # None /\ attempts[c].until # 0 => until = 0
  <2>1. attempts[c] # None /\ attempts[c].until # 0 => u = None
    BY DEF u, Unlocked
  <2>2. u = None => count = 1
    BY DEF count
  <2>3. count = 1 => until = 0
    BY <1>1 DEF until, TooMany
  <2> QED
    BY <2>1, <2>2, <2>3
<1> QED
  BY <1>5, <1>6, <1>7, <1>8, NoneIsNoState DEF u

-----------------------------------------------------------------------------
(* The invariant is inductive *)

LEMMA InitIInv == Init => IInv
<1> SUFFICES ASSUME Init PROVE IInv
  OBVIOUS
<1>1. issued \in Seq([chat : Chats, at : Nat])
  BY DEF Init
<1>2. tries \in [Chats -> Seq(Nat)]
  BY DEF Init
<1>3. TypeOK
  BY <1>1, <1>2 DEF Init, TypeOK
<1> QED
  BY <1>3 DEF Init, IInv, MessageKnown, PendingGood, BelowLimit, OthersPrinted, PrintedOrLocked, IssuedByLockout

LEMMA ReceiveKeepsIInv == IInv /\ Receive => IInv'
<1> SUFFICES ASSUME IInv, Receive PROVE IInv'
  OBVIOUS
<1>1. UNCHANGED <<now, allowed, pending, attempts, issued, void, tries, printed, decisions>>
      /\ pc' = "arm"
  BY DEF Receive, accessVars, historyVars
<1>2. msg' \in Message /\ msg'.code \in Codes \cup {0}
  <2>1. PICK c \in Chats \ allowed, p \in BOOLEAN, code \in printed \cup {0} :
          msg' = [chat |-> c, pair |-> p, code |-> code]
    BY DEF Receive
  <2>2. code \in Codes \cup {0} /\ code \in Nat
    BY DEF IInv, TypeOK, Codes
  <2> QED
    BY <2>1, <2>2 DEF Message
<1>3. TypeOK'
  BY <1>1, <1>2 DEF IInv, TypeOK, Codes
<1>4. MessageKnown' /\ PendingGood' /\ BelowLimit' /\ OthersPrinted'
  BY <1>1, <1>2 DEF Receive, IInv, MessageKnown, PendingGood, BelowLimit, OthersPrinted,
     PrintedOrLocked, IssuedByLockout, Codes
<1> QED
  BY <1>3, <1>4 DEF IInv

\* Arming a chat's code for a message or a membership change; a new one is printed.
LEMMA ArmedKeepsIInv ==
  ASSUME IInv, NEW c \in Chats, Issue(c),
         pending' = [pending EXCEPT ![c] = EnsuredCode(c)],
         printed' = printed \cup {EnsuredCode(c).code} \/ (~NeedsIssue(c) /\ UNCHANGED printed),
         UNCHANGED <<now, allowed, attempts, void, tries, decisions>>,
         pc # "show", pc' \in {"idle", "attempt"}, msg' \in {msg, None},
         pc' = "attempt" => pc = "arm" /\ msg' = msg
  PROVE  IInv'
<1>1. /\ issued' \in Seq([chat : Chats, at : Nat])
      /\ Codes \subseteq Codes'
      /\ \A k \in Codes : issued'[k] = issued[k]
      /\ EnsuredCode(c) \in PairingState
      /\ EnsuredCode(c).code \in Codes' \ void
      /\ issued'[EnsuredCode(c).code].chat = c
      /\ EnsuredCode(c).expires = issued'[EnsuredCode(c).code].at + Ttl
  BY IssueFacts
<1>2. pending' \in [Chats -> PairingState \cup {None}] /\ pending'[c] = EnsuredCode(c)
      /\ \A d \in Chats : d # c => pending'[d] = pending[d]
  BY <1>1 DEF IInv, TypeOK
<1>3. printed \subseteq printed' /\ printed' \subseteq Codes'
  BY <1>1 DEF IInv, TypeOK
<1>4. void' \subseteq Codes'
  BY <1>1 DEF IInv, TypeOK
<1>5. TypeOK'
  BY <1>1, <1>2, <1>3, <1>4 DEF IInv, TypeOK
<1>6. MessageKnown'
  BY <1>1 DEF IInv, MessageKnown
<1>7. PendingGood'
  BY <1>1, <1>2 DEF IInv, PendingGood
<1>8. BelowLimit'
  BY DEF IInv, BelowLimit
<1>9. OthersPrinted'
  <2>1. ASSUME NEW d \in Chats, d # c
        PROVE  PrintedOrLocked(d)'
    BY <1>1, <1>2, <1>3, <2>1 DEF IInv, OthersPrinted, PrintedOrLocked, IssuedByLockout, PendingGood
  <2>2. PrintedOrLocked(c)'
    <3>1. CASE printed' = printed \cup {EnsuredCode(c).code}
      BY <1>2, <3>1 DEF PrintedOrLocked
    <3>2. CASE ~NeedsIssue(c) /\ UNCHANGED printed
      <4>1. EnsuredCode(c) = pending[c] /\ UNCHANGED issued
        BY <3>2, IssueFacts
      <4> QED
        BY <1>2, <3>2, <4>1 DEF IInv, OthersPrinted, PrintedOrLocked, IssuedByLockout
    <3> QED
      BY <3>1, <3>2
  <2> QED
    BY <2>1, <2>2 DEF OthersPrinted
<1> QED
  BY <1>5, <1>6, <1>7, <1>8, <1>9 DEF IInv

\* The access lock is held, but nothing about codes and attempts changes.
LEMMA NoChangeKeepsIInv ==
  ASSUME IInv, allowed' \in SUBSET Chats,
         UNCHANGED <<now, pending, attempts, issued, void, tries, printed>>,
         decisions' \in Nat,
         \/ pc' = pc /\ msg' = msg
         \/ pc # "show" /\ pc' = "idle" /\ msg' = None
         \/ pc = "arm" /\ pc' = "attempt" /\ msg' = msg
  PROVE  IInv'
<1>1. TypeOK'
  BY DEF IInv, TypeOK, Codes
<1>2. MessageKnown' /\ PendingGood' /\ BelowLimit' /\ OthersPrinted'
  BY DEF IInv, MessageKnown, PendingGood, BelowLimit, OthersPrinted, PrintedOrLocked, IssuedByLockout, Codes
<1> QED
  BY <1>1, <1>2 DEF IInv

LEMMA ArmKeepsIInv == IInv /\ Arm => IInv'
<1> SUFFICES ASSUME IInv, Arm PROVE IInv'
  OBVIOUS
<1>1. pc = "arm" /\ msg \in Message /\ msg.chat \in Chats
      /\ UNCHANGED <<now, allowed, attempts, void, tries, decisions>>
  BY DEF Arm, IInv, MessageKnown, Message
<1>2. \/ pc' = "attempt" /\ msg' = msg
      \/ pc' = "idle" /\ msg' = None
  BY DEF Arm, Goto
<1>3. CASE msg.chat \in allowed
  <2>1. UNCHANGED <<pending, issued, printed>>
    BY <1>3 DEF Arm
  <2>2. allowed' \in SUBSET Chats /\ decisions' \in Nat
    BY <1>1 DEF IInv, TypeOK
  <2> QED
    BY <1>1, <1>2, <2>1, <2>2, NoChangeKeepsIInv
<1>4. CASE msg.chat \notin allowed
  <2>1. /\ Issue(msg.chat)
        /\ pending' = [pending EXCEPT ![msg.chat] = EnsuredCode(msg.chat)]
        /\ \/ printed' = printed \cup {EnsuredCode(msg.chat).code}
           \/ ~NeedsIssue(msg.chat) /\ UNCHANGED printed
    BY <1>4 DEF Arm
  <2> QED
    BY <1>1, <1>2, <2>1, ArmedKeepsIInv
<1> QED
  BY <1>3, <1>4

LEMMA PairKeepsIInv == IInv /\ Pair => IInv'
<1> SUFFICES ASSUME IInv, Pair PROVE IInv'
  OBVIOUS
<1> DEFINE c == msg.chat
<1>1. /\ c \in Chats /\ msg.code \in Codes \cup {0} /\ Issue(c)
      /\ tries' = [tries EXCEPT ![c] = Append(@, now)]
      /\ UNCHANGED <<now, printed, decisions>>
      /\ msg.code = EnsuredCode(c).code
  BY DEF Pair, Compare, IInv, MessageKnown, Message
<1>2. /\ allowed' = allowed \cup {c}
      /\ attempts' = [attempts EXCEPT ![c] = None]
      /\ pending' = [pending EXCEPT ![c] = None]
      /\ void' = void \cup {msg.code}
      /\ pc' = "idle" /\ msg' = None
  BY DEF Pair, DropCode, Goto
<1>3. /\ issued' \in Seq([chat : Chats, at : Nat])
      /\ Codes \subseteq Codes'
      /\ \A k \in Codes : issued'[k] = issued[k]
      /\ msg.code \in Codes'
      /\ issued'[msg.code].chat = c
  BY <1>1, IssueFacts
<1>4. tries' \in [Chats -> Seq(Nat)]
  <2>1. tries[c] \in Seq(Nat) /\ now \in Nat
    BY <1>1 DEF IInv, TypeOK
  <2>2. Append(tries[c], now) \in Seq(Nat)
    BY <2>1
  <2> QED
    BY <1>1, <2>2 DEF IInv, TypeOK
<1>5. void' \subseteq Codes' /\ printed' \subseteq Codes'
  BY <1>1, <1>2, <1>3 DEF IInv, TypeOK
<1>6. TypeOK'
  BY <1>1, <1>2, <1>3, <1>4, <1>5 DEF IInv, TypeOK
<1>7. PendingGood'
  <2>1. SUFFICES ASSUME NEW d \in Chats, pending'[d] # None
                 PROVE  /\ pending'[d].code \in Codes' \ void'
                        /\ issued'[pending'[d].code].chat = d
                        /\ pending'[d].expires = issued'[pending'[d].code].at + Ttl
    BY DEF PendingGood
  <2>2. pending'[d] = pending[d] /\ d # c /\ pending[d] # None
    BY <1>1, <1>2, <2>1 DEF IInv, TypeOK
  <2>3. /\ pending[d].code \in Codes \ void
        /\ issued[pending[d].code].chat = d
        /\ pending[d].expires = issued[pending[d].code].at + Ttl
    BY <2>2 DEF IInv, PendingGood
  <2>4. issued'[pending[d].code] = issued[pending[d].code] /\ pending[d].code \in Codes'
    BY <1>3, <2>3
  <2>5. pending[d].code # msg.code
    BY <1>3, <2>2, <2>3, <2>4
  <2> QED
    BY <1>2, <2>2, <2>3, <2>4, <2>5
<1>8. MessageKnown' /\ BelowLimit'
  BY <1>1, <1>2 DEF IInv, MessageKnown, BelowLimit, TypeOK, Pair, Compare
<1>9. OthersPrinted'
  <2>1. SUFFICES ASSUME NEW d \in Chats, pending'[d] # None
                 PROVE  PrintedOrLocked(d)'
    BY DEF OthersPrinted, PrintedOrLocked
  <2>2. /\ d # c /\ pending'[d] = pending[d] /\ attempts'[d] = attempts[d]
        /\ printed' = printed /\ pc # "show"
    BY <1>1, <1>2, <2>1 DEF IInv, TypeOK, Pair, Compare
  <2>3. issued'[pending[d].code] = issued[pending[d].code]
    BY <1>3, <2>1, <2>2 DEF IInv, PendingGood
  <2> QED
    BY <2>2, <2>3 DEF IInv, OthersPrinted, PrintedOrLocked, IssuedByLockout
<1> QED
  BY <1>6, <1>7, <1>8, <1>9 DEF IInv

LEMMA RejectKeepsIInv == IInv /\ Reject => IInv'
<1> SUFFICES ASSUME IInv, Reject PROVE IInv'
  OBVIOUS
<1> DEFINE c == msg.chat
           f == Failed(Unlocked(c))
<1>1. /\ c \in Chats /\ msg \in Message /\ msg.code \in Codes \cup {0} /\ Issue(c)
      /\ tries' = [tries EXCEPT ![c] = Append(@, now)]
      /\ UNCHANGED <<now, printed, decisions, allowed, void>>
      /\ pc = "attempt"
  BY DEF Reject, Compare, IInv, MessageKnown, Message
<1>2. /\ pending' = [pending EXCEPT ![c] = EnsuredCode(c)]
      /\ attempts' = [attempts EXCEPT ![c] = f]
      /\ Goto(AfterWrongCode(attempts'[c]))
  BY DEF Reject
<1>3. /\ issued' \in Seq([chat : Chats, at : Nat])
      /\ Codes \subseteq Codes'
      /\ \A k \in Codes : issued'[k] = issued[k]
      /\ EnsuredCode(c) \in PairingState
      /\ EnsuredCode(c).code \in Codes' \ void
      /\ issued'[EnsuredCode(c).code].chat = c
      /\ EnsuredCode(c).expires = issued'[EnsuredCode(c).code].at + Ttl
  BY <1>1, IssueFacts
<1>4. /\ f \in AttemptState /\ f.started <= now /\ f # None
      /\ f.until = 0 => f.count < MaxAttempts
      /\ f.until # 0 => f.until = now + Lockout
      /\ attempts[c] # None /\ attempts[c].until # 0 => f.until = 0
  BY <1>1, FailedFacts
<1> HIDE DEF f
<1>5. attempts' \in [Chats -> AttemptState \cup {None}] /\ attempts'[c] = f
      /\ \A d \in Chats : d # c => attempts'[d] = attempts[d]
  BY <1>1, <1>2, <1>4 DEF IInv, TypeOK
<1>6. pending' \in [Chats -> PairingState \cup {None}] /\ pending'[c] = EnsuredCode(c)
      /\ \A d \in Chats : d # c => pending'[d] = pending[d]
  BY <1>1, <1>2, <1>3 DEF IInv, TypeOK
<1>7. \/ f.until = 0 /\ pc' = "show" /\ msg' = msg
      \/ f.until # 0 /\ pc' = "idle" /\ msg' = None
  BY <1>2, <1>5 DEF AfterWrongCode, Goto
<1>8. tries' \in [Chats -> Seq(Nat)]
  <2>1. tries[c] \in Seq(Nat) /\ now \in Nat
    BY <1>1 DEF IInv, TypeOK
  <2>2. Append(tries[c], now) \in Seq(Nat)
    BY <2>1
  <2> QED
    BY <1>1, <2>2 DEF IInv, TypeOK
<1>9. void' \subseteq Codes' /\ printed' \subseteq Codes'
  BY <1>1, <1>3 DEF IInv, TypeOK
<1>10. TypeOK'
  BY <1>1, <1>3, <1>5, <1>6, <1>7, <1>8, <1>9 DEF IInv, TypeOK
<1>11. PendingGood'
  BY <1>1, <1>3, <1>6 DEF IInv, PendingGood
<1>12. MessageKnown' /\ BelowLimit'
  BY <1>1, <1>3, <1>4, <1>5, <1>7 DEF IInv, MessageKnown, BelowLimit
<1>13. OthersPrinted'
  <2>1. ASSUME NEW d \in Chats, d # c
        PROVE  PrintedOrLocked(d)'
    BY <1>1, <1>3, <1>5, <1>6, <2>1
       DEF IInv, OthersPrinted, PrintedOrLocked, IssuedByLockout, PendingGood
  <2>2. CASE f.until = 0
    BY <1>7, <2>1, <2>2 DEF OthersPrinted
  <2>3. ASSUME NEW d \in Chats, d = c, f.until # 0
        PROVE  PrintedOrLocked(d)'
    <3>1. pending'[d] = EnsuredCode(d) /\ attempts'[d] = f /\ Issue(d)
      BY <1>1, <1>5, <1>6, <2>3
    <3>2. CASE NeedsIssue(d)
      <4>1. issued'[pending'[d].code].at = now
        BY <3>1, <3>2, IssueFacts
      <4>2. attempts'[d] # None /\ attempts'[d].until # 0 /\ attempts'[d].until = now + Lockout
        BY <1>4, <2>3, <3>1
      <4>3. IssuedByLockout(d)'
        BY <4>1, <4>2 DEF IssuedByLockout
      <4> QED
        BY <4>3 DEF PrintedOrLocked
    <3>3. CASE ~NeedsIssue(d)
      <4>1. EnsuredCode(d) = pending[d] /\ pending[d] # None
        BY <3>1, <3>3, IssueFacts
      <4>2. pending[d].code \in printed
        BY <1>1, <1>4, <2>3, <4>1 DEF IInv, OthersPrinted, PrintedOrLocked, IssuedByLockout
      <4> QED
        BY <1>1, <3>1, <4>1, <4>2 DEF PrintedOrLocked
    <3> QED
      BY <3>2, <3>3
  <2>4. CASE f.until # 0
    BY <2>1, <2>3, <2>4 DEF OthersPrinted
  <2> QED
    BY <2>2, <2>4
<1> QED
  BY <1>10, <1>11, <1>12, <1>13 DEF IInv

LEMMA ShowKeepsIInv == IInv /\ Show => IInv'
<1> SUFFICES ASSUME IInv, Show PROVE IInv'
  OBVIOUS
<1> DEFINE c == msg.chat
<1>1. /\ pc = "show" /\ pc' = "idle" /\ msg' = None /\ c \in Chats
      /\ UNCHANGED <<now, allowed, pending, attempts, issued, void, tries, decisions>>
  BY DEF Show, Goto, accessVars, historyVars, IInv, MessageKnown, Message
<1>2. printed \subseteq printed' /\ printed' \subseteq Codes
      /\ (pending[c] # None => pending[c].code \in printed')
  BY <1>1 DEF Show, IInv, TypeOK, PendingGood
<1>3. TypeOK'
  BY <1>1, <1>2 DEF IInv, TypeOK, Codes
<1>4. MessageKnown' /\ PendingGood' /\ BelowLimit'
  BY <1>1 DEF IInv, MessageKnown, PendingGood, BelowLimit, Codes
<1>5. OthersPrinted'
  BY <1>1, <1>2 DEF IInv, OthersPrinted, PrintedOrLocked, IssuedByLockout
<1> QED
  BY <1>3, <1>4, <1>5 DEF IInv

LEMMA DenyKeepsIInv == ASSUME IInv, NEW c \in Chats, Deny(c) PROVE IInv'
<1>1. /\ decisions' = decisions + 1 /\ allowed' = allowed \ {c}
      /\ attempts' = [attempts EXCEPT ![c] = None]
      /\ pending' = [pending EXCEPT ![c] = None]
      /\ void' = void \cup {k \in Codes : issued[k].chat = c}
      /\ tries' = [tries EXCEPT ![c] = <<>>]
      /\ UNCHANGED <<now, pc, msg, issued, printed>>
  BY DEF Deny, DropCode, Forgotten
<1>2. tries' \in [Chats -> Seq(Nat)]
  <2>1. <<>> \in Seq(Nat)
    OBVIOUS
  <2> QED
    BY <1>1, <2>1 DEF IInv, TypeOK
<1>3. /\ attempts' \in [Chats -> AttemptState \cup {None}]
      /\ pending' \in [Chats -> PairingState \cup {None}]
  BY <1>1 DEF IInv, TypeOK
<1>4. Codes' = Codes /\ void' \subseteq Codes /\ printed' \subseteq Codes
  BY <1>1 DEF IInv, TypeOK, Codes
<1>5. allowed' \in SUBSET Chats /\ decisions' \in Nat
  BY <1>1 DEF IInv, TypeOK
<1>6. TypeOK'
  BY <1>1, <1>2, <1>3, <1>4, <1>5 DEF IInv, TypeOK
<1>7. PendingGood'
  BY <1>1 DEF IInv, PendingGood, TypeOK, Codes
<1>8. MessageKnown' /\ BelowLimit' /\ OthersPrinted'
  BY <1>1 DEF IInv, MessageKnown, BelowLimit, OthersPrinted, PrintedOrLocked, IssuedByLockout, TypeOK, Codes
<1> QED
  BY <1>6, <1>7, <1>8 DEF IInv

LEMMA RecentType ==
  ASSUME NEW times \in Seq(Nat), NEW t
  PROVE  Recent(times, t) \in Seq(Nat)
<1> DEFINE old == {i \in DOMAIN times : t - times[i] >= Window}
           k == Cardinality(old)
<1>1. Len(times) \in Nat /\ DOMAIN times = 1 .. Len(times)
  OBVIOUS
<1>2. IsFiniteSet(1 .. Len(times))
  BY <1>1, FS_Interval
<1>3. IsFiniteSet(old)
  BY <1>1, <1>2, FS_Subset
<1>4. k \in Nat
  BY <1>3, FS_CardinalityType
<1>5. Recent(times, t) = SubSeq(times, k + 1, Len(times))
  BY DEF Recent
<1> HIDE DEF k
<1>6. \A i \in (k + 1) .. Len(times) : times[i] \in Nat
  BY <1>4
<1> QED
  BY <1>1, <1>4, <1>5, <1>6

LEMMA TickKeepsIInv == IInv /\ Tick => IInv'
<1> SUFFICES ASSUME IInv, Tick PROVE IInv'
  OBVIOUS
<1>1. /\ now' = now + 1 /\ now \in Nat
      /\ UNCHANGED <<allowed, pending, attempts, pc, msg, issued, printed, void, decisions>>
  BY DEF Tick, accessVars, IInv, TypeOK
<1>2. tries' \in [Chats -> Seq(Nat)]
  <2>1. ASSUME NEW c \in Chats PROVE Recent(tries[c], now') \in Seq(Nat)
    <3>1. tries[c] \in Seq(Nat)
      BY DEF IInv, TypeOK
    <3> QED
      BY <3>1, RecentType
  <2> QED
    BY <2>1 DEF Tick
<1>3. TypeOK'
  BY <1>1, <1>2 DEF IInv, TypeOK, Codes
<1>4. BelowLimit'
  BY <1>1 DEF IInv, TypeOK, BelowLimit, AttemptState
<1>5. MessageKnown' /\ PendingGood' /\ OthersPrinted'
  BY <1>1 DEF IInv, MessageKnown, PendingGood, OthersPrinted, PrintedOrLocked, IssuedByLockout, Codes
<1> QED
  BY <1>3, <1>4, <1>5 DEF IInv

LEMMA NextKeepsIInv == IInv /\ [Next]_vars => IInv'
<1> SUFFICES ASSUME IInv, [Next]_vars PROVE IInv'
  OBVIOUS
<1>1. allowed \in SUBSET Chats /\ decisions \in Nat
  BY DEF IInv, TypeOK
<1>2. CASE Receive
  BY <1>2, ReceiveKeepsIInv
<1>3. CASE Dispatch \/ UNCHANGED vars
  BY <1>1, <1>3, NoChangeKeepsIInv DEF Dispatch, vars
<1>4. CASE Arm
  BY <1>4, ArmKeepsIInv
<1>5. CASE Refused
  BY <1>1, <1>5, NoChangeKeepsIInv DEF Refused, Goto, accessVars, historyVars
<1>6. CASE Pair
  BY <1>6, PairKeepsIInv
<1>7. CASE Reject
  BY <1>7, RejectKeepsIInv
<1>8. CASE Show
  BY <1>8, ShowKeepsIInv
<1>9. CASE Added
  <2>1. PICK c \in Chats :
          /\ Issue(c)
          /\ pending' = [pending EXCEPT ![c] = EnsuredCode(c)]
          /\ printed' = printed \cup {pending'[c].code}
    BY <1>9 DEF Added
  <2>2. pending'[c] = EnsuredCode(c)
    BY <2>1 DEF IInv, TypeOK
  <2>3. /\ UNCHANGED <<now, allowed, attempts, void, tries, decisions>>
        /\ pc = "idle" /\ pc' = pc /\ msg' = msg
    BY <1>9 DEF Added
  <2> QED
    BY <2>1, <2>2, <2>3, ArmedKeepsIInv
<1>10. ASSUME NEW c \in Chats, Allow(c)
       PROVE  IInv'
  BY <1>1, <1>10, NoChangeKeepsIInv DEF Allow, historyVars
<1>11. ASSUME NEW c \in Chats, Deny(c)
       PROVE  IInv'
  BY <1>11, DenyKeepsIInv
<1>12. CASE Tick
  BY <1>12, TickKeepsIInv
<1> QED
  BY <1>2, <1>3, <1>4, <1>5, <1>6, <1>7, <1>8, <1>9, <1>10, <1>11, <1>12 DEF Next

-----------------------------------------------------------------------------
(* Theorems *)

LEMMA AlwaysIInv == Spec => []IInv
<1> QED
  BY InitIInv, NextKeepsIInv, PTL DEF Spec

\* Every variable stays in its domain, and no chat's account of attempts passes the
\* limit (record_failed_attempt).
THEOREM PairingTypeCorrect == Spec => []TypeOK
<1>1. IInv => TypeOK
  BY DEF IInv
<1> QED
  BY <1>1, AlwaysIInv, PTL

\* A /pair succeeds only with an unused, unrevoked code of its own chat, less than Ttl
\* old, whatever the clock, /allow and /deny do between arming and judging
\* (attempt_pair, ensure_room_code).
THEOREM OnlyFreshCodesPair == Spec => PairsWithFreshCode
<1>1. ASSUME IInv, [Next]_vars, NEW c \in Chats, Pair, msg.chat = c
      PROVE  /\ msg.code \in Codes \ void
             /\ issued[msg.code].chat = c
             /\ now - issued[msg.code].at < Ttl
  <2>1. msg.code \in Codes \cup {0} /\ Issue(c) /\ msg.code = EnsuredCode(c).code
    BY <1>1 DEF Pair, Compare, IInv, MessageKnown
  <2>2. EnsuredCode(c).code \in Codes'
    BY <1>1, <2>1, IssueFacts
  <2>3. msg.code \in Codes
    BY <2>1, <2>2 DEF Codes
  <2>4. pending[c] # None /\ msg.code = pending[c].code /\ now < pending[c].expires
    BY <1>1, <2>1, <2>3, IssueFacts
  <2>5. /\ msg.code \in Codes \ void /\ issued[msg.code].chat = c
        /\ pending[c].expires = issued[msg.code].at + Ttl
    BY <1>1, <2>4 DEF IInv, PendingGood
  <2>6. issued[msg.code].at \in Nat /\ now \in Nat /\ Ttl \in Nat
    <3>1. issued \in Seq([chat : Chats, at : Nat]) /\ now \in Nat
      BY <1>1 DEF IInv, TypeOK
    <3>2. \A k \in Codes : issued[k] \in [chat : Chats, at : Nat]
      BY <3>1, ElementsType DEF Codes
    <3> QED
      BY <2>3, <3>1, <3>2, PairingConstants
  <2>7. now < issued[msg.code].at + Ttl
    BY <2>4, <2>5
  <2>8. \A x, y, z \in Nat : x < y + z => x - y < z
    OBVIOUS
  <2> QED
    BY <2>5, <2>6, <2>7, <2>8
<1>2. IInv /\ [Next]_vars =>
        [\A c \in Chats : Pair /\ msg.chat = c =>
           /\ msg.code \in Codes \ void
           /\ issued[msg.code].chat = c
           /\ now - issued[msg.code].at < Ttl]_vars
  BY <1>1
<1> QED
  BY <1>2, AlwaysIInv, PTL DEF Spec, PairsWithFreshCode

\* Between messages, the code that would pair a chat is on the console, or the attempt that
\* issued it locked the chat out (handle_update, attempt_pair, handle_pair_attempt).
THEOREM CodesAreAnnounced == Spec => []CodeIsPrinted
<1>1. IInv => CodeIsPrinted
  BY DEF IInv, OthersPrinted, PrintedOrLocked, CodeIsPrinted
<1> QED
  BY <1>1, AlwaysIInv, PTL

-----------------------------------------------------------------------------
(* How many codes are compared in a window *)

\* Times that are in order, none of them in the future or a window ago.
Timed(times, t) ==
  /\ \A i \in DOMAIN times : times[i] <= t /\ t < times[i] + Window
  /\ \A i, j \in DOMAIN times : i <= j => times[i] <= times[j]

\* What the account of a chat says about when its codes were compared: those before its
\* own window are at most MaxAttempts - 2 recent ones, and a lock outlasts them all.
Accounted(times, account) ==
  /\ \A i \in DOMAIN times :
       i <= Len(times) - account.count + 1 => times[i] <= account.started
  /\ \A i \in DOMAIN times :
       i <= Len(times) - account.count - (MaxAttempts - 2) =>
         times[i] + Window <= account.started
  /\ account.until # 0 => \A i \in DOMAIN times : times[i] + Lockout <= account.until

TriesCounted ==
  \A c \in Chats :
    /\ Timed(tries[c], now)
    /\ c \notin allowed /\ attempts[c] = None => tries[c] = <<>>
    /\ attempts[c] # None => Accounted(tries[c], attempts[c])
    /\ Len(tries[c]) <= 2 * (MaxAttempts - 1)

\* A chat whose next code is compared is two comparisons short of two full accounts, or
\* has none left that counts.
LEMMA RoomForOne ==
  ASSUME IInv, TriesCounted, NEW c \in Chats, c \notin allowed, ~Locked(c)
  PROVE  /\ Len(tries[c]) + 1 <= 2 * (MaxAttempts - 1)
         /\ Unlocked(c) = None => tries[c] = <<>>
         /\ Unlocked(c) # None => Unlocked(c) = attempts[c] /\ attempts[c].until = 0
<1> DEFINE T == tries[c]
           a == attempts[c]
<1>1. /\ now \in Nat /\ MaxAttempts \in Nat \ {0, 1} /\ Window \in Nat \ {0}
      /\ Lockout \in Nat \ {0} /\ Window <= Lockout /\ T \in Seq(Nat)
      /\ Len(T) \in Nat /\ DOMAIN T = 1 .. Len(T)
      /\ a \in AttemptState \cup {None}
  BY PairingConstants DEF IInv, TypeOK
<1>2. \A i \in 1 .. Len(T) : T[i] \in Nat
  BY <1>1, ElementsType
<1>3. /\ \A i \in 1 .. Len(T) : T[i] <= now /\ now < T[i] + Window
      /\ a = None => T = <<>>
      /\ a # None => Accounted(T, a)
  BY <1>1 DEF TriesCounted, Timed
<1> HIDE DEF T, a
<1>4. CASE a = None
  BY <1>1, <1>3, <1>4 DEF Unlocked, T, a
<1>5. CASE a # None /\ a.until # 0
  <2>1. a.until \in Nat /\ a.until <= now
    BY <1>1, <1>5 DEF Locked, a, AttemptState
  <2>2. \A i \in 1 .. Len(T) : T[i] + Lockout <= a.until
    BY <1>1, <1>3, <1>5 DEF Accounted
  <2>3. Len(T) = 0
    BY <1>1, <1>2, <1>3, <2>1, <2>2
  <2>4. T = <<>>
    BY <1>1, <2>3
  <2> QED
    BY <1>1, <1>5, <2>3, <2>4 DEF Unlocked, T, a
<1>6. CASE a # None /\ a.until = 0
  <2>1. /\ a.count \in Nat /\ a.count < MaxAttempts /\ a.started \in Nat /\ a.started <= now
    BY <1>1, <1>6 DEF IInv, BelowLimit, a, AttemptState
  <2>2. Len(T) <= a.count + MaxAttempts - 2
    <3>1. SUFFICES ASSUME Len(T) > a.count + MaxAttempts - 2
                   PROVE  FALSE
      BY <1>1, <2>1
    <3>2. 1 \in DOMAIN T /\ 1 <= Len(T) - a.count - (MaxAttempts - 2)
      BY <1>1, <2>1, <3>1
    <3>3. T[1] + Window <= a.started
      BY <1>3, <1>6, <3>2 DEF Accounted
    <3> QED
      BY <1>1, <1>2, <1>3, <2>1, <3>2, <3>3
  <2> QED
    BY <1>1, <1>6, <2>1, <2>2 DEF Unlocked, T, a
<1> QED
  BY <1>4, <1>5, <1>6

LEMMA AppendTimed ==
  ASSUME NEW T \in Seq(Nat), NEW t \in Nat, Timed(T, t)
  PROVE  Timed(Append(T, t), t)
<1>1. /\ Len(T) \in Nat /\ DOMAIN T = 1 .. Len(T) /\ Window \in Nat \ {0}
      /\ \A i \in 1 .. Len(T) : T[i] \in Nat
  BY PairingConstants, ElementsType
<1>2. /\ Append(T, t) \in Seq(Nat) /\ DOMAIN Append(T, t) = 1 .. Len(T) + 1
      /\ \A i \in 1 .. Len(T) : Append(T, t)[i] = T[i]
      /\ Append(T, t)[Len(T) + 1] = t
  BY <1>1
<1> HIDE DEF Timed
<1>3. /\ \A i \in 1 .. Len(T) : T[i] <= t /\ t < T[i] + Window
      /\ \A i, j \in 1 .. Len(T) : i <= j => T[i] <= T[j]
  BY <1>1 DEF Timed
<1> DEFINE A == Append(T, t)
<1> HIDE DEF A
<1>4. /\ DOMAIN A = 1 .. Len(T) + 1
      /\ \A i \in 1 .. Len(T) : A[i] = T[i]
      /\ A[Len(T) + 1] = t
  BY <1>2 DEF A
<1>5. \A i \in DOMAIN A : A[i] <= t /\ t < A[i] + Window
  BY <1>1, <1>3, <1>4
<1>6. ASSUME NEW i \in DOMAIN A, NEW j \in DOMAIN A, i <= j
      PROVE  A[i] <= A[j]
  <2>1. CASE j \in 1 .. Len(T)
    <3>1. i \in 1 .. Len(T)
      BY <1>1, <1>4, <1>6, <2>1
    <3> QED
      BY <1>3, <1>4, <1>6, <2>1, <3>1
  <2>2. CASE j = Len(T) + 1
    BY <1>1, <1>3, <1>4, <2>2
  <2> QED
    BY <1>1, <1>4, <2>1, <2>2
<1>7. Timed(A, t)
  BY <1>5, <1>6 DEF Timed
<1> QED
  BY <1>7 DEF A

\* A wrong code, compared now, goes on the account.
LEMMA FailedAccounts ==
  ASSUME IInv, TriesCounted, NEW c \in Chats, c \notin allowed, ~Locked(c)
  PROVE  Accounted(Append(tries[c], now), Failed(Unlocked(c)))
<1> DEFINE T == tries[c]
           u == Unlocked(c)
           A == Append(T, now)
           L == Len(T)
<1>1. /\ now \in Nat /\ MaxAttempts \in Nat \ {0, 1} /\ Window \in Nat \ {0}
      /\ Lockout \in Nat \ {0} /\ T \in Seq(Nat)
      /\ L \in Nat /\ DOMAIN T = 1 .. L
  BY PairingConstants DEF IInv, TypeOK
<1>2. \A i \in 1 .. L : T[i] \in Nat /\ T[i] <= now
  BY <1>1, ElementsType DEF TriesCounted, Timed
<1>3. /\ Len(A) = L + 1 /\ DOMAIN A = 1 .. L + 1
      /\ \A i \in 1 .. L : A[i] = T[i]
      /\ A[L + 1] = now
  BY <1>1
<1>4. \A i \in 1 .. L + 1 : A[i] \in Nat /\ A[i] <= now
  BY <1>1, <1>2, <1>3
<1>5. /\ u = None => L = 0
      /\ u # None => /\ u = attempts[c] /\ u.until = 0 /\ Accounted(T, u)
                     /\ u.count \in 1 .. MaxAttempts - 1
                     /\ u.started \in Nat /\ u.started <= now
  BY RoomForOne, <1>1 DEF IInv, TypeOK, BelowLimit, AttemptState, TriesCounted
<1> DEFINE fresh == u = None \/ now - u.started >= Window
           count == IF fresh THEN 1 ELSE u.count + 1
           started == IF fresh THEN now ELSE u.started
           until == IF TooMany(count) THEN now + Lockout ELSE 0
<1>6. /\ Failed(u) = [started |-> started, count |-> count, until |-> until]
      /\ until \in {0, now + Lockout}
  BY DEF Failed
<1>7. /\ Failed(u).started = started /\ Failed(u).count = count /\ Failed(u).until = until
  BY <1>6
<1> HIDE DEF u, A, T, L, until
\* What the account says of the tries that are in both.
<1>8. ASSUME u # None, NEW i \in 1 .. L
      PROVE  /\ A[i] \in Nat
             /\ i <= L - u.count + 1 => A[i] <= u.started
             /\ i <= L - u.count - (MaxAttempts - 2) => A[i] + Window <= u.started
  <2>1. Accounted(T, u) /\ i \in DOMAIN T /\ Len(T) = L /\ A[i] = T[i] /\ T[i] \in Nat
    BY <1>1, <1>2, <1>3, <1>5, <1>8 DEF L
  <2> QED
    BY <2>1 DEF Accounted
<1>9. ASSUME NEW i \in 1 .. L + 1
      PROVE  /\ i <= L + 1 - count + 1 => A[i] <= started
             /\ i <= L + 1 - count - (MaxAttempts - 2) => A[i] + Window <= started
  <2>1. CASE u = None
    BY <1>1, <1>4, <1>5, <1>9, <2>1
  <2>2. CASE u # None /\ now - u.started >= Window
    <3>1. /\ count = 1 /\ started = now /\ u.count \in 1 .. MaxAttempts - 1
          /\ u.started \in Nat /\ A[i] \in Nat /\ A[i] <= now
      BY <1>4, <1>5, <1>9, <2>2
    <3> HIDE DEF count, started
    <3>2. i <= L + 1 - count - (MaxAttempts - 2) => i \in 1 .. L /\ i <= L - u.count + 1
      BY <1>1, <1>9, <3>1
    <3>3. i <= L + 1 - count - (MaxAttempts - 2) => A[i] <= u.started
      BY <1>8, <2>2, <3>2
    <3> QED
      BY <1>1, <2>2, <3>1, <3>3
  <2>3. CASE ~fresh
    <3>1. /\ u # None /\ count = u.count + 1 /\ started = u.started
          /\ u.count \in 1 .. MaxAttempts - 1
      BY <1>5, <2>3
    <3> DEFINE n == u.count
    <3>2. n \in Nat /\ n >= 1 /\ count = n + 1
      BY <1>1, <3>1
    <3> HIDE DEF count, started, fresh, n
    <3>3. i \in Nat /\ i >= 1
      BY <1>9
    <3>4. i <= L + 1 - count + 1 => i \in 1 .. L /\ i <= L - n + 1
      BY <1>1, <3>2, <3>3
    <3>5. i <= L + 1 - count - (MaxAttempts - 2) =>
            i \in 1 .. L /\ i <= L - n - (MaxAttempts - 2)
      BY <1>1, <3>2, <3>3
    <3> QED
      BY <1>8, <3>1, <3>4, <3>5 DEF n
  <2> QED
    BY <2>1, <2>2, <2>3
<1>10. until # 0 => \A i \in 1 .. L + 1 : A[i] + Lockout <= until
  BY <1>1, <1>4, <1>6
<1> DEFINE f == Failed(u)
<1> HIDE DEF started, count, fresh, f
<1>11. f.started = started /\ f.count = count /\ f.until = until
  BY <1>7 DEF f
<1>12. ASSUME NEW i \in DOMAIN A
       PROVE  /\ i <= L + 1 - f.count + 1 => A[i] <= f.started
              /\ i <= L + 1 - f.count - (MaxAttempts - 2) => A[i] + Window <= f.started
              /\ f.until # 0 => A[i] + Lockout <= f.until
  <2>1. i \in 1 .. L + 1
    BY <1>3, <1>12
  <2>2. /\ i <= L + 1 - f.count + 1 => A[i] <= f.started
        /\ i <= L + 1 - f.count - (MaxAttempts - 2) => A[i] + Window <= f.started
    BY <1>9, <1>11, <2>1
  <2>3. f.until # 0 => A[i] + Lockout <= f.until
    BY <1>10, <1>11, <2>1
  <2> QED
    BY <2>2, <2>3
<1> DEFINE n == Len(A)
<1>13. n = L + 1
  BY <1>3
<1> HIDE DEF n
<1>14. n \in Nat /\ L \in Nat /\ f.count \in Nat
  BY <1>1, <1>13, FailedFacts DEF f, u, AttemptState
<1>15. ASSUME NEW i \in DOMAIN A
       PROVE  /\ i <= n - f.count + 1 => A[i] <= f.started
              /\ i <= n - f.count - (MaxAttempts - 2) => A[i] + Window <= f.started
              /\ f.until # 0 => A[i] + Lockout <= f.until
  <2>1. /\ n - f.count + 1 = L + 1 - f.count + 1
        /\ n - f.count - (MaxAttempts - 2) = L + 1 - f.count - (MaxAttempts - 2)
    BY <1>1, <1>13, <1>14
  <2>2. /\ i <= L + 1 - f.count + 1 => A[i] <= f.started
        /\ i <= L + 1 - f.count - (MaxAttempts - 2) => A[i] + Window <= f.started
        /\ f.until # 0 => A[i] + Lockout <= f.until
    BY <1>12, <1>15
  <2> QED
    BY <2>1, <2>2
<1>16. Accounted(A, f)
  BY <1>15 DEF Accounted, n
<1> QED
  BY <1>16 DEF A, u, T, f

\* R is what is left of T without its first k elements.
Suffix(R, T, k) ==
  /\ Len(R) = Len(T) - k
  /\ DOMAIN R = 1 .. Len(T) - k
  /\ \A i \in 1 .. Len(T) - k : R[i] = T[i + k]

LEMMA SuffixElement ==
  ASSUME NEW T \in Seq(Nat), NEW k \in 0 .. Len(T), NEW R, Suffix(R, T, k), NEW i \in DOMAIN R
  PROVE  /\ i \in Nat /\ i + k \in 1 .. Len(T) /\ i + k > k
         /\ i + k \in DOMAIN T /\ DOMAIN T = 1 .. Len(T)
         /\ R[i] = T[i + k] /\ T[i + k] \in Nat
<1>1. Len(T) \in Nat /\ DOMAIN T = 1 .. Len(T) /\ \A j \in 1 .. Len(T) : T[j] \in Nat
  BY ElementsType
<1>2. i \in 1 .. Len(T) - k
  BY DEF Suffix
<1>3. i \in Nat /\ i + k \in 1 .. Len(T) /\ i + k > k
  BY <1>1, <1>2
<1> QED
  BY <1>1, <1>2, <1>3 DEF Suffix

\* Forgetting what is a window old drops tries from the front.
LEMMA RecentFacts ==
  ASSUME NEW T \in Seq(Nat), NEW t \in Nat, Timed(T, t)
  PROVE  /\ Timed(Recent(T, t + 1), t + 1)
         /\ \E k \in 0 .. Len(T) : Suffix(Recent(T, t + 1), T, k)
<1> DEFINE L == Len(T)
           old == {i \in DOMAIN T : t + 1 - T[i] >= Window}
           k == Cardinality(old)
           R == Recent(T, t + 1)
<1>1. L \in Nat /\ DOMAIN T = 1 .. L /\ Window \in Nat \ {0}
  BY PairingConstants
<1>2. /\ \A i \in 1 .. L : T[i] \in Nat /\ T[i] <= t
      /\ \A i, j \in 1 .. L : i <= j => T[i] <= T[j]
  BY <1>1, ElementsType DEF Timed
<1>3. R = SubSeq(T, k + 1, L)
  <2>1. R = SubSeq(T, Cardinality({i \in DOMAIN T : (t + 1) - T[i] >= Window}) + 1, Len(T))
    BY Zenon DEF Recent
  <2>2. {i \in DOMAIN T : (t + 1) - T[i] >= Window} = old
    OBVIOUS
  <2> QED
    BY <2>1, <2>2, Zenon
<1> HIDE DEF L
<1>4. IsFiniteSet(1 .. L) /\ Cardinality(1 .. L) = L
  BY <1>1, FS_Interval
<1>5. old \in SUBSET (1 .. L)
  BY <1>1
<1>6. \A i \in 1 .. L : i \in old <=> t + 1 - T[i] >= Window
  BY <1>1
<1> HIDE DEF old
<1>7. IsFiniteSet(old) /\ k \in Nat /\ k <= L
  BY <1>4, <1>5, FS_Subset, FS_CardinalityType
<1>8. ASSUME NEW i \in 1 .. L, i > k
      PROVE  t + 1 - T[i] < Window
  <2>1. SUFFICES ASSUME i \in old
                 PROVE  FALSE
    BY <1>1, <1>2, <1>6, <1>8
  <2>2. ASSUME NEW j \in 1 .. i PROVE j \in old
    <3>1. j \in 1 .. L /\ j <= i
      BY <1>1, <1>8, <2>2
    <3>2. /\ T[j] <= T[i] /\ T[j] \in Nat /\ T[i] \in Nat
          /\ t + 1 - T[i] >= Window
      BY <1>2, <1>6, <1>8, <2>1, <3>1
    <3> QED
      BY <1>1, <1>6, <3>1, <3>2
  <2>3. 1 .. i \in SUBSET old
    BY <2>2
  <2>4. i \in Nat /\ i >= 1
    BY <1>8
  <2>5. Cardinality(1 .. i) = i
    BY <2>4, FS_Interval
  <2>6. i <= k
    BY <1>7, <2>3, <2>5, FS_Subset
  <2> QED
    BY <1>7, <1>8, <2>4, <2>6
<1> HIDE DEF k, R
<1>9. Suffix(R, T, k)
  <2>1. \A i \in (k + 1) .. L : T[i] \in Nat
    BY <1>1, <1>2, <1>7
  <2>2. k + 1 \in Int /\ L \in Int
    BY <1>1, <1>7
  <2> DEFINE n == Len(R)
  <2>3. /\ R \in Seq(Nat)
        /\ n = IF k + 1 <= L THEN L - (k + 1) + 1 ELSE 0
        /\ \A i \in 1 .. L - (k + 1) + 1 : R[i] = T[k + 1 + i - 1]
    BY <1>3, <2>1, <2>2, SubSeqProperties
  <2>4. L - (k + 1) + 1 = L - k /\ (k + 1 > L => L - k = 0)
    BY <1>1, <1>7
  <2> HIDE DEF n
  <2>5. n = L - k
    <3>1. k \in Nat /\ L \in Nat
      BY <1>1, <1>7
    <3>2. CASE k + 1 <= L
      BY <2>3, <2>4, <3>2
    <3>3. CASE ~(k + 1 <= L)
      BY <2>3, <2>4, <3>1, <3>3
    <3> QED
      BY <3>2, <3>3
  <2>6. DOMAIN R = 1 .. L - k
    BY <2>3, <2>5 DEF n
  <2>7. \A i \in 1 .. L - k : k + 1 + i - 1 = i + k
    BY <1>7
  <2>8. \A i \in 1 .. L - k : R[i] = T[i + k]
    BY <2>3, <2>4, <2>7
  <2> QED
    BY <2>5, <2>6, <2>8 DEF Suffix, L, n
<1>10. k \in 0 .. Len(T)
  BY <1>1, <1>7 DEF L
<1>11. Timed(R, t + 1)
  <2>1. ASSUME NEW i \in DOMAIN R
        PROVE  R[i] <= t + 1 /\ t + 1 < R[i] + Window
    <3>1. i + k \in 1 .. L /\ i + k > k /\ R[i] = T[i + k]
      BY <1>9, <1>10, <2>1, SuffixElement DEF L
    <3>2. T[i + k] <= t /\ t + 1 - T[i + k] < Window /\ T[i + k] \in Nat
      BY <1>2, <1>8, <3>1
    <3> QED
      BY <1>1, <3>1, <3>2
  <2>2. ASSUME NEW i \in DOMAIN R, NEW j \in DOMAIN R, i <= j
        PROVE  R[i] <= R[j]
    <3>1. /\ i + k \in 1 .. L /\ R[i] = T[i + k] /\ i \in Nat
          /\ j + k \in 1 .. L /\ R[j] = T[j + k] /\ j \in Nat
      BY <1>9, <1>10, <2>2, SuffixElement DEF L
    <3>2. i + k <= j + k
      BY <1>7, <2>2, <3>1
    <3> QED
      BY <1>2, <3>1, <3>2
  <2> QED
    BY <2>1, <2>2 DEF Timed
<1> QED
  BY <1>9, <1>10, <1>11 DEF R

LEMMA SuffixAccounts ==
  ASSUME NEW T \in Seq(Nat), NEW k \in 0 .. Len(T), NEW R, Suffix(R, T, k),
         NEW a \in AttemptState, Accounted(T, a)
  PROVE  Accounted(R, a)
<1> DEFINE L == Len(T)
           n == a.count
<1>1. L \in Nat /\ k \in Nat /\ MaxAttempts \in Nat /\ n \in Nat
  BY PairingConstants DEF AttemptState
<1>2. Len(R) = L - k
  BY DEF Suffix
<1> HIDE DEF L, n
<1>3. ASSUME NEW i \in DOMAIN R
      PROVE  /\ i <= L - k - n + 1 => R[i] <= a.started
             /\ i <= L - k - n - (MaxAttempts - 2) => R[i] + Window <= a.started
             /\ a.until # 0 => R[i] + Lockout <= a.until
  <2>1. i \in Nat /\ i + k \in DOMAIN T /\ R[i] = T[i + k]
    BY <1>3, SuffixElement
  <2>2. i <= L - k - n + 1 => i + k <= L - n + 1
    BY <1>1, <2>1
  <2>3. i <= L - k - n - (MaxAttempts - 2) => i + k <= L - n - (MaxAttempts - 2)
    BY <1>1, <2>1
  <2> QED
    BY <2>1, <2>2, <2>3 DEF Accounted, L, n
<1> QED
  BY <1>2, <1>3 DEF Accounted, n

LEMMA InitCounts == Init => TriesCounted
<1> SUFFICES ASSUME Init PROVE TriesCounted
  OBVIOUS
<1>1. MaxAttempts \in Nat \ {0, 1}
  BY PairingConstants
<1>2. Len(<<>>) = 0 /\ DOMAIN <<>> = {}
  OBVIOUS
<1> QED
  BY <1>1, <1>2 DEF Init, TriesCounted, Timed

\* Another code is compared; an account, if any is left, is the one that fails.
LEMMA CompareCounts ==
  ASSUME IInv, TriesCounted, NEW c \in Chats, Compare(c),
         \/ c \in allowed' /\ attempts' = [attempts EXCEPT ![c] = None]
         \/ attempts' = [attempts EXCEPT ![c] = Failed(Unlocked(c))],
         allowed \subseteq allowed', allowed' \subseteq allowed \cup {c}
  PROVE  TriesCounted'
<1>1. /\ c \notin allowed /\ ~Locked(c) /\ now' = now
      /\ tries' = [tries EXCEPT ![c] = Append(@, now)]
  BY DEF Compare
<1>2. /\ tries \in [Chats -> Seq(Nat)] /\ attempts \in [Chats -> AttemptState \cup {None}]
      /\ now \in Nat /\ tries[c] \in Seq(Nat) /\ Len(tries[c]) \in Nat
  BY DEF IInv, TypeOK
<1>3. /\ tries'[c] = Append(tries[c], now)
      /\ \A d \in Chats : d # c => tries'[d] = tries[d] /\ attempts'[d] = attempts[d]
  BY <1>1, <1>2
<1>4. Timed(tries'[c], now)
  BY <1>2, <1>3, AppendTimed DEF TriesCounted
<1>5. Len(tries'[c]) <= 2 * (MaxAttempts - 1)
  <2>1. Len(tries[c]) + 1 <= 2 * (MaxAttempts - 1)
    BY <1>1, RoomForOne
  <2>2. Len(tries'[c]) = Len(tries[c]) + 1
    BY <1>2, <1>3
  <2> QED
    BY <2>1, <2>2
<1>6. Accounted(tries'[c], Failed(Unlocked(c))) /\ Failed(Unlocked(c)) # None
  BY <1>1, <1>3, FailedAccounts, FailedFacts
<1>7. /\ c \notin allowed' => attempts'[c] # None
      /\ attempts'[c] # None => Accounted(tries'[c], attempts'[c])
  BY <1>2, <1>6
<1>8. ASSUME NEW d \in Chats
      PROVE  /\ Timed(tries'[d], now)
             /\ d \notin allowed' /\ attempts'[d] = None => tries'[d] = <<>>
             /\ attempts'[d] # None => Accounted(tries'[d], attempts'[d])
             /\ Len(tries'[d]) <= 2 * (MaxAttempts - 1)
  <2>1. CASE d = c
    BY <1>4, <1>5, <1>7, <2>1
  <2>2. CASE d # c
    BY <1>3, <2>2 DEF TriesCounted
  <2> QED
    BY <2>1, <2>2
<1> QED
  BY <1>1, <1>8 DEF TriesCounted

LEMMA DenyCounts == ASSUME IInv, TriesCounted, NEW c \in Chats, Deny(c) PROVE TriesCounted'
<1>1. /\ allowed' = allowed \ {c} /\ now' = now
      /\ attempts' = [attempts EXCEPT ![c] = None]
      /\ tries' = [tries EXCEPT ![c] = <<>>]
  BY DEF Deny
<1>2. /\ tries \in [Chats -> Seq(Nat)] /\ attempts \in [Chats -> AttemptState \cup {None}]
      /\ MaxAttempts \in Nat \ {0, 1}
  BY PairingConstants DEF IInv, TypeOK
<1>3. /\ tries'[c] = <<>> /\ attempts'[c] = None
      /\ \A d \in Chats : d # c => tries'[d] = tries[d] /\ attempts'[d] = attempts[d]
  BY <1>1, <1>2
<1>4. Len(<<>>) = 0 /\ DOMAIN <<>> = {}
  OBVIOUS
<1>5. ASSUME NEW d \in Chats
      PROVE  /\ Timed(tries'[d], now)
             /\ d \notin allowed' /\ attempts'[d] = None => tries'[d] = <<>>
             /\ attempts'[d] # None => Accounted(tries'[d], attempts'[d])
             /\ Len(tries'[d]) <= 2 * (MaxAttempts - 1)
  <2>1. CASE d = c
    BY <1>2, <1>3, <1>4, <2>1 DEF Timed
  <2>2. CASE d # c
    BY <1>1, <1>3, <2>2 DEF TriesCounted
  <2> QED
    BY <2>1, <2>2
<1> QED
  BY <1>1, <1>5 DEF TriesCounted

LEMMA TickCounts == IInv /\ TriesCounted /\ Tick => TriesCounted'
<1> SUFFICES ASSUME IInv, TriesCounted, Tick PROVE TriesCounted'
  OBVIOUS
<1>1. /\ now' = now + 1 /\ now \in Nat /\ allowed' = allowed /\ attempts' = attempts
      /\ tries' = [c \in Chats |-> Recent(tries[c], now + 1)]
      /\ MaxAttempts \in Nat
  BY PairingConstants DEF Tick, accessVars, IInv, TypeOK
<1>2. ASSUME NEW c \in Chats
      PROVE  /\ Timed(tries'[c], now + 1)
             /\ c \notin allowed /\ attempts[c] = None => tries'[c] = <<>>
             /\ attempts[c] # None => Accounted(tries'[c], attempts[c])
             /\ Len(tries'[c]) <= 2 * (MaxAttempts - 1)
  <2> DEFINE T == tries[c]
             R == Recent(T, now + 1)
  <2>1. T \in Seq(Nat) /\ Len(T) \in Nat /\ attempts[c] \in AttemptState \cup {None}
    BY DEF IInv, TypeOK
  <2>2. /\ Timed(T, now) /\ (c \notin allowed /\ attempts[c] = None => T = <<>>)
        /\ attempts[c] # None => Accounted(T, attempts[c])
        /\ Len(T) <= 2 * (MaxAttempts - 1)
    BY DEF TriesCounted
  <2>3. tries'[c] = R
    BY <1>1
  <2> HIDE DEF T
  <2>4. R \in Seq(Nat)
    BY <2>1, RecentType
  <2>5. Timed(R, now + 1)
    BY <1>1, <2>1, <2>2, RecentFacts
  <2>6. PICK k \in 0 .. Len(T) : Suffix(R, T, k)
    BY <1>1, <2>1, <2>2, RecentFacts
  <2> HIDE DEF R
  <2>7. Len(R) <= Len(T) /\ Len(R) \in Nat
    BY <2>1, <2>6 DEF Suffix
  <2>8. T = <<>> => R = <<>>
    <3>1. T = <<>> => Len(T) = 0
      OBVIOUS
    <3>2. T = <<>> => Len(R) = 0
      BY <2>1, <2>7, <3>1
    <3> QED
      BY <2>4, <3>2
  <2>9. attempts[c] # None => Accounted(R, attempts[c])
    BY <2>1, <2>2, <2>6, SuffixAccounts
  <2> QED
    BY <1>1, <2>1, <2>2, <2>3, <2>5, <2>7, <2>8, <2>9
<1> QED
  BY <1>1, <1>2 DEF TriesCounted

LEMMA NextCounts == IInv /\ TriesCounted /\ [Next]_vars => TriesCounted'
<1> SUFFICES ASSUME IInv, TriesCounted, [Next]_vars PROVE TriesCounted'
  OBVIOUS
<1>1. CASE allowed \subseteq allowed' /\ UNCHANGED <<now, attempts, tries>>
  BY <1>1 DEF TriesCounted
<1>2. CASE Receive \/ Dispatch \/ Arm \/ Refused \/ Show \/ Added \/ UNCHANGED vars
  BY <1>1, <1>2 DEF Receive, Dispatch, Arm, Refused, Show, Added, vars, accessVars, historyVars
<1>3. ASSUME NEW c \in Chats, Allow(c)
      PROVE  TriesCounted'
  BY <1>1, <1>3 DEF Allow, historyVars
<1>4. CASE Pair
  <2>1. msg.chat \in Chats
    BY <1>4 DEF Pair, Compare, IInv, MessageKnown, Message
  <2> QED
    BY <1>4, <2>1, CompareCounts DEF Pair
<1>5. CASE Reject
  <2>1. msg.chat \in Chats
    BY <1>5 DEF Reject, Compare, IInv, MessageKnown, Message
  <2>2. /\ Compare(msg.chat) /\ allowed' = allowed
        /\ attempts' = [attempts EXCEPT ![msg.chat] = Failed(Unlocked(msg.chat))]
    BY <1>5 DEF Reject
  <2> QED
    BY <2>1, <2>2, CompareCounts
<1>6. ASSUME NEW c \in Chats, Deny(c)
      PROVE  TriesCounted'
  BY <1>6, DenyCounts
<1>7. CASE Tick
  BY <1>7, TickCounts
<1> QED
  BY <1>2, <1>3, <1>4, <1>5, <1>6, <1>7 DEF Next

\* A chat that is not denied meanwhile has at most 2 * (MaxAttempts - 1) codes compared
\* in any period of one window, wherever windows and locks begin (record_failed_attempt,
\* locked_until, attempt_pair).
THEOREM GuessesAreBounded == Spec => []AttemptsBounded
<1>1. TriesCounted => AttemptsBounded
  BY DEF TriesCounted, AttemptsBounded
<1> QED
  BY <1>1, AlwaysIInv, InitCounts, NextCounts, PTL DEF Spec
=============================================================================
