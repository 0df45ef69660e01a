-------------------------- MODULE DispatcherProofs --------------------------
(***************************************************************************)
(* Proofs about Dispatcher, for every set of chats and owners, every size   *)
(* of the channel and every bound: /deny finds the worker, shutdown leaves   *)
(* none, a chat's messages stay in order, and revoked ones are not handled.  *)
(***************************************************************************)
EXTENDS Dispatcher, FiniteSetTheorems, SequenceTheorems, TLAPS

-----------------------------------------------------------------------------
(* The inductive invariant.                                                 *)

\* The task of a worker exists.
Alive(w) == phase[w] \notin {"unborn", "closed"}

\* A worker that may still take a message.
Listens(w) == phase[w] \notin {"unborn", "ending", "dropped", "closed"}

\* The poll loop has spawned w and has yet to register it.
Spawning == poll.step \in {"register", "respawn"}
IsFresh(w) == Spawning /\ poll.worker = w

\* While the poll loop has a message in hand it knows the chat of it, and the worker
\* in its own map or the fresh one.
PollInStep ==
  /\ poll.chat # None <=>
       poll.step \in {"lookup", "register", "send", "respawn", "resend"}
  /\ poll.chat # None => arrived # 0
  /\ At("lookup") => poll.worker = dispatchers[poll.chat]
  /\ poll.step \in {"send", "resend"} =>
       poll.worker # None /\ poll.worker = dispatchers[poll.chat]
  /\ Spawning => poll.worker # None /\ chatOf[poll.worker] = poll.chat

\* Workers are numbered in the order of their start; there are numbers enough for two
\* workers a message.
WorkersInOrder ==
  /\ \A w \in Workers : /\ phase[w] = "unborn" <=> w > spawned
                        /\ phase[w] = "unborn" <=> chatOf[w] = None
  /\ spawned <= 2 * arrived
  /\ poll.step \in {"register", "send"} => spawned < 2 * arrived
  /\ At("lookup") => spawned + 1 < 2 * arrived

\* The poll loop's map and the registry of /deny agree but for registrations removed.
MapsAgree ==
  \A c \in Chats :
    /\ dispatchers[c] # None => chatOf[dispatchers[c]] = c
    /\ registry[c] \in {None, dispatchers[c]}

\* A chat has one worker at most: every task is in the poll loop's map or about to be
\* entered there in the place of one that has ended.
OneWorkerPerChat ==
  /\ \A w \in Workers : Alive(w) => dispatchers[chatOf[w]] = w \/ IsFresh(w)
  /\ Spawning => dispatchers[poll.chat] = None \/ ~Alive(dispatchers[poll.chat])

\* A worker that may still take a message can be found, or knows that it must not.
ListenersAreFound ==
  \A w \in Workers : Listens(w) => registry[chatOf[w]] = w \/ IsFresh(w) \/ cancelled[w]

\* The messages that a worker has yet to handle.
Held(w) == {queue[w][i] : i \in DOMAIN queue[w]} \cup (IF phase[w] = "got" THEN {inHand[w]} ELSE {})

\* The messages whose handling began.
Done(c) == {handled[c][i] : i \in DOMAIN handled[c]}

\* A message that has arrived and is not the one in the poll loop's hand.
Routed(m) == m <= arrived /\ (poll.chat # None => m # arrived)

\* What is held, handled or revoked was routed, to one worker only.
RoutedOnce ==
  /\ \A w \in Workers : \A m \in Held(w) : Routed(m)
  /\ \A c \in Chats : \A m \in Done(c) : Routed(m)
  /\ \A m \in revoked : Routed(m)
  /\ \A v, w \in Workers : v # w => Held(v) \cap Held(w) = {}
  /\ \A w \in Workers : ~Alive(w) => queue[w] = <<>>
  /\ \A w \in Workers : phase[w] = "got" => inHand[w] # 0

\* The messages handled for a chat, the one its worker has taken and those in the
\* channel are in the order of their arrival.
InOrder ==
  /\ \A w \in Workers : \A i, j \in DOMAIN queue[w] : i < j => queue[w][i] < queue[w][j]
  /\ \A w \in Workers : phase[w] = "got" => \A i \in DOMAIN queue[w] : inHand[w] < queue[w][i]
  /\ \A c \in Chats : \A i, j \in DOMAIN handled[c] : i < j => handled[c][i] < handled[c][j]
  /\ \A w \in Workers : Alive(w) =>
       \A m \in Held(w) : \A n \in Done(chatOf[w]) : n < m

\* A worker that holds a revoked message is cancelled.
RevokedIsCancelled == \A w \in Workers : Held(w) \cap revoked # {} => cancelled[w]

Structure == PollInStep /\ WorkersInOrder /\ MapsAgree /\ OneWorkerPerChat
IInv ==
  /\ TypeOK
  /\ Structure
  /\ ListenersAreFound
  /\ NoWorkerOutlivesTheLoop
  /\ RoutedOnce
  /\ InOrder
  /\ RevokedIsCancelled

-----------------------------------------------------------------------------
(* What steps do.                                                           *)

LEMMA WorkersAreNumbers == Workers \subseteq Nat \ {0} /\ None \notin Workers /\ None \notin Chats
BY DispatcherConstants DEF Workers

WorkerStep(w) ==
  \/ Proceed(w) \/ IdleTimeout(w) \/ Allow(w) \/ DenySaveFails(w)
  \/ \E c \in Chats : Deny(w, c)

\* A step of a worker moves that worker alone, which is alive, and leaves the poll loop
\* alone; a worker on its way out takes its registration with it.
LEMMA WorkerStepIs ==
  ASSUME TypeOK, NEW w \in Workers, WorkerStep(w)
  PROVE  /\ UNCHANGED <<pollVars, notices>>
         /\ Alive(w)
         /\ \E p \in Phases \ {"unborn"} : /\ phase' = [phase EXCEPT ![w] = p]
                                           /\ Listens(w) \/ p \in {"dropped", "closed"}
         /\ \/ registry' = registry
            \/ phase[w] = "ending" /\ phase'[w] = "dropped" /\ registry' = Unregistered(registry, w)
<1> USE DEF Alive, Listens, WorkerGoto, Phases
<1>1. CASE CheckTop(w)
  BY <1>1 DEF CheckTop
<1>2. CASE Recv(w)
  BY <1>2 DEF Recv
<1>3. CASE CheckGot(w)
  BY <1>3 DEF CheckGot
<1>4. CASE Handled(w) \/ DenySaved(w) \/ Drop(w) \/ IdleTimeout(w)
  BY <1>4 DEF Handled, DenySaved, Drop, IdleTimeout
<1>5. CASE DropGuard(w)
  BY <1>5 DEF DropGuard, TypeOK
<1>6. CASE CloseChannel(w)
  BY <1>6 DEF CloseChannel
<1>7. CASE Allow(w) \/ DenySaveFails(w) \/ \E c \in Chats : Deny(w, c)
  BY <1>7 DEF Allow, DenySaveFails, Deny, Command
<1> QED
  BY <1>1, <1>2, <1>3, <1>4, <1>5, <1>6, <1>7 DEF WorkerStep, Proceed

\* The poll loop gives birth to a worker of the chat whose message it has, and nothing
\* else of the workers changes.
LEMMA SpawnIs ==
  ASSUME TypeOK, PollInStep, WorkersInOrder, LookupMissing \/ SendClosed
  PROVE  /\ spawned + 1 \in Workers
         /\ spawned' = spawned + 1
         /\ phase[spawned + 1] = "unborn" /\ chatOf[spawned + 1] = None
         /\ phase' = [phase EXCEPT ![spawned + 1] = "top"]
         /\ chatOf' = [chatOf EXCEPT ![spawned + 1] = poll.chat]
         /\ poll.chat \in Chats
         /\ \/ /\ At("lookup")
               /\ poll' = [step |-> "register", chat |-> poll.chat, worker |-> spawned + 1]
            \/ /\ At("send")
               /\ poll' = [step |-> "respawn", chat |-> poll.chat, worker |-> spawned + 1]
         /\ UNCHANGED <<allowed, arrived, dispatchers, registry, queue, inHand, flagVars, target,
                        notices, ghostVars, used>>
<1>1. At("lookup") \/ At("send")
  BY DEF LookupMissing, SendClosed
<1>2. poll.chat \in Chats
  BY <1>1 DEF PollInStep, TypeOK, At
<1>3. spawned + 1 \in Workers /\ spawned \in Nat /\ arrived \in Nat
  <2>1. spawned + 1 <= 2 * MaxMessages
    BY <1>1, DispatcherConstants DEF WorkersInOrder, TypeOK, At, Workers
  <2> QED
    BY <2>1, DispatcherConstants DEF TypeOK, Workers
<1>4. phase[spawned + 1] = "unborn" /\ chatOf[spawned + 1] = None
  BY <1>3 DEF WorkersInOrder
<1> QED
  BY <1>1, <1>2, <1>3, <1>4 DEF LookupMissing, SendClosed, Spawn, PollGoto, At

-----------------------------------------------------------------------------
(* The type of the state.                                                   *)

LEMMA TypeInit == Init => TypeOK
<1> SUFFICES ASSUME Init
             PROVE  TypeOK
  OBVIOUS
<1>1. \A w \in Workers : queue[w] = <<>> /\ Len(queue[w]) = 0
  BY EmptySeq DEF Init
<1>2. queue \in [Workers -> Seq(Messages)]
  BY EmptySeq DEF Init
<1>3. handled \in [Chats -> Seq(Messages)]
  BY EmptySeq DEF Init
<1>4. used \in [{"commands", "failures"} -> Nat]
  BY DEF Init
<1> QED
  BY <1>1, <1>2, <1>3, <1>4, DispatcherConstants DEF Init, TypeOK, Polling, PollSteps, Phases

\* What a step may do to the channels: one of them gets the message in hand, if it has
\* room, or loses its first.
LEMMA AppendedIs ==
  ASSUME TypeOK, PollInStep, SendOk
  PROVE  LET w == poll.worker
         IN  /\ w \in Workers /\ arrived \in Messages
             /\ queue' = [queue EXCEPT ![w] = Append(@, arrived)]
             /\ queue'[w] \in Seq(Messages)
             /\ Len(queue'[w]) = Len(queue[w]) + 1 /\ Len(queue'[w]) <= QueueSize
             /\ \A i \in 1 .. Len(queue[w]) : queue'[w][i] = queue[w][i]
             /\ queue'[w][Len(queue[w]) + 1] = arrived
<1> DEFINE w == poll.worker
<1>1. poll.step \in {"send", "resend"} /\ Sendable(w)
  BY DEF SendOk
<1>2. w \in Workers /\ queue[w] \in Seq(Messages)
  BY <1>1 DEF PollInStep, TypeOK
<1>3. arrived \in Messages
  <2>1. poll.chat # None /\ arrived # 0
    BY <1>1 DEF PollInStep
  <2> QED
    BY <2>1, DispatcherConstants DEF TypeOK, Messages
<1>4. queue' = [queue EXCEPT ![w] = Append(@, arrived)] /\ queue'[w] = Append(queue[w], arrived)
  BY <1>2 DEF SendOk, TypeOK
<1>5. /\ queue'[w] \in Seq(Messages) /\ Len(queue'[w]) = Len(queue[w]) + 1
      /\ \A i \in 1 .. Len(queue[w]) : queue'[w][i] = queue[w][i]
      /\ queue'[w][Len(queue[w]) + 1] = arrived
  BY <1>2, <1>3, <1>4, AppendProperties
<1>6. Len(queue[w]) < QueueSize /\ Len(queue[w]) \in Nat
  BY <1>1, <1>2, LenProperties DEF Sendable
<1>7. Len(queue'[w]) <= QueueSize
  BY <1>5, <1>6, DispatcherConstants
<1> QED
  BY <1>2, <1>3, <1>4, <1>5, <1>7

LEMMA TakenIs ==
  ASSUME TypeOK, NEW w \in Workers, Recv(w)
  PROVE  /\ queue' = [queue EXCEPT ![w] = Tail(@)]
         /\ queue[w] # <<>> /\ queue[w] \in Seq(Messages) /\ queue'[w] \in Seq(Messages)
         /\ Len(queue[w]) \in Nat /\ Len(queue'[w]) = Len(queue[w]) - 1
         /\ \A i \in 1 .. Len(queue'[w]) : queue'[w][i] = queue[w][i + 1]
         /\ 1 \in DOMAIN queue[w]
         /\ inHand' = [inHand EXCEPT ![w] = queue[w][1]] /\ queue[w][1] \in Messages
<1>1. /\ queue' = [queue EXCEPT ![w] = Tail(@)] /\ queue[w] # <<>> /\ queue[w] \in Seq(Messages)
      /\ inHand' = [inHand EXCEPT ![w] = Head(queue[w])]
  BY DEF Recv, TypeOK
<1>2. queue'[w] = Tail(queue[w])
  BY <1>1 DEF TypeOK
<1>3. Len(queue[w]) \in Nat \ {0} /\ DOMAIN queue[w] = 1 .. Len(queue[w])
  BY <1>1, EmptySeq, LenProperties
<1>4. /\ queue'[w] \in Seq(Messages) /\ Len(queue'[w]) = Len(queue[w]) - 1
      /\ \A i \in 1 .. Len(queue'[w]) : queue'[w][i] = queue[w][i + 1]
      /\ Head(queue[w]) \in Messages
  BY <1>1, <1>2, HeadTailProperties
<1>5. Head(queue[w]) = queue[w][1]
  BY <1>1, <1>3
<1> QED
  BY <1>1, <1>3, <1>4, <1>5

\* A message that is handled comes last in the chat's sequence.
LEMMA HandledIs ==
  ASSUME TypeOK, RoutedOnce, NEW w \in Workers, CheckGot(w), chatOf[w] \in Chats
  PROVE  \/ MayGoOn(w) = FALSE /\ handled' = handled
         \/ LET c == chatOf[w]
            IN  /\ MayGoOn(w)
                /\ inHand[w] \in Messages
                /\ handled' = [handled EXCEPT ![c] = Append(@, inHand[w])]
                /\ handled'[c] \in Seq(Messages)
                /\ Len(handled[c]) \in Nat /\ Len(handled'[c]) = Len(handled[c]) + 1
                /\ DOMAIN handled[c] = 1 .. Len(handled[c])
                /\ DOMAIN handled'[c] = 1 .. Len(handled[c]) + 1
                /\ \A i \in 1 .. Len(handled[c]) : handled'[c][i] = handled[c][i]
                /\ handled'[c][Len(handled[c]) + 1] = inHand[w]
<1> DEFINE c == chatOf[w]
<1>1. CASE ~MayGoOn(w)
  BY <1>1 DEF CheckGot
<1>2. CASE MayGoOn(w)
  <2>1. handled' = [handled EXCEPT ![c] = Append(@, inHand[w])] /\ phase[w] = "got"
    BY <1>2 DEF CheckGot
  <2>2. inHand[w] \in Messages
    BY <2>1 DEF RoutedOnce, TypeOK
  <2>3. handled[c] \in Seq(Messages) /\ handled'[c] = Append(handled[c], inHand[w])
    BY <2>1 DEF TypeOK
  <2>4. /\ handled'[c] \in Seq(Messages)
        /\ Len(handled'[c]) = Len(handled[c]) + 1
        /\ \A i \in 1 .. Len(handled[c]) : handled'[c][i] = handled[c][i]
        /\ handled'[c][Len(handled[c]) + 1] = inHand[w]
    BY <2>2, <2>3, AppendProperties
  <2>5. /\ Len(handled[c]) \in Nat /\ DOMAIN handled[c] = 1 .. Len(handled[c])
        /\ DOMAIN handled'[c] = 1 .. Len(handled'[c])
    BY <2>3, <2>4, LenProperties
  <2> HIDE DEF c
  <2>6. DOMAIN handled'[c] = 1 .. Len(handled[c]) + 1
    BY <2>4, <2>5
  <2> QED
    BY <1>2, <2>1, <2>2, <2>4, <2>5, <2>6 DEF c
<1> QED
  BY <1>1, <1>2

LEMMA TypeStep == TypeOK /\ Structure /\ RoutedOnce /\ [Next]_vars => TypeOK'
<1> SUFFICES ASSUME TypeOK, PollInStep, WorkersInOrder, MapsAgree, RoutedOnce, [Next]_vars
             PROVE  TypeOK'
  BY DEF Structure
<1> USE DEF pollVars, workerVars, flagVars, ghostVars
<1>1. CASE Receive
  BY <1>1, DispatcherConstants DEF Receive, PollGoto, TypeOK, PollSteps
<1>2. CASE LookupMissing \/ SendClosed
  <2>1. spawned' \in {0} \cup Workers
    BY <1>2, SpawnIs
  <2>2. poll' \in [step : PollSteps, chat : Chats \cup {None}, worker : Workers \cup {None}]
    BY <1>2, SpawnIs DEF PollSteps
  <2>3. phase' \in [Workers -> Phases] /\ chatOf' \in [Workers -> Chats \cup {None}]
    BY <1>2, SpawnIs DEF TypeOK, Phases
  <2> QED
    BY <1>2, <2>1, <2>2, <2>3, SpawnIs DEF TypeOK
<1>3. CASE LookupPresent \/ ResendFails
  BY <1>3 DEF LookupPresent, ResendFails, PollGoto, TypeOK, PollSteps
<1>4. CASE Register
  <2>1. poll.worker \in Workers /\ poll.chat \in Chats
    BY <1>4 DEF Register, PollInStep, Spawning, TypeOK
  <2> QED
    BY <1>4, <2>1 DEF Register, Registered, PollGoto, TypeOK, PollSteps
<1>5. CASE SendOk
  BY <1>5, AppendedIs DEF SendOk, PollGoto, TypeOK, PollSteps
<1>6. CASE SendFull
  BY <1>6 DEF SendFull, ReserveNotice, PollGoto, TypeOK, PollSteps
<1>7. CASE Retain
  BY <1>7 DEF Retain, Polling, TypeOK, PollSteps
<1>8. CASE Stop \/ Joined
  <2>1. /\ poll' \in [step : PollSteps, chat : Chats \cup {None}, worker : Workers \cup {None}]
        /\ registry' \in [Chats -> Workers \cup {None}]
        /\ UNCHANGED <<allowed, arrived, dispatchers, spawned, chatOf, phase, queue, inHand, target,
                      notices, handled, revoked, used>>
    BY <1>8 DEF Stop, Joined, Polling, TypeOK, PollSteps
  <2>2. cancelled' \in [Workers -> BOOLEAN] /\ aborted' \in [Workers -> BOOLEAN]
    BY <1>8, Zenon DEF Stop, Joined, TypeOK
  <2> QED
    BY <2>1, <2>2 DEF TypeOK
<1>9. ASSUME NEW c \in Chats, NoticeSent(c)
      PROVE  TypeOK'
  BY <1>9 DEF NoticeSent, TypeOK
<1>10. ASSUME NEW w \in Workers, CheckTop(w) \/ Handled(w) \/ DenySaved(w) \/ Drop(w) \/ IdleTimeout(w)
       PROVE  TypeOK'
  BY <1>10 DEF CheckTop, Handled, DenySaved, Drop, IdleTimeout, WorkerGoto, TypeOK, Phases
<1>11. ASSUME NEW w \in Workers, Recv(w)
       PROVE  TypeOK'
  <2>1. Len(queue'[w]) <= QueueSize
    BY <1>11, TakenIs, DispatcherConstants DEF TypeOK
  <2> QED
    BY <1>11, <2>1, TakenIs DEF Recv, WorkerGoto, TypeOK, Phases
<1>12. ASSUME NEW w \in Workers, CheckGot(w)
       PROVE  TypeOK'
  <2>1. chatOf[w] \in Chats
    BY <1>12 DEF CheckGot, WorkersInOrder, TypeOK
  <2>2. handled' \in [Chats -> Seq(Messages)]
    BY <1>12, <2>1, HandledIs DEF TypeOK
  <2> QED
    BY <1>12, <2>2 DEF CheckGot, WorkerGoto, TypeOK, Phases
<1>13. ASSUME NEW w \in Workers, DropGuard(w)
       PROVE  TypeOK'
  BY <1>13 DEF DropGuard, Unregistered, WorkerGoto, TypeOK, Phases
<1>14. ASSUME NEW w \in Workers, CloseChannel(w)
       PROVE  TypeOK'
  BY <1>14, EmptySeq, DispatcherConstants DEF CloseChannel, WorkerGoto, TypeOK, Phases
<1>15. ASSUME NEW w \in Workers, Allow(w)
       PROVE  TypeOK'
  <2>1. used' \in [{"commands", "failures"} -> Nat]
    BY <1>15 DEF Allow, Command, TypeOK
  <2> QED
    BY <1>15, <2>1 DEF Allow, WorkerGoto, TypeOK, Phases
<1>16. ASSUME NEW w \in Workers, NEW c \in Chats, Deny(w, c)
       PROVE  TypeOK'
  <2>1. used' \in [{"commands", "failures"} -> Nat]
    BY <1>16 DEF Deny, Command, TypeOK
  <2>2. Waiting(c) \subseteq Messages
    <3>1. registry[c] # None => registry[c] \in Workers /\ queue[registry[c]] \in Seq(Messages)
      BY DEF TypeOK
    <3>2. registry[c] # None =>
            \A i \in DOMAIN queue[registry[c]] : queue[registry[c]][i] \in Messages
      BY <3>1, LenProperties, ElementOfSeq
    <3>3. registry[c] # None /\ phase[registry[c]] = "got" => inHand[registry[c]] \in Messages
      BY <3>1 DEF RoutedOnce, TypeOK
    <3> QED
      BY <3>2, <3>3 DEF Waiting
  <2> QED
    BY <1>16, <2>1, <2>2 DEF Deny, WorkerGoto, TypeOK, Phases
<1>17. ASSUME NEW w \in Workers, DenySaveFails(w)
       PROVE  TypeOK'
  <2>1. used' \in [{"commands", "failures"} -> Nat]
    BY <1>17 DEF DenySaveFails, TypeOK
  <2> QED
    BY <1>17, <2>1 DEF DenySaveFails, Reactivated, WorkerGoto, TypeOK, Phases
<1>18. CASE Rest \/ UNCHANGED vars
  BY <1>18 DEF Rest, vars, TypeOK
<1> QED
  BY <1>1, <1>2, <1>3, <1>4, <1>5, <1>6, <1>7, <1>8, <1>9, <1>10, <1>11, <1>12, <1>13, <1>14,
     <1>15, <1>16, <1>17, <1>18 DEF Next, PollLoop, Proceed

-----------------------------------------------------------------------------
(* The poll loop, its map and the registry.                                  *)

\* A chat has one task at most.
LEMMA OneAlive ==
  ASSUME TypeOK, Structure, NEW v \in Workers, NEW w \in Workers,
         Alive(v), Alive(w), chatOf[v] = chatOf[w]
  PROVE  v = w
BY WorkersAreNumbers DEF Structure, OneWorkerPerChat, PollInStep, IsFresh, Spawning

\* A task has a chat.
LEMMA AliveHasChat ==
  ASSUME TypeOK, WorkersInOrder, NEW w \in Workers, Alive(w)
  PROVE  chatOf[w] \in Chats
BY DEF WorkersInOrder, Alive, TypeOK

\* A worker's step changes nothing of this but ends registrations.
LEMMA WorkerKeepsStructure ==
  ASSUME TypeOK, Structure, NEW w \in Workers, WorkerStep(w)
  PROVE  Structure'
<1>1. PICK p \in Phases \ {"unborn"} : phase' = [phase EXCEPT ![w] = p]
  BY WorkerStepIs
<1>2. UNCHANGED <<arrived, poll, dispatchers, spawned, chatOf>> /\ Alive(w)
  BY WorkerStepIs DEF pollVars
<1>3. registry' = registry \/ registry' = Unregistered(registry, w)
  BY WorkerStepIs
<1>4. \A v \in Workers : (phase'[v] = "unborn" <=> phase[v] = "unborn") /\ (Alive(v)' => Alive(v))
  BY <1>1, <1>2 DEF Alive, TypeOK
<1>5. PollInStep'
  BY <1>2 DEF Structure, PollInStep, Spawning, At
<1>6. WorkersInOrder'
  BY <1>2, <1>4 DEF Structure, WorkersInOrder, At
<1>7. MapsAgree'
  BY <1>2, <1>3 DEF Structure, MapsAgree, Unregistered
<1>8. OneWorkerPerChat'
  <2>1. Spawning => dispatchers[poll.chat] = None \/ dispatchers[poll.chat] \in Workers
    BY DEF Structure, PollInStep, Spawning, TypeOK
  <2> QED
    BY <1>2, <1>4, <2>1 DEF Structure, OneWorkerPerChat, IsFresh, Spawning
<1> QED
  BY <1>5, <1>6, <1>7, <1>8 DEF Structure

LEMMA SpawnKeepsStructure ==
  ASSUME TypeOK, Structure, LookupMissing \/ SendClosed
  PROVE  Structure'
<1> DEFINE w == spawned + 1
<1> USE DEF Structure
<1>1. /\ w \in Workers /\ w \in Nat /\ spawned \in Nat /\ w # None
      /\ spawned' = w /\ phase[w] = "unborn" /\ chatOf[w] = None
      /\ phase' = [phase EXCEPT ![w] = "top"] /\ chatOf' = [chatOf EXCEPT ![w] = poll.chat]
      /\ poll.chat \in Chats /\ poll.chat # None
      /\ poll'.chat = poll.chat /\ poll'.worker = w
      /\ UNCHANGED <<arrived, dispatchers, registry>>
  BY SpawnIs, WorkersAreNumbers DEF TypeOK
<1>2. \/ At("lookup") /\ poll'.step = "register"
      \/ At("send") /\ poll'.step = "respawn"
  <2>1. CASE At("lookup")
    BY <2>1, SpawnIs DEF At
  <2>2. CASE At("send")
    BY <2>2, SpawnIs DEF At
  <2> QED
    BY <2>1, <2>2 DEF LookupMissing, SendClosed
<1>3. \A c \in Chats : dispatchers[c] # w /\ registry[c] # w
  BY <1>1, WorkersAreNumbers DEF MapsAgree, TypeOK
<1>4. PollInStep'
  BY <1>1, <1>2 DEF PollInStep, Spawning, At, TypeOK
<1>5. WorkersInOrder'
  <2>1. arrived \in Nat /\ Workers \subseteq Nat
    BY WorkersAreNumbers, DispatcherConstants DEF TypeOK
  <2>2. \A v \in Workers : (phase'[v] = "unborn" <=> v > spawned') /\ (phase'[v] = "unborn" <=> chatOf'[v] = None)
    BY <1>1, <2>1 DEF WorkersInOrder, TypeOK
  <2>3. At("send") => spawned < 2 * arrived
    BY DEF WorkersInOrder, At
  <2>4. At("lookup") => spawned + 1 < 2 * arrived
    BY DEF WorkersInOrder
  <2> QED
    BY <1>1, <1>2, <2>1, <2>2, <2>3, <2>4 DEF WorkersInOrder, At
<1>6. MapsAgree'
  BY <1>1, <1>3 DEF MapsAgree, TypeOK
<1>7. dispatchers[poll.chat] = None \/ phase[dispatchers[poll.chat]] = "closed"
  BY <1>2 DEF LookupMissing, SendClosed, PollInStep, Closed, At
<1>8. OneWorkerPerChat'
  <2>1. ASSUME NEW v \in Workers, Alive(v)'
        PROVE  (dispatchers[chatOf[v]] = v \/ IsFresh(v))'
    <3>1. CASE v = w
      BY <1>1, <1>2, <3>1 DEF IsFresh, Spawning
    <3>2. CASE v # w
      <4>1. Alive(v) /\ chatOf'[v] = chatOf[v]
        BY <1>1, <2>1, <3>2 DEF Alive, TypeOK
      <4>2. ~Spawning
        BY <1>2 DEF Spawning, At
      <4> QED
        BY <1>1, <4>1, <4>2 DEF OneWorkerPerChat, IsFresh
    <3> QED
      BY <3>1, <3>2
  <2>2. (dispatchers[poll.chat] = None \/ ~Alive(dispatchers[poll.chat]))'
    BY <1>1, <1>3, <1>7 DEF Alive, TypeOK
  <2> QED
    BY <2>1, <2>2 DEF OneWorkerPerChat
<1> QED
  BY <1>4, <1>5, <1>6, <1>8

LEMMA StructureStep == TypeOK /\ Structure /\ [Next]_vars => Structure'
<1> SUFFICES ASSUME TypeOK, Structure, [Next]_vars
             PROVE  Structure'
  OBVIOUS
<1> USE DEF Structure, Alive, IsFresh, Spawning, At
<1>1. CASE Receive
  <2>1. PICK c \in allowed : poll' = [step |-> "lookup", chat |-> c, worker |-> dispatchers[c]]
    BY <1>1 DEF Receive, PollGoto
  <2>2. /\ c \in Chats /\ c # None /\ poll.step \in {"polling", "batch"} /\ arrived' = arrived + 1
        /\ UNCHANGED <<dispatchers, registry, spawned, chatOf, phase>>
    BY <1>1, <2>1, WorkersAreNumbers DEF Receive, TypeOK, workerVars
  <2>3. arrived \in Nat /\ spawned \in Nat
    BY WorkersAreNumbers, DispatcherConstants DEF TypeOK
  <2> QED
    BY <2>1, <2>2, <2>3 DEF PollInStep, WorkersInOrder, MapsAgree, OneWorkerPerChat
<1>2. CASE LookupMissing \/ SendClosed
  BY <1>2, SpawnKeepsStructure
<1>3. CASE LookupPresent
  <2>1. arrived \in Nat /\ spawned \in Nat
    BY WorkersAreNumbers, DispatcherConstants DEF TypeOK
  <2> QED
    BY <1>3, <2>1 DEF LookupPresent, PollGoto, workerVars, PollInStep, WorkersInOrder, MapsAgree,
       OneWorkerPerChat
<1>4. CASE Register
  <2>1. /\ poll.worker \in Workers /\ poll.chat \in Chats /\ poll.worker # None /\ poll.chat # None
        /\ registry' = [registry EXCEPT ![poll.chat] = poll.worker]
        /\ dispatchers' = [dispatchers EXCEPT ![poll.chat] = poll.worker]
        /\ poll'.chat = poll.chat /\ poll'.worker = poll.worker
        /\ \/ poll.step = "register" /\ poll'.step = "send"
           \/ poll.step = "respawn" /\ poll'.step = "resend"
        /\ UNCHANGED <<arrived, spawned, chatOf, phase>>
    BY <1>4, WorkersAreNumbers DEF Register, Registered, PollGoto, workerVars, PollInStep, TypeOK
  <2>2. PollInStep'
    BY <2>1 DEF PollInStep, TypeOK
  <2>3. WorkersInOrder'
    BY <2>1 DEF WorkersInOrder
  <2>4. MapsAgree'
    BY <2>1 DEF MapsAgree, PollInStep, TypeOK
  <2>5. OneWorkerPerChat'
    <3>1. ASSUME NEW v \in Workers, Alive(v)'
          PROVE  dispatchers'[chatOf'[v]] = v
      <4>1. Alive(v) /\ chatOf[v] \in Chats
        BY <2>1, <3>1, AliveHasChat
      <4>2. CASE v = poll.worker
        BY <2>1, <4>2 DEF PollInStep, TypeOK
      <4>3. CASE v # poll.worker
        BY <2>1, <4>1, <4>3, WorkersAreNumbers DEF OneWorkerPerChat, TypeOK
      <4> QED
        BY <4>2, <4>3
    <3> QED
      BY <2>1, <3>1 DEF OneWorkerPerChat
  <2> QED
    BY <1>4, <2>1, <2>2, <2>3, <2>4, <2>5
<1>5. CASE SendOk \/ SendFull \/ ResendFails
  BY <1>5 DEF SendOk, SendFull, ResendFails, PollGoto, workerVars, PollInStep, WorkersInOrder,
     MapsAgree, OneWorkerPerChat
<1>6. CASE Retain
  BY <1>6 DEF Retain, Polling, Closed, workerVars, TypeOK, PollInStep, WorkersInOrder, MapsAgree,
     OneWorkerPerChat
<1>7. CASE Stop \/ Joined
  BY <1>7 DEF Stop, Joined, Polling, workerVars, TypeOK, PollInStep, WorkersInOrder, MapsAgree,
     OneWorkerPerChat
<1>8. ASSUME NEW c \in Chats, NoticeSent(c)
      PROVE  Structure'
  BY <1>8 DEF NoticeSent, pollVars, workerVars, PollInStep, WorkersInOrder, MapsAgree,
     OneWorkerPerChat
<1>9. ASSUME NEW w \in Workers, WorkerStep(w)
      PROVE  Structure'
  BY <1>9, WorkerKeepsStructure
<1>10. CASE Rest \/ UNCHANGED vars
  BY <1>10 DEF Rest, vars, PollInStep, WorkersInOrder, MapsAgree, OneWorkerPerChat
<1> QED
  BY <1>1, <1>2, <1>3, <1>4, <1>5, <1>6, <1>7, <1>8, <1>9, <1>10 DEF Next, PollLoop, WorkerStep

-----------------------------------------------------------------------------
(* Whom /deny finds, and whom shutdown leaves.                               *)

LEMMA ListenersStep ==
  TypeOK /\ Structure /\ ListenersAreFound /\ [Next]_vars => ListenersAreFound'
<1> SUFFICES ASSUME TypeOK, PollInStep, WorkersInOrder, MapsAgree, OneWorkerPerChat,
                    ListenersAreFound, [Next]_vars, NEW w \in Workers, Listens(w)'
             PROVE  (registry[chatOf[w]] = w \/ IsFresh(w) \/ cancelled[w])'
  BY DEF Structure, ListenersAreFound
<1> USE DEF IsFresh, Spawning, At
<1>1. CASE LookupMissing \/ SendClosed
  <2>1. ~Spawning /\ UNCHANGED <<registry, cancelled>>
    BY <1>1, SpawnIs DEF LookupMissing, SendClosed, flagVars
  <2>2. CASE w = spawned + 1
    BY <1>1, <2>2, SpawnIs
  <2>3. CASE w # spawned + 1
    <3>1. Listens(w) /\ chatOf'[w] = chatOf[w]
      BY <1>1, <2>3, SpawnIs DEF Listens, TypeOK
    <3> QED
      BY <2>1, <3>1 DEF ListenersAreFound
  <2> QED
    BY <2>2, <2>3
<1>2. CASE Register
  <2>1. /\ poll.worker \in Workers /\ poll.chat \in Chats /\ chatOf[poll.worker] = poll.chat
        /\ registry' = [registry EXCEPT ![poll.chat] = poll.worker]
        /\ UNCHANGED <<phase, chatOf, cancelled>>
    BY <1>2, WorkersAreNumbers DEF Register, Registered, workerVars, flagVars, PollInStep, TypeOK
  <2>2. Listens(w) /\ chatOf[w] \in Chats
    BY <2>1, AliveHasChat DEF Listens, Alive
  <2>3. CASE chatOf[w] = poll.chat
    <3>1. w = poll.worker
      BY <1>2, <2>2, <2>3, WorkersAreNumbers DEF Register, OneWorkerPerChat, Listens, Alive
    <3> QED
      BY <2>1, <2>3, <3>1 DEF TypeOK
  <2>4. CASE chatOf[w] # poll.chat
    BY <2>1, <2>2, <2>4 DEF ListenersAreFound, TypeOK
  <2> QED
    BY <2>3, <2>4
<1>3. CASE Receive \/ LookupPresent \/ SendOk \/ SendFull \/ ResendFails \/ Joined
  BY <1>3 DEF Receive, LookupPresent, SendOk, SendFull, ResendFails, Joined, PollGoto, workerVars,
     flagVars, ListenersAreFound, Listens
<1>4. CASE Retain
  <2>1. Listens(w) /\ chatOf[w] \in Chats /\ UNCHANGED <<phase, chatOf, cancelled>>
    BY <1>4, AliveHasChat DEF Retain, workerVars, flagVars, Listens, Alive
  <2>2. registry[chatOf[w]] = w => registry'[chatOf[w]] = w
    BY <1>4, <2>1 DEF Retain, Closed, Listens
  <2> QED
    BY <1>4, <2>1, <2>2 DEF Retain, ListenersAreFound
<1>5. CASE Stop
  <2>1. Listens(w) /\ chatOf[w] \in Chats /\ UNCHANGED <<phase, chatOf>>
    BY <1>5, AliveHasChat DEF Stop, workerVars, Listens, Alive
  <2>2. cancelled[w] => cancelled'[w]
    BY <1>5 DEF Stop
  <2>3. CASE registry[chatOf[w]] = w
    <3>1. dispatchers[chatOf[w]] = w /\ w # None
      BY <2>1, <2>3, WorkersAreNumbers DEF MapsAgree
    <3>2. cancelled'[w]
      BY <1>5, <2>1, <3>1 DEF Stop
    <3> QED
      BY <3>2
  <2> QED
    BY <1>5, <2>1, <2>2, <2>3 DEF Stop, ListenersAreFound
<1>6. ASSUME NEW v \in Workers, WorkerStep(v)
      PROVE  (registry[chatOf[w]] = w \/ IsFresh(w) \/ cancelled[w])'
  <2>1. PICK p \in Phases \ {"unborn"} : /\ phase' = [phase EXCEPT ![v] = p]
                                         /\ Listens(v) \/ p \in {"dropped", "closed"}
    BY <1>6, WorkerStepIs
  <2>2. Listens(w) /\ chatOf[w] \in Chats /\ UNCHANGED <<chatOf, poll>>
    BY <1>6, <2>1, WorkerStepIs, AliveHasChat DEF pollVars, Listens, Alive, TypeOK
  <2>3. registry[chatOf[w]] = w => registry'[chatOf[w]] = w
    BY <1>6, <2>2, WorkerStepIs DEF Unregistered, Listens
  <2>4. cancelled[w] => cancelled'[w] \/ registry[chatOf[w]] = w
    <3>1. CASE DenySaveFails(v)
      <4>1. \A c \in Chats : registry[c] = w => chatOf[w] = c
        BY WorkersAreNumbers DEF MapsAgree
      <4>2. target[v] \in Chats
        BY <3>1 DEF DenySaveFails, TypeOK
      <4>3. cancelled' = cancelled \/ cancelled' = Reactivated(target[v])
        BY <3>1 DEF DenySaveFails
      <4>4. cancelled' = Reactivated(target[v]) =>
              cancelled'[w] = (cancelled[w] /\ w # registry[target[v]])
        BY Zenon DEF Reactivated
      <4> QED
        BY <4>1, <4>2, <4>3, <4>4
    <3>2. ASSUME NEW c \in Chats, Deny(v, c)
          PROVE  cancelled[w] => cancelled'[w]
      BY <3>2, Zenon DEF Deny
    <3>3. CASE Proceed(v) \/ IdleTimeout(v) \/ Allow(v)
      BY <3>3 DEF Proceed, IdleTimeout, Allow, CheckTop, Recv, CheckGot, Handled, DenySaved, Drop,
         DropGuard, CloseChannel, flagVars
    <3> QED
      BY <1>6, <3>1, <3>2, <3>3 DEF WorkerStep
  <2> QED
    BY <2>2, <2>3, <2>4 DEF ListenersAreFound
<1>7. ASSUME NEW c \in Chats, NoticeSent(c)
      PROVE  (registry[chatOf[w]] = w \/ IsFresh(w) \/ cancelled[w])'
  BY <1>7 DEF NoticeSent, pollVars, workerVars, flagVars, ListenersAreFound, Listens
<1>8. CASE Rest \/ UNCHANGED vars
  BY <1>8 DEF Rest, vars, ListenersAreFound, Listens
<1> QED
  BY <1>1, <1>2, <1>3, <1>4, <1>5, <1>6, <1>7, <1>8 DEF Next, PollLoop, WorkerStep

\* No task starts once the loop has stopped, and those it waited for do not come back.
LEMMA StoppedStep ==
  TypeOK /\ Structure /\ NoWorkerOutlivesTheLoop /\ [Next]_vars => NoWorkerOutlivesTheLoop'
<1> SUFFICES ASSUME TypeOK, Structure, NoWorkerOutlivesTheLoop, [Next]_vars
             PROVE  NoWorkerOutlivesTheLoop'
  OBVIOUS
<1> USE DEF At, NoWorkerOutlivesTheLoop
<1>1. CASE Joined
  <2>1. ASSUME NEW w \in Workers, Alive(w)
        PROVE  FALSE
    <3>1. dispatchers[chatOf[w]] = w /\ chatOf[w] \in Chats
      BY <1>1, <2>1, AliveHasChat DEF Joined, Structure, OneWorkerPerChat, IsFresh, Spawning
    <3>2. w # None
      BY WorkersAreNumbers
    <3> QED
      BY <1>1, <2>1, <3>1, <3>2 DEF Joined, Closed, Alive
  <2> QED
    BY <1>1, <2>1 DEF Joined, Alive, workerVars, TypeOK
<1>2. CASE Receive \/ LookupPresent \/ Register \/ SendOk \/ SendFull \/ ResendFails
  BY <1>2 DEF Receive, LookupPresent, Register, SendOk, SendFull, ResendFails, PollGoto
<1>3. CASE LookupMissing \/ SendClosed
  <2>1. poll'.step \in {"register", "respawn"}
    BY <1>3, SpawnIs DEF Structure
  <2> QED
    BY <2>1
<1>4. CASE Retain \/ Stop
  <2>1. poll'.step \in {"polling", "stopping"}
    BY <1>4 DEF Retain, Stop, Polling
  <2> QED
    BY <2>1
<1>5. ASSUME NEW w \in Workers, WorkerStep(w)
      PROVE  NoWorkerOutlivesTheLoop'
  BY <1>5, WorkerStepIs DEF Alive, pollVars
<1>6. ASSUME NEW c \in Chats, NoticeSent(c)
      PROVE  NoWorkerOutlivesTheLoop'
  BY <1>6 DEF NoticeSent, pollVars, workerVars
<1>7. CASE Rest \/ UNCHANGED vars
  BY <1>7 DEF Rest, vars
<1> QED
  BY <1>1, <1>2, <1>3, <1>4, <1>5, <1>6, <1>7 DEF Next, PollLoop, WorkerStep

-----------------------------------------------------------------------------
(* The messages.                                                            *)

\* The steps that move no message: channels stay as they are, and no worker takes one.
Quiet ==
  /\ UNCHANGED <<queue, handled>>
  /\ \A w \in Workers : /\ phase'[w] = "got" => phase[w] = "got" /\ inHand'[w] = inHand[w]
                        /\ Alive(w) => Alive(w)' /\ chatOf'[w] = chatOf[w]
                        /\ phase[w] # "unborn" => phase'[w] # "unborn"

LEMMA MovesOrQuiet ==
  ASSUME TypeOK, PollInStep, WorkersInOrder, [Next]_vars
  PROVE  \/ Quiet
         \/ SendOk
         \/ \E w \in Workers : Recv(w) \/ CheckGot(w) \/ CloseChannel(w)
<1> USE DEF Quiet, Alive, pollVars, workerVars, ghostVars, WorkerGoto
<1>1. CASE LookupMissing \/ SendClosed
  <2>1. /\ phase' = [phase EXCEPT ![spawned + 1] = "top"] /\ phase[spawned + 1] = "unborn"
        /\ chatOf' = [chatOf EXCEPT ![spawned + 1] = poll.chat]
        /\ UNCHANGED <<queue, handled, inHand>>
    BY <1>1, SpawnIs
  <2> QED
    BY <2>1 DEF TypeOK
<1>2. CASE Receive \/ LookupPresent \/ Register \/ SendFull \/ ResendFails \/ Retain \/ Stop \/ Joined
  BY <1>2 DEF Receive, LookupPresent, Register, SendFull, ResendFails, Retain, Stop, Joined
<1>3. ASSUME NEW c \in Chats, NoticeSent(c)
      PROVE  Quiet
  BY <1>3 DEF NoticeSent
<1>4. ASSUME NEW w \in Workers,
             \/ CheckTop(w) \/ Handled(w) \/ DenySaved(w) \/ Drop(w) \/ DropGuard(w)
             \/ IdleTimeout(w)
      PROVE  Quiet
  BY <1>4 DEF CheckTop, Handled, DenySaved, Drop, DropGuard, IdleTimeout, TypeOK
<1>5. ASSUME NEW w \in Workers, Allow(w) \/ DenySaveFails(w) \/ \E c \in Chats : Deny(w, c)
      PROVE  Quiet
  BY <1>5 DEF Allow, DenySaveFails, Deny, Command, TypeOK
<1>6. CASE Rest \/ UNCHANGED vars
  BY <1>6 DEF Rest, vars
<1> QED
  BY <1>1, <1>2, <1>3, <1>4, <1>5, <1>6 DEF Next, PollLoop, Proceed

\* What is held are messages.
LEMMA HeldAreMessages ==
  ASSUME TypeOK, RoutedOnce, NEW w \in Workers
  PROVE  /\ Held(w) \subseteq Messages
         /\ queue[w] \in Seq(Messages) /\ Len(queue[w]) \in Nat
         /\ DOMAIN queue[w] = 1 .. Len(queue[w])
<1>1. queue[w] \in Seq(Messages) /\ (phase[w] = "got" => inHand[w] \in Messages)
  BY DEF TypeOK, RoutedOnce
<1>2. Len(queue[w]) \in Nat /\ DOMAIN queue[w] = 1 .. Len(queue[w])
  BY <1>1, LenProperties
<1>3. \A i \in DOMAIN queue[w] : queue[w][i] \in Messages
  BY <1>1, <1>2, ElementOfSeq
<1> QED
  BY <1>1, <1>2, <1>3 DEF Held

\* What a step makes of the messages held.
LEMMA HeldIs ==
  ASSUME TypeOK, PollInStep, WorkersInOrder, RoutedOnce, [Next]_vars, NEW v \in Workers
  PROVE  \/ Held(v)' \subseteq Held(v)
         \/ SendOk /\ v = poll.worker /\ Held(v)' \subseteq Held(v) \cup {arrived}
<1>1. CASE Quiet
  BY <1>1 DEF Quiet, Held
<1>2. CASE SendOk
  <2>1. phase' = phase /\ inHand' = inHand
    BY <1>2 DEF SendOk, workerVars
  <2>2. CASE v = poll.worker
    <3>1. queue'[v] \in Seq(Messages) /\ Len(queue'[v]) = Len(queue[v]) + 1
      BY <1>2, <2>2, AppendedIs
    <3>2. DOMAIN queue'[v] = 1 .. Len(queue'[v])
      BY <3>1, LenProperties
    <3>3. DOMAIN queue[v] = 1 .. Len(queue[v]) /\ Len(queue[v]) \in Nat
      BY HeldAreMessages
    <3>4. \A i \in DOMAIN queue'[v] : i \in DOMAIN queue[v] \/ i = Len(queue[v]) + 1
      BY <3>1, <3>2, <3>3
    <3>5. \A i \in DOMAIN queue[v] : queue'[v][i] = queue[v][i]
      BY <1>2, <2>2, <3>3, AppendedIs
    <3>6. queue'[v][Len(queue[v]) + 1] = arrived
      BY <1>2, <2>2, AppendedIs
    <3>7. \A i \in DOMAIN queue'[v] : queue'[v][i] \in Held(v) \cup {arrived}
      BY <3>4, <3>5, <3>6 DEF Held
    <3> QED
      BY <1>2, <2>1, <2>2, <3>7 DEF Held
  <2>3. CASE v # poll.worker
    BY <1>2, <2>1, <2>3, AppendedIs DEF Held, TypeOK
  <2> QED
    BY <2>2, <2>3
<1>3. ASSUME NEW w \in Workers, Recv(w)
      PROVE  Held(v)' \subseteq Held(v)
  <2>1. CASE v = w
    <3>1. DOMAIN queue'[v] = 1 .. Len(queue'[v]) /\ DOMAIN queue[v] = 1 .. Len(queue[v])
      BY <1>3, <2>1, TakenIs, LenProperties
    <3>2. \A i \in DOMAIN queue'[v] : i + 1 \in DOMAIN queue[v] /\ queue'[v][i] = queue[v][i + 1]
      BY <1>3, <2>1, <3>1, TakenIs
    <3>3. inHand'[v] = queue[v][1] /\ 1 \in DOMAIN queue[v]
      BY <1>3, <2>1, TakenIs DEF TypeOK
    <3> QED
      BY <3>2, <3>3 DEF Held
  <2>2. CASE v # w
    BY <1>3, <2>2 DEF Recv, WorkerGoto, Held, TypeOK
  <2> QED
    BY <2>1, <2>2
<1>4. ASSUME NEW w \in Workers, CheckGot(w)
      PROVE  Held(v)' \subseteq Held(v)
  <2>1. CASE v = w
    BY <1>4, <2>1 DEF CheckGot, WorkerGoto, Held, TypeOK
  <2>2. CASE v # w
    BY <1>4, <2>2 DEF CheckGot, WorkerGoto, Held, TypeOK
  <2> QED
    BY <2>1, <2>2
<1>5. ASSUME NEW w \in Workers, CloseChannel(w)
      PROVE  Held(v)' \subseteq Held(v)
  <2>1. CASE v = w
    <3>1. queue'[v] = <<>> /\ phase'[v] = "closed"
      BY <1>5, <2>1 DEF CloseChannel, WorkerGoto, TypeOK
    <3> QED
      BY <3>1 DEF Held
  <2>2. CASE v # w
    BY <1>5, <2>2 DEF CloseChannel, WorkerGoto, Held, TypeOK
  <2> QED
    BY <2>1, <2>2
<1> QED
  BY <1>1, <1>2, <1>3, <1>4, <1>5, MovesOrQuiet

\* Routed messages stay routed, and the one that is sent now is one of them from then on.
LEMMA RoutedIs ==
  ASSUME TypeOK, PollInStep, WorkersInOrder, [Next]_vars
  PROVE  /\ \A m \in Messages : Routed(m) => Routed(m)'
         /\ \A m \in Messages : SendOk /\ m = arrived => Routed(m)' /\ ~Routed(m)
         /\ SendOk => (\A m \in Messages : Routed(m) => m < arrived)
<1>1. arrived \in Nat /\ Messages \subseteq Nat
  BY DispatcherConstants DEF TypeOK, Messages
<1>2. ASSUME poll'.chat = poll.chat \/ poll'.chat = None, arrived' = arrived
      PROVE  \A m \in Messages : Routed(m) => Routed(m)'
  BY <1>2 DEF Routed
<1>3. CASE Receive
  <2>1. arrived' = arrived + 1
    BY <1>3 DEF Receive
  <2> QED
    BY <1>1, <1>3, <2>1 DEF Routed, Receive, SendOk, TypeOK
<1>4. CASE LookupMissing \/ SendClosed
  <2>1. poll'.chat = poll.chat /\ arrived' = arrived
    BY <1>4, SpawnIs
  <2> QED
    BY <1>2, <1>4, <2>1 DEF LookupMissing, SendClosed, SendOk, Sendable, At
<1>5. CASE SendOk
  <2>1. arrived' = arrived /\ poll'.chat = None /\ poll.chat # None
    BY <1>5 DEF SendOk, PollGoto, PollInStep
  <2>2. ASSUME NEW m \in Messages, Routed(m)
        PROVE  m < arrived
    <3>1. m \in Nat /\ m <= arrived /\ m # arrived
      BY <1>1, <2>1, <2>2 DEF Routed
    <3> QED
      BY <1>1, <3>1
  <2>3. \A m \in Messages : m = arrived => Routed(m)' /\ ~Routed(m)
    BY <1>1, <2>1 DEF Routed
  <2> QED
    BY <1>2, <2>1, <2>2, <2>3
<1>6. CASE LookupPresent \/ Register \/ SendFull \/ ResendFails
  <2>1. arrived' = arrived /\ (poll'.chat = poll.chat \/ poll'.chat = None)
    BY <1>6 DEF LookupPresent, Register, SendFull, ResendFails, PollGoto
  <2> QED
    BY <1>2, <1>5, <2>1
<1>7. CASE Retain \/ Stop \/ Joined
  <2>1. arrived' = arrived /\ poll'.chat = None
    BY <1>7 DEF Retain, Stop, Joined, Polling
  <2> QED
    BY <1>2, <1>5, <2>1
<1>8. ASSUME NEW w \in Workers, WorkerStep(w)
      PROVE  \A m \in Messages : Routed(m) => Routed(m)'
  BY <1>2, <1>8, WorkerStepIs DEF pollVars
<1>9. ASSUME NEW c \in Chats, NoticeSent(c)
      PROVE  \A m \in Messages : Routed(m) => Routed(m)'
  BY <1>2, <1>9 DEF NoticeSent, pollVars
<1>10. CASE Rest \/ UNCHANGED vars
  BY <1>2, <1>5, <1>10 DEF Rest, vars
<1> QED
  BY <1>3, <1>4, <1>5, <1>6, <1>7, <1>8, <1>9, <1>10 DEF Next, PollLoop, WorkerStep

\* Only a worker that listens, and the one the poll loop sends to, is touched.
LEMMA SendsToAlive ==
  ASSUME TypeOK, PollInStep, WorkersInOrder, MapsAgree, SendOk
  PROVE  Alive(poll.worker) /\ chatOf[poll.worker] = poll.chat
<1>1. /\ poll.step \in {"send", "resend"} /\ phase[poll.worker] # "closed"
      /\ poll.worker \in Workers /\ poll.worker = dispatchers[poll.chat] /\ poll.chat \in Chats
  BY AppendedIs DEF SendOk, Sendable, Closed, PollInStep, TypeOK
<1>2. chatOf[poll.worker] = poll.chat
  BY <1>1, WorkersAreNumbers DEF MapsAgree
<1>3. phase[poll.worker] # "unborn"
  BY <1>1, <1>2, WorkersAreNumbers DEF WorkersInOrder
<1> QED
  BY <1>1, <1>2, <1>3 DEF Alive

\* What is revoked was held.
LEMMA RevokedIs ==
  ASSUME TypeOK, MapsAgree, [Next]_vars
  PROVE  \A m \in revoked' : m \in revoked \/ \E w \in Workers : m \in Held(w)
<1>1. ASSUME NEW w \in Workers, NEW c \in Chats, Deny(w, c)
      PROVE  \A m \in revoked' : m \in revoked \/ \E v \in Workers : m \in Held(v)
  <2>1. revoked' = revoked \cup Waiting(c)
    BY <1>1 DEF Deny
  <2>2. registry[c] # None => registry[c] \in Workers /\ Waiting(c) = Held(registry[c])
    BY DEF Waiting, Held, TypeOK
  <2>3. registry[c] = None => Waiting(c) = {}
    BY DEF Waiting
  <2> QED
    BY <2>1, <2>2, <2>3
<1>2. ASSUME NEW w \in Workers, DenySaveFails(w)
      PROVE  revoked' \subseteq revoked
  BY <1>2 DEF DenySaveFails
<1>3. ASSUME NEW w \in Workers, Proceed(w) \/ IdleTimeout(w) \/ Allow(w)
      PROVE  revoked' = revoked
  BY <1>3 DEF Proceed, IdleTimeout, Allow, CheckTop, Recv, CheckGot, Handled, DenySaved, Drop,
     DropGuard, CloseChannel, ghostVars
<1>4. CASE Receive \/ PollLoop \/ Stop \/ Rest \/ UNCHANGED vars
  BY <1>4 DEF Receive, PollLoop, Stop, Rest, LookupMissing, LookupPresent, Register, SendOk, SendFull,
     SendClosed, ResendFails, Retain, Joined, Spawn, ghostVars, vars
<1>5. ASSUME NEW c \in Chats, NoticeSent(c)
      PROVE  revoked' = revoked
  BY <1>5 DEF NoticeSent, ghostVars
<1> QED
  BY <1>1, <1>2, <1>3, <1>4, <1>5 DEF Next

\* What is handled was handled before or is what its worker had taken.
LEMMA DoneIs ==
  ASSUME TypeOK, PollInStep, WorkersInOrder, RoutedOnce, [Next]_vars, NEW c \in Chats
  PROVE  /\ Done(c) \subseteq Messages
         /\ \A m \in Done(c)' :
              \/ m \in Done(c)
              \/ \E w \in Workers : CheckGot(w) /\ chatOf[w] = c /\ m = inHand[w] /\ m \in Held(w)
<1>1. handled[c] \in Seq(Messages)
  BY DEF TypeOK
<1>2. Done(c) \subseteq Messages
  BY <1>1, LenProperties, ElementOfSeq DEF Done
<1>3. CASE handled' = handled
  BY <1>2, <1>3 DEF Done
<1>4. ASSUME NEW w \in Workers, CheckGot(w), handled' # handled
      PROVE  \A m \in Done(c)' :
               m \in Done(c) \/ (chatOf[w] = c /\ m = inHand[w] /\ m \in Held(w))
  <2>1. chatOf[w] \in Chats /\ phase[w] = "got"
    BY <1>4 DEF CheckGot, WorkersInOrder, TypeOK
  <2>2. inHand[w] \in Held(w)
    BY <2>1 DEF Held
  <2>3. CASE c = chatOf[w]
    <3>1. /\ DOMAIN handled[c] = 1 .. Len(handled[c]) /\ Len(handled[c]) \in Nat
          /\ DOMAIN handled'[c] = 1 .. Len(handled[c]) + 1
          /\ \A i \in 1 .. Len(handled[c]) : handled'[c][i] = handled[c][i]
          /\ handled'[c][Len(handled[c]) + 1] = inHand[w]
      BY <1>4, <2>1, <2>3, HandledIs
    <3>2. \A i \in DOMAIN handled'[c] : i \in DOMAIN handled[c] \/ i = Len(handled[c]) + 1
      BY <3>1
    <3>3. \A i \in DOMAIN handled'[c] : handled'[c][i] \in Done(c) \cup {inHand[w]}
      BY <3>1, <3>2 DEF Done
    <3>4. Done(c)' = {handled'[c][i] : i \in DOMAIN handled'[c]}
      BY DEF Done
    <3> QED
      BY <2>2, <2>3, <3>3, <3>4
  <2>4. CASE c # chatOf[w]
    <3>1. handled'[c] = handled[c]
      BY <1>4, <2>1, <2>4, HandledIs DEF TypeOK
    <3>2. Done(c)' = Done(c)
      BY <3>1 DEF Done
    <3> QED
      BY <3>2
  <2> QED
    BY <2>3, <2>4
<1>5. CASE SendOk \/ \E w \in Workers : Recv(w) \/ CloseChannel(w)
  BY <1>3, <1>5 DEF SendOk, Recv, CloseChannel, ghostVars
<1>6. CASE Quiet
  BY <1>3, <1>6 DEF Quiet
<1> QED
  BY <1>2, <1>3, <1>4, <1>5, <1>6, MovesOrQuiet

LEMMA RoutedOnceStep ==
  TypeOK /\ Structure /\ RoutedOnce /\ [Next]_vars => RoutedOnce'
<1> SUFFICES ASSUME TypeOK, PollInStep, WorkersInOrder, MapsAgree, RoutedOnce, [Next]_vars
             PROVE  RoutedOnce'
  BY DEF Structure
<1>1. \A w \in Workers : Held(w) \subseteq Messages
  BY HeldAreMessages
<1>2. ASSUME NEW w \in Workers, NEW m \in Held(w)'
      PROVE  Routed(m)'
  <2>1. CASE m \in Held(w)
    BY <1>1, <2>1, RoutedIs DEF RoutedOnce
  <2>2. CASE m \notin Held(w)
    <3>1. SendOk /\ m = arrived
      BY <1>2, <2>2, HeldIs
    <3>2. arrived \in Messages
      BY <3>1, AppendedIs
    <3> QED
      BY <3>1, <3>2, RoutedIs
  <2> QED
    BY <2>1, <2>2
<1>3. ASSUME NEW c \in Chats, NEW m \in Done(c)'
      PROVE  Routed(m)'
  <2>1. m \in Messages /\ Routed(m)
    BY <1>1, <1>3, DoneIs DEF RoutedOnce
  <2> QED
    BY <2>1, RoutedIs
<1>4. ASSUME NEW m \in revoked'
      PROVE  Routed(m)'
  <2>1. m \in Messages /\ Routed(m)
    BY <1>1, <1>4, RevokedIs DEF RoutedOnce, TypeOK
  <2> QED
    BY <2>1, RoutedIs
<1>5. ASSUME NEW v \in Workers, NEW w \in Workers, v # w
      PROVE  Held(v)' \cap Held(w)' = {}
  <2>1. Held(v) \cap Held(w) = {}
    BY <1>5 DEF RoutedOnce
  <2>2. SendOk => arrived \notin Held(v) /\ arrived \notin Held(w)
    BY AppendedIs, RoutedIs DEF RoutedOnce
  <2> QED
    BY <1>5, <2>1, <2>2, HeldIs
<1>6. ASSUME NEW w \in Workers, ~Alive(w)'
      PROVE  queue'[w] = <<>>
  <2>1. CASE Quiet
    BY <1>6, <2>1 DEF Quiet, RoutedOnce
  <2>2. CASE SendOk
    <3>1. ~Alive(w) /\ w # poll.worker
      BY <1>6, <2>2, SendsToAlive DEF SendOk, workerVars, Alive
    <3> QED
      BY <2>2, <3>1, AppendedIs DEF RoutedOnce, TypeOK
  <2>3. ASSUME NEW v \in Workers, Recv(v)
        PROVE  queue'[w] = <<>>
    <3>1. ~Alive(w) /\ w # v
      BY <1>6, <2>3 DEF Recv, WorkerGoto, Alive, TypeOK
    <3> QED
      BY <2>3, <3>1 DEF Recv, RoutedOnce, TypeOK
  <2>4. ASSUME NEW v \in Workers, CheckGot(v)
        PROVE  queue'[w] = <<>>
    <3>1. ~Alive(w)
      BY <1>6, <2>4 DEF CheckGot, WorkerGoto, Alive, TypeOK
    <3> QED
      BY <2>4, <3>1 DEF CheckGot, RoutedOnce
  <2>5. ASSUME NEW v \in Workers, CloseChannel(v)
        PROVE  queue'[w] = <<>>
    BY <1>6, <2>5 DEF CloseChannel, WorkerGoto, Alive, RoutedOnce, TypeOK
  <2> QED
    BY <2>1, <2>2, <2>3, <2>4, <2>5, MovesOrQuiet
<1>7. ASSUME NEW w \in Workers, phase'[w] = "got"
      PROVE  inHand'[w] # 0
  <2>1. CASE Quiet
    BY <1>7, <2>1 DEF Quiet, RoutedOnce
  <2>2. CASE SendOk
    BY <1>7, <2>2 DEF SendOk, workerVars, RoutedOnce
  <2>3. ASSUME NEW v \in Workers, Recv(v)
        PROVE  inHand'[w] # 0
    <3>1. CASE v = w
      BY <2>3, <3>1, TakenIs DEF Messages, TypeOK
    <3>2. CASE v # w
      BY <1>7, <2>3, <3>2 DEF Recv, WorkerGoto, RoutedOnce, TypeOK
    <3> QED
      BY <3>1, <3>2
  <2>4. ASSUME NEW v \in Workers, CheckGot(v)
        PROVE  inHand'[w] # 0
    BY <1>7, <2>4 DEF CheckGot, WorkerGoto, RoutedOnce, TypeOK
  <2>5. ASSUME NEW v \in Workers, CloseChannel(v)
        PROVE  inHand'[w] # 0
    BY <1>7, <2>5 DEF CloseChannel, WorkerGoto, RoutedOnce, TypeOK
  <2> QED
    BY <2>1, <2>2, <2>3, <2>4, <2>5, MovesOrQuiet
<1> QED
  BY <1>2, <1>3, <1>4, <1>5, <1>6, <1>7 DEF RoutedOnce

\* Which step touches a channel, a worker's hand, the messages handled, and a worker's chat.
LEMMA QueueIs ==
  ASSUME TypeOK, PollInStep, WorkersInOrder, [Next]_vars, NEW w \in Workers
  PROVE  queue'[w] = queue[w] \/ (SendOk /\ w = poll.worker) \/ Recv(w) \/ CloseChannel(w)
<1>1. CASE SendOk
  BY <1>1, AppendedIs DEF TypeOK
<1>2. ASSUME NEW v \in Workers, Recv(v)
      PROVE  queue'[w] = queue[w] \/ v = w
  BY <1>2 DEF Recv, TypeOK
<1>3. ASSUME NEW v \in Workers, CloseChannel(v)
      PROVE  queue'[w] = queue[w] \/ v = w
  BY <1>3 DEF CloseChannel, TypeOK
<1>4. ASSUME NEW v \in Workers, CheckGot(v)
      PROVE  queue'[w] = queue[w]
  BY <1>4 DEF CheckGot
<1> QED
  BY <1>1, <1>2, <1>3, <1>4, MovesOrQuiet DEF Quiet

LEMMA TakenOnlyByRecv ==
  ASSUME TypeOK, PollInStep, WorkersInOrder, [Next]_vars, NEW w \in Workers,
         phase'[w] = "got", ~Recv(w)
  PROVE  phase[w] = "got" /\ inHand'[w] = inHand[w]
<1>1. CASE Quiet
  BY <1>1 DEF Quiet
<1>2. CASE SendOk
  BY <1>2 DEF SendOk, workerVars
<1>3. ASSUME NEW v \in Workers, Recv(v) \/ CheckGot(v) \/ CloseChannel(v)
      PROVE  phase[w] = "got" /\ inHand'[w] = inHand[w]
  BY <1>3 DEF Recv, CheckGot, CloseChannel, WorkerGoto, TypeOK
<1> QED
  BY <1>1, <1>2, <1>3, MovesOrQuiet

LEMMA HandledChanges ==
  ASSUME TypeOK, PollInStep, WorkersInOrder, RoutedOnce, [Next]_vars, NEW c \in Chats
  PROVE  handled'[c] = handled[c] \/ \E w \in Workers : CheckGot(w) /\ chatOf[w] = c
<1>1. ASSUME NEW w \in Workers, CheckGot(w)
      PROVE  handled'[c] = handled[c] \/ chatOf[w] = c
  BY <1>1, HandledIs DEF CheckGot, WorkersInOrder, TypeOK
<1>2. CASE SendOk \/ \E w \in Workers : Recv(w) \/ CloseChannel(w)
  BY <1>2 DEF SendOk, Recv, CloseChannel, ghostVars
<1> QED
  BY <1>1, <1>2, MovesOrQuiet DEF Quiet

LEMMA ChatStays ==
  ASSUME TypeOK, PollInStep, WorkersInOrder, [Next]_vars, NEW w \in Workers, Alive(w)
  PROVE  chatOf'[w] = chatOf[w]
<1>1. CASE SendOk \/ \E v \in Workers : Recv(v) \/ CheckGot(v) \/ CloseChannel(v)
  BY <1>1 DEF SendOk, Recv, CheckGot, CloseChannel, pollVars
<1> QED
  BY <1>1, MovesOrQuiet DEF Quiet

\* Messages stay in the order of their arrival.
LEMMA InOrderStep ==
  TypeOK /\ Structure /\ RoutedOnce /\ InOrder /\ [Next]_vars => InOrder'
<1> SUFFICES ASSUME TypeOK, Structure, RoutedOnce, InOrder, [Next]_vars
             PROVE  InOrder'
  OBVIOUS
<1> USE DEF Structure
<1>1. Messages \subseteq Nat /\ Messages \subseteq Int
  BY DispatcherConstants DEF Messages
<1>2. ASSUME NEW w \in Workers, NEW i \in DOMAIN queue'[w], NEW j \in DOMAIN queue'[w], i < j
      PROVE  queue'[w][i] < queue'[w][j]
  <2> DEFINE n == Len(queue[w])
  <2>1. /\ queue[w] \in Seq(Messages) /\ n \in Nat /\ DOMAIN queue[w] = 1 .. n
        /\ \A k \in 1 .. n : queue[w][k] \in Held(w)
    BY HeldAreMessages DEF Held
  <2>2. CASE queue'[w] = queue[w]
    BY <1>2, <2>2 DEF InOrder
  <2>3. CASE SendOk /\ w = poll.worker
    <3>1. /\ queue'[w] \in Seq(Messages) /\ Len(queue'[w]) = n + 1
          /\ \A k \in 1 .. n : queue'[w][k] = queue[w][k]
          /\ queue'[w][n + 1] = arrived
      BY <2>3, AppendedIs
    <3>2. DOMAIN queue'[w] = 1 .. n + 1
      BY <3>1, LenProperties
    <3> HIDE DEF n
    <3>3. i \in 1 .. n
      BY <1>2, <2>1, <3>2
    <3>4. CASE j \in 1 .. n
      BY <1>2, <2>1, <3>1, <3>3, <3>4 DEF InOrder
    <3>5. CASE j = n + 1
      BY <2>1, <2>3, <3>1, <3>3, <3>5, HeldAreMessages, RoutedIs DEF RoutedOnce
    <3> QED
      BY <1>2, <2>1, <3>2, <3>4, <3>5
  <2>4. CASE Recv(w)
    <3>1. /\ queue'[w] \in Seq(Messages) /\ Len(queue'[w]) = n - 1
          /\ \A k \in 1 .. n - 1 : queue'[w][k] = queue[w][k + 1]
      BY <2>4, TakenIs
    <3>2. DOMAIN queue'[w] = 1 .. n - 1
      BY <3>1, LenProperties
    <3> HIDE DEF n
    <3>3. i + 1 \in 1 .. n /\ j + 1 \in 1 .. n /\ i + 1 < j + 1
      BY <1>2, <2>1, <3>2
    <3>4. queue'[w][i] = queue[w][i + 1] /\ queue'[w][j] = queue[w][j + 1]
      BY <3>1, <3>2
    <3>5. queue[w][i + 1] < queue[w][j + 1]
      BY <2>1, <3>3 DEF InOrder
    <3> QED
      BY <3>4, <3>5
  <2>5. CASE CloseChannel(w)
    BY <1>2, <2>5 DEF CloseChannel, TypeOK
  <2>6. \/ queue'[w] = queue[w]
        \/ SendOk /\ w = poll.worker
        \/ Recv(w) \/ CloseChannel(w)
    BY QueueIs
  <2> QED
    BY <2>2, <2>3, <2>4, <2>5, <2>6
<1>3. ASSUME NEW w \in Workers, phase'[w] = "got", NEW i \in DOMAIN queue'[w]
      PROVE  inHand'[w] < queue'[w][i]
  <2> DEFINE n == Len(queue[w])
  <2>1. /\ queue[w] \in Seq(Messages) /\ n \in Nat /\ DOMAIN queue[w] = 1 .. n
    BY HeldAreMessages
  <2>2. CASE Recv(w)
    <3>1. /\ queue'[w] \in Seq(Messages) /\ Len(queue'[w]) = n - 1
          /\ \A k \in 1 .. n - 1 : queue'[w][k] = queue[w][k + 1]
          /\ inHand'[w] = queue[w][1] /\ 1 \in 1 .. n
      BY <2>1, <2>2, TakenIs DEF TypeOK
    <3>2. DOMAIN queue'[w] = 1 .. n - 1
      BY <3>1, LenProperties
    <3> HIDE DEF n
    <3>3. i + 1 \in 1 .. n /\ 1 < i + 1 /\ queue'[w][i] = queue[w][i + 1]
      BY <1>3, <2>1, <3>1, <3>2
    <3> QED
      BY <2>1, <3>1, <3>3 DEF InOrder
  <2>3. CASE ~Recv(w)
    <3>1. phase[w] = "got" /\ inHand'[w] = inHand[w]
      BY <1>3, <2>3, TakenOnlyByRecv
    <3>2. inHand[w] \in Held(w) /\ inHand[w] \in Messages
      BY <3>1, HeldAreMessages DEF Held
    <3>3. CASE queue'[w] = queue[w]
      BY <1>3, <3>1, <3>3 DEF InOrder
    <3>4. CASE SendOk /\ w = poll.worker
      <4>1. /\ queue'[w] \in Seq(Messages) /\ Len(queue'[w]) = n + 1
            /\ \A k \in 1 .. n : queue'[w][k] = queue[w][k]
            /\ queue'[w][n + 1] = arrived
        BY <3>4, AppendedIs
      <4>2. DOMAIN queue'[w] = 1 .. n + 1
        BY <4>1, LenProperties
      <4> HIDE DEF n
      <4>3. CASE i \in 1 .. n
        BY <2>1, <3>1, <4>1, <4>3 DEF InOrder
      <4>4. CASE i = n + 1
        <5>1. inHand[w] < arrived
          BY <3>2, <3>4, RoutedIs DEF RoutedOnce
        <5> QED
          BY <3>1, <4>1, <4>4, <5>1
      <4> QED
        BY <1>3, <2>1, <4>2, <4>3, <4>4
    <3>5. CASE CloseChannel(w)
      BY <1>3, <3>5 DEF CloseChannel, WorkerGoto, TypeOK
    <3> QED
      BY <2>3, <3>3, <3>4, <3>5, QueueIs
  <2> QED
    BY <2>2, <2>3
<1>4. ASSUME NEW c \in Chats, NEW i \in DOMAIN handled'[c], NEW j \in DOMAIN handled'[c], i < j
      PROVE  handled'[c][i] < handled'[c][j]
  <2>1. CASE handled'[c] = handled[c]
    BY <1>4, <2>1 DEF InOrder
  <2>2. ASSUME NEW w \in Workers, CheckGot(w), chatOf[w] = c, handled'[c] # handled[c]
        PROVE  handled'[c][i] < handled'[c][j]
    <3> DEFINE n == Len(handled[c])
    <3>1. /\ n \in Nat /\ DOMAIN handled[c] = 1 .. n /\ DOMAIN handled'[c] = 1 .. n + 1
          /\ \A k \in 1 .. n : handled'[c][k] = handled[c][k]
          /\ handled'[c][n + 1] = inHand[w]
      BY <2>2, HandledIs
    <3>2. Alive(w) /\ inHand[w] \in Held(w)
      BY <2>2 DEF CheckGot, Alive, Held
    <3> HIDE DEF n
    <3>3. i \in 1 .. n
      BY <1>4, <3>1
    <3>4. CASE j \in 1 .. n
      BY <1>4, <3>1, <3>3, <3>4 DEF InOrder
    <3>5. CASE j = n + 1
      <4>1. handled[c][i] \in Done(c)
        BY <3>1, <3>3 DEF Done
      <4> QED
        BY <2>2, <3>1, <3>2, <3>3, <3>5, <4>1 DEF InOrder
    <3> QED
      BY <1>4, <3>1, <3>4, <3>5
  <2> QED
    BY <2>1, <2>2, HandledChanges
<1>5. ASSUME NEW w \in Workers, Alive(w)', NEW m \in Held(w)', NEW n \in Done(chatOf[w])'
      PROVE  n < m
  <2>1. CASE m \notin Held(w)
    <3>1. SendOk /\ m = arrived /\ m \in Messages /\ w = poll.worker
      BY <1>5, <2>1, HeldIs, AppendedIs
    <3>2. chatOf[w] \in Chats /\ chatOf' = chatOf
      BY <3>1, SendsToAlive, AliveHasChat DEF SendOk
    <3>3. n \in Done(chatOf[w]) /\ n \in Messages
      <4>1. Done(chatOf[w])' = Done(chatOf[w])
        BY <3>1, <3>2 DEF SendOk, Done, ghostVars
      <4> QED
        BY <1>5, <3>2, <4>1, DoneIs
    <3> QED
      BY <3>1, <3>2, <3>3, RoutedIs DEF RoutedOnce
  <2>2. CASE m \in Held(w)
    <3>1. Alive(w)
      <4>1. phase[w] = "got" \/ queue[w] # <<>>
        BY <2>2 DEF Held
      <4> QED
        BY <4>1 DEF RoutedOnce, Alive
    <3>2. chatOf[w] \in Chats /\ chatOf'[w] = chatOf[w]
      BY <3>1, AliveHasChat, ChatStays
    <3>3. CASE n \in Done(chatOf[w])
      BY <2>2, <3>1, <3>3 DEF InOrder
    <3>4. CASE n \notin Done(chatOf[w])
      <4>1. PICK v \in Workers : CheckGot(v) /\ chatOf[v] = chatOf[w] /\ n = inHand[v]
        BY <1>5, <3>2, <3>4, DoneIs
      <4>2. v = w
        BY <3>1, <4>1, OneAlive DEF CheckGot, Alive
      <4>3. phase[w] = "got" /\ phase'[w] # "got" /\ queue' = queue
        BY <4>1, <4>2 DEF CheckGot, WorkerGoto, TypeOK
      <4>4. PICK i \in DOMAIN queue[w] : m = queue[w][i]
        BY <1>5, <4>3 DEF Held
      <4> QED
        BY <4>1, <4>2, <4>3, <4>4 DEF InOrder
    <3> QED
      BY <3>3, <3>4
  <2> QED
    BY <2>1, <2>2
<1> QED
  BY <1>2, <1>3, <1>4, <1>5 DEF InOrder

\* Who holds a revoked message is cancelled; the flag is taken back only from a worker whose
\* messages are valid again.
LEMMA RevokedStep ==
  TypeOK /\ Structure /\ RoutedOnce /\ RevokedIsCancelled /\ [Next]_vars => RevokedIsCancelled'
<1> SUFFICES ASSUME TypeOK, PollInStep, WorkersInOrder, MapsAgree, RoutedOnce, RevokedIsCancelled,
                    [Next]_vars, NEW w \in Workers, NEW m \in Held(w)', m \in revoked'
             PROVE  cancelled'[w]
  BY DEF Structure, RevokedIsCancelled
<1>1. CASE SendOk
  <2>1. m \in revoked /\ cancelled' = cancelled /\ arrived \in Messages
    BY <1>1, AppendedIs DEF SendOk, flagVars, ghostVars
  <2>2. m # arrived
    BY <1>1, <2>1, RoutedIs DEF RoutedOnce
  <2> QED
    BY <2>1, <2>2, HeldIs DEF RevokedIsCancelled
<1>2. CASE ~SendOk
  <2>1. m \in Held(w)
    BY <1>2, HeldIs
  <2>2. m \in revoked => cancelled[w]
    BY <2>1 DEF RevokedIsCancelled
  <2>3. ASSUME NEW v \in Workers, NEW c \in Chats, Deny(v, c)
        PROVE  cancelled'[w]
    <3>1. revoked' = revoked \cup Waiting(c)
      BY <2>3 DEF Deny
    <3>2. cancelled'[w] = (cancelled[w] \/ w = registry[c])
      BY <2>3, Zenon DEF Deny
    <3>3. CASE m \in Waiting(c)
      <4>1. registry[c] \in Workers /\ m \in Held(registry[c])
        BY <3>3 DEF Waiting, Held, TypeOK
      <4>2. w = registry[c]
        BY <2>1, <4>1 DEF RoutedOnce
      <4> QED
        BY <3>2, <4>2
    <3> QED
      BY <2>2, <3>1, <3>2, <3>3
  <2>4. ASSUME NEW v \in Workers, DenySaveFails(v)
        PROVE  cancelled'[w]
    <3> DEFINE c == target[v]
    <3>1. CASE c = chatOf[v]
      <4>1. cancelled' = Reactivated(c) /\ revoked' = revoked \ Waiting(c)
        BY <2>4, <3>1 DEF DenySaveFails
      <4>2. w # registry[c]
        <5>1. w = registry[c] => m \in Waiting(c)
          BY <2>1, WorkersAreNumbers DEF Waiting, Held
        <5> QED
          BY <4>1, <5>1
      <4>3. cancelled'[w] = (cancelled[w] /\ w # registry[c])
        BY <4>1, Zenon DEF Reactivated
      <4> QED
        BY <2>2, <4>1, <4>2, <4>3
    <3>2. CASE c # chatOf[v]
      BY <2>2, <2>4, <3>2 DEF DenySaveFails
    <3> QED
      BY <3>1, <3>2
  <2>5. ASSUME NEW v \in Workers, Proceed(v) \/ IdleTimeout(v) \/ Allow(v)
        PROVE  cancelled'[w]
    <3>1. revoked' = revoked /\ cancelled' = cancelled
      BY <2>5 DEF Proceed, IdleTimeout, Allow, CheckTop, Recv, CheckGot, Handled, DenySaved, Drop,
         DropGuard, CloseChannel, flagVars, ghostVars
    <3> QED
      BY <2>2, <3>1
  <2>6. CASE Stop
    <3>1. revoked' = revoked
      BY <2>6 DEF Stop, ghostVars
    <3>2. cancelled[w] => cancelled'[w]
      BY <2>6, Zenon DEF Stop
    <3> QED
      BY <2>2, <3>1, <3>2
  <2>7. CASE Receive \/ PollLoop \/ Rest \/ UNCHANGED vars
    <3>1. revoked' = revoked /\ cancelled' = cancelled
      BY <2>7 DEF Receive, PollLoop, Rest, LookupMissing, LookupPresent, Register, SendOk, SendFull,
         SendClosed, ResendFails, Retain, Joined, Spawn, flagVars, ghostVars, vars
    <3> QED
      BY <2>2, <3>1
  <2>8. ASSUME NEW c \in Chats, NoticeSent(c)
        PROVE  cancelled'[w]
    <3>1. revoked' = revoked /\ cancelled' = cancelled
      BY <2>8 DEF NoticeSent, flagVars, ghostVars
    <3> QED
      BY <2>2, <3>1
  <2> QED
    BY <2>3, <2>4, <2>5, <2>6, <2>7, <2>8 DEF Next
<1> QED
  BY <1>1, <1>2

-----------------------------------------------------------------------------
(* The invariant, and the theorems.                                         *)

LEMMA IInvInit == Init => IInv
<1> SUFFICES ASSUME Init
             PROVE  IInv
  OBVIOUS
<1>1. TypeOK
  BY TypeInit
<1>2. /\ \A w \in Workers : phase[w] = "unborn" /\ queue[w] = <<>> /\ chatOf[w] = None
      /\ \A c \in Chats : dispatchers[c] = None /\ registry[c] = None /\ handled[c] = <<>>
      /\ poll.step = "polling" /\ poll.chat = None /\ poll.worker = None
      /\ arrived = 0 /\ spawned = 0 /\ revoked = {}
  BY DEF Init, Polling
<1>3. PollInStep /\ MapsAgree
  BY <1>2 DEF PollInStep, MapsAgree, Spawning, At
<1>4. WorkersInOrder
  BY <1>2, WorkersAreNumbers DEF WorkersInOrder, At
<1>5. OneWorkerPerChat /\ ListenersAreFound
  BY <1>2 DEF OneWorkerPerChat, ListenersAreFound, Alive, Listens, Spawning
<1>6. NoWorkerOutlivesTheLoop
  BY <1>2 DEF NoWorkerOutlivesTheLoop
<1>7. (\A w \in Workers : Held(w) = {} /\ DOMAIN queue[w] = {}) /\ \A c \in Chats : Done(c) = {} /\ DOMAIN handled[c] = {}
  BY <1>2 DEF Held, Done
<1>8. RoutedOnce /\ InOrder /\ RevokedIsCancelled
  BY <1>2, <1>7 DEF RoutedOnce, InOrder, RevokedIsCancelled, Alive
<1> QED
  BY <1>1, <1>3, <1>4, <1>5, <1>6, <1>8 DEF IInv, Structure

LEMMA IInvStep == IInv /\ [Next]_vars => IInv'
BY TypeStep, StructureStep, ListenersStep, StoppedStep, RoutedOnceStep, InOrderStep, RevokedStep DEF IInv

\* The inductive invariant holds in every reachable state.
THEOREM DispatcherInvariant == Spec => []IInv
BY IInvInit, IInvStep, PTL DEF Spec

\* Every variable of Dispatcher stays in its domain; in particular a channel is never filled
\* beyond its size, and a chat never has two busy notices.
THEOREM DispatcherTypeCorrect == Spec => []TypeOK
<1>1. IInv => TypeOK
  BY DEF IInv
<1> QED
  BY DispatcherInvariant, <1>1, PTL

\* The messages of a chat are handled by one worker at a time and in the order they arrived,
\* however often its worker ends and another takes over.
THEOREM ChatsStayInOrder == Spec => []StrictOrderPerChat
<1>1. IInv => StrictOrderPerChat
  <2> SUFFICES ASSUME IInv, NEW c \in Chats
               PROVE  /\ \A i, j \in DOMAIN handled[c] : i < j => handled[c][i] < handled[c][j]
                      /\ Cardinality({w \in Workers :
                           chatOf[w] = c /\ phase[w] \in {"handling", "denying"}}) <= 1
    BY DEF StrictOrderPerChat
  <2> DEFINE busy == {w \in Workers : chatOf[w] = c /\ phase[w] \in {"handling", "denying"}}
  <2>1. \A v, w \in busy : v = w
    BY OneAlive DEF IInv, Alive
  <2>2. busy = {} \/ \E w \in busy : busy = {w}
    BY <2>1
  <2> HIDE DEF busy
  <2>3. ASSUME NEW w \in busy, busy = {w}
        PROVE  Cardinality(busy) <= 1
    <3>1. Cardinality({w}) = 1
      BY FS_Singleton
    <3> QED
      BY <2>3, <3>1
  <2>4. Cardinality(busy) <= 1
    BY <2>2, <2>3, FS_EmptySet
  <2> QED
    BY <2>4 DEF IInv, InOrder, busy
<1> QED
  BY DispatcherInvariant, <1>1, PTL

\* Whatever the poll loop and the workers do meanwhile, /deny reaches the worker of its chat,
\* but for one whose registration or flagging is already under way.
THEOREM WorkersAreReached == Spec => []DenyReachesWorker
<1>1. IInv => DenyReachesWorker
  BY DEF IInv, ListenersAreFound, DenyReachesWorker, Listens, Busy, IsFresh
<1> QED
  BY DispatcherInvariant, <1>1, PTL

\* The loop does not stop before the last worker has.
THEOREM LoopStopsLast == Spec => []NoWorkerOutlivesTheLoop
<1>1. IInv => NoWorkerOutlivesTheLoop
  BY DEF IInv
<1> QED
  BY DispatcherInvariant, <1>1, PTL

\* A message queued when its chat was denied is not handled later, also when access comes
\* back, except by the /deny of the chat itself whose save failed.
THEOREM RevokedStaysUnhandled == Spec => RevokedIsNeverHandled
<1>1. ASSUME IInv, [Next]_vars, NEW c \in Chats, Len(handled'[c]) > Len(handled[c])
      PROVE  handled'[c][Len(handled'[c])] \notin revoked
  <2>1. Len(handled[c]) \in Nat
    BY <1>1, LenProperties DEF IInv, TypeOK
  <2>2. PICK w \in Workers : CheckGot(w) /\ chatOf[w] = c
    <3>1. handled'[c] # handled[c]
      BY <1>1, <2>1
    <3>2. TypeOK /\ PollInStep /\ WorkersInOrder /\ RoutedOnce
      BY <1>1 DEF IInv, Structure
    <3> QED
      BY <1>1, <3>1, <3>2, HandledChanges
  <2>3. MayGoOn(w) /\ handled'[c][Len(handled'[c])] = inHand[w]
    <3>1. handled' # handled
      BY <1>1, <2>1
    <3> QED
      BY <1>1, <2>2, <3>1, HandledIs DEF IInv
  <2>4. inHand[w] \in Held(w) /\ ~cancelled[w]
    BY <2>2, <2>3 DEF CheckGot, Held, MayGoOn
  <2> QED
    BY <1>1, <2>3, <2>4 DEF IInv, RevokedIsCancelled
<1>2. IInv /\ [Next]_vars =>
        [\A c \in Chats : Len(handled'[c]) > Len(handled[c]) =>
           handled'[c][Len(handled'[c])] \notin revoked]_vars
  BY <1>1
<1> QED
  BY DispatcherInvariant, <1>2, PTL DEF Spec, RevokedIsNeverHandled
=============================================================================
