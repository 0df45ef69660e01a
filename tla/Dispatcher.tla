----------------------------- MODULE Dispatcher -----------------------------
(***************************************************************************)
(* One task per chat (src/runtime.rs): the poll loop routes a chat's       *)
(* messages into the bounded channel of its worker task, spawns the task   *)
(* when there is none, and forgets it when it has ended.  A worker ends    *)
(* when it has been idle for long, when its chat is denied, or when the    *)
(* bot stops.  /deny, handled by a worker, finds the target's worker in a   *)
(* registry of its own, flags it and, unless a chat denies itself, aborts  *)
(* it.                                                                     *)
(*                                                                         *)
(* The poll loop and the workers run on different threads, and the code    *)
(* spawns a worker before it registers it, removes the registration before *)
(* the channel closes, and clears its map of workers only between two      *)
(* polls; these are the steps that interleave here.  What a message does   *)
(* is left out except for /allow and /deny.                                *)
(***************************************************************************)
EXTENDS Naturals, Sequences, FiniteSets

CONSTANTS
  Chats,        \* chats the bot serves
  Owners,       \* chats from which /allow and /deny may be sent
  QueueSize,    \* CHAT_QUEUE_SIZE
  MaxMessages,  \* bound on messages that arrive
  MaxCommands,  \* bound on /allow and /deny
  MaxFailures,  \* bound on failed config saves
  None          \* no worker, no chat

ASSUME DispatcherConstants ==
  /\ Owners \subseteq Chats
  /\ None \notin Chats \cup Nat
  /\ QueueSize \in Nat \ {0}
  /\ {MaxMessages, MaxCommands, MaxFailures} \subseteq Nat

Messages == 1 .. MaxMessages

\* A message spawns at most two workers: one that may end before the message
\* reaches it, and one instead of it.
Workers == 1 .. 2 * MaxMessages

VARIABLES
  allowed,      \* AccessControl.allowed_chat_ids
  arrived,      \* messages received so far; they are numbered in this order
  poll,         \* what the poll loop is doing, for which chat and which worker
  dispatchers,  \* the poll loop's map of workers
  registry,     \* handles.workers, through which /deny finds a worker
  spawned,      \* NEXT_CHAT_WORKER_ID
  chatOf,       \* chat of each worker spawned
  phase,        \* where each worker is in its loop
  queue,        \* its channel
  inHand,       \* the message it has taken from the channel
  cancelled,    \* its cancellation flag
  aborted,      \* its task has been aborted
  target,       \* the chat whose access the /deny it handles took away
  notices,      \* busy notices being sent, per chat
  handled,      \* messages whose handling began, per chat, in order
  revoked,      \* messages that were queued for a chat when it was denied
  used          \* commands and failures so far

pollVars == <<arrived, poll, dispatchers, spawned, chatOf>>
workerVars == <<phase, inHand, target>>
flagVars == <<cancelled, aborted>>
ghostVars == <<handled, revoked>>
vars == <<allowed, arrived, poll, dispatchers, registry, spawned, chatOf, phase, queue,
          inHand, cancelled, aborted, target, notices, handled, revoked, used>>

PollSteps == {"polling", "lookup", "register", "send", "respawn", "resend", "batch",
              "stopping", "stopped"}

\* top, got: about to check access; waiting: in recv; ending: out of the loop;
\* dropped: registration removed, channel still open; closed: task finished
Phases == {"unborn", "top", "waiting", "got", "handling", "denying", "ending", "dropped", "closed"}

Polling == [step |-> "polling", chat |-> None, worker |-> None]

Init ==
  /\ allowed = Chats
  /\ arrived = 0
  /\ poll = Polling
  /\ dispatchers = [c \in Chats |-> None]
  /\ registry = [c \in Chats |-> None]
  /\ spawned = 0
  /\ chatOf = [w \in Workers |-> None]
  /\ phase = [w \in Workers |-> "unborn"]
  /\ queue = [w \in Workers |-> <<>>]
  /\ inHand = [w \in Workers |-> 0]
  /\ cancelled = [w \in Workers |-> FALSE]
  /\ aborted = [w \in Workers |-> FALSE]
  /\ target = [w \in Workers |-> None]
  /\ notices = [c \in Chats |-> 0]
  /\ handled = [c \in Chats |-> <<>>]
  /\ revoked = {}
  /\ used = [commands |-> 0, failures |-> 0]

-----------------------------------------------------------------------------
(* The poll loop *)

At(step) == poll.step = step
PollGoto(step, c, w) == poll' = [step |-> step, chat |-> c, worker |-> w]

\* handle_update: a message of an allowed chat goes to the chat's worker.
Receive ==
  /\ poll.step \in {"polling", "batch"}
  /\ arrived < MaxMessages
  /\ \E c \in allowed : PollGoto("lookup", c, dispatchers[c])
  /\ arrived' = arrived + 1
  /\ UNCHANGED <<allowed, dispatchers, registry, spawned, chatOf, workerVars, queue, flagVars,
                 notices, ghostVars, used>>

\* spawn_chat_worker, up to and including tokio::spawn
Spawn(next) ==
  LET w == spawned + 1
  IN  /\ spawned' = w
      /\ chatOf' = [chatOf EXCEPT ![w] = poll.chat]
      /\ phase' = [phase EXCEPT ![w] = "top"]
      /\ PollGoto(next, poll.chat, w)
      /\ UNCHANGED <<allowed, arrived, dispatchers, registry, queue, inHand, flagVars, target,
                     notices, ghostVars, used>>

LookupMissing == At("lookup") /\ poll.worker = None /\ Spawn("register")

LookupPresent ==
  /\ At("lookup")
  /\ poll.worker # None
  /\ PollGoto("send", poll.chat, poll.worker)
  /\ UNCHANGED <<allowed, arrived, dispatchers, registry, spawned, chatOf, workerVars, queue,
                 flagVars, notices, ghostVars, used>>

\* Mutant: the worker that takes over from one that ended is not registered.
RegisteredFirst ==
  IF At("register") THEN [registry EXCEPT ![poll.chat] = poll.worker] ELSE registry

Registered == [registry EXCEPT ![poll.chat] = poll.worker]

\* The registration of the worker just spawned, and the entry in the map.  (The
\* code makes the entry of a respawned worker after the message is sent; the
\* poll loop alone reads the map.)
Register ==
  /\ poll.step \in {"register", "respawn"}
  /\ registry' = Registered
  /\ dispatchers' = [dispatchers EXCEPT ![poll.chat] = poll.worker]
  /\ PollGoto(IF At("register") THEN "send" ELSE "resend", poll.chat, poll.worker)
  /\ UNCHANGED <<allowed, arrived, spawned, chatOf, workerVars, queue, flagVars, notices,
                 ghostVars, used>>

\* Is the receiving half of the channel gone?
Closed(w) == phase[w] = "closed"

Sendable(w) == ~Closed(w) /\ Len(queue[w]) < QueueSize

SendOk ==
  /\ poll.step \in {"send", "resend"}
  /\ Sendable(poll.worker)
  /\ queue' = [queue EXCEPT ![poll.worker] = Append(@, arrived)]
  /\ PollGoto("batch", None, None)
  /\ UNCHANGED <<allowed, arrived, dispatchers, registry, spawned, chatOf, workerVars, flagVars,
                 notices, ghostVars, used>>

ReserveNotice(n) == IF n = 0 THEN 1 ELSE n

\* The message is dropped; one busy notice at a time is sent for a chat.
SendFull ==
  /\ At("send")
  /\ ~Closed(poll.worker) /\ ~Sendable(poll.worker)
  /\ notices' = [notices EXCEPT ![poll.chat] = ReserveNotice(@)]
  /\ PollGoto("batch", None, None)
  /\ UNCHANGED <<allowed, arrived, dispatchers, registry, spawned, chatOf, workerVars, queue,
                 flagVars, ghostVars, used>>

\* Mutant: a full channel, too, gets the chat a new worker.
SendRejected == At("send") /\ ~Sendable(poll.worker) /\ Spawn("respawn")

SendClosed == At("send") /\ Closed(poll.worker) /\ Spawn("respawn")

\* "fresh worker rejected message": logged, and the message is gone.
ResendFails ==
  /\ At("resend")
  /\ ~Sendable(poll.worker)
  /\ PollGoto("batch", None, None)
  /\ UNCHANGED <<allowed, arrived, dispatchers, registry, spawned, chatOf, workerVars, queue,
                 flagVars, notices, ghostVars, used>>

NoticeSent(c) ==
  /\ notices[c] > 0
  /\ notices' = [notices EXCEPT ![c] = @ - 1]
  /\ UNCHANGED <<allowed, pollVars, registry, workerVars, queue, flagVars, ghostVars, used>>

\* remove_worker_registration and the guard's drop: only the worker's own entry
Unregistered(reg, w) == [c \in Chats |-> IF reg[c] = w THEN None ELSE reg[c]]

\* After a batch of updates, and whenever the loop turns for another reason,
\* workers that have ended leave the map.
Retain ==
  LET ended == {c \in Chats : dispatchers[c] # None /\ Closed(dispatchers[c])}
  IN  /\ poll.step \in {"polling", "batch"}
      /\ dispatchers' = [c \in Chats |-> IF c \in ended THEN None ELSE dispatchers[c]]
      /\ registry' = [c \in Chats |->
           IF c \in ended /\ registry[c] = dispatchers[c] THEN None ELSE registry[c]]
      /\ poll' = Polling
      /\ UNCHANGED <<allowed, arrived, spawned, chatOf, workerVars, queue, flagVars, notices,
                     ghostVars, used>>

\* stop_chat_workers: every worker in the map is flagged and aborted, then
\* joined.
Stop ==
  LET mapped == {dispatchers[c] : c \in Chats} \ {None}
  IN  /\ At("polling")
      /\ poll' = [Polling EXCEPT !.step = "stopping"]
      /\ cancelled' = [w \in Workers |-> cancelled[w] \/ w \in mapped]
      /\ aborted' = [w \in Workers |-> aborted[w] \/ w \in mapped]
      /\ registry' = [c \in Chats |-> IF registry[c] \in mapped THEN None ELSE registry[c]]
      /\ UNCHANGED <<allowed, arrived, dispatchers, spawned, chatOf, workerVars, queue, notices,
                     ghostVars, used>>

\* Mutant: aborted workers are not waited for.
StopDetached ==
  /\ At("stopping")
  /\ poll' = [Polling EXCEPT !.step = "stopped"]
  /\ UNCHANGED <<allowed, arrived, dispatchers, registry, spawned, chatOf, workerVars, queue,
                 flagVars, notices, ghostVars, used>>

Joined ==
  /\ At("stopping")
  /\ \A c \in Chats : dispatchers[c] # None => Closed(dispatchers[c])
  /\ poll' = [Polling EXCEPT !.step = "stopped"]
  /\ UNCHANGED <<allowed, arrived, dispatchers, registry, spawned, chatOf, workerVars, queue,
                 flagVars, notices, ghostVars, used>>

-----------------------------------------------------------------------------
(* A worker *)

WorkerGoto(w, p) == phase' = [phase EXCEPT ![w] = p]

\* Mutant: live access alone decides.
MayGoOnIfAllowed(w) == chatOf[w] \in allowed

\* Both checks of the loop: the flag, then live access.
MayGoOn(w) == ~cancelled[w] /\ chatOf[w] \in allowed

CheckTop(w) ==
  /\ phase[w] = "top"
  /\ WorkerGoto(w, IF MayGoOn(w) THEN "waiting" ELSE "ending")
  /\ UNCHANGED <<allowed, pollVars, registry, queue, inHand, flagVars, target, notices,
                 ghostVars, used>>

Recv(w) ==
  /\ phase[w] = "waiting" /\ ~aborted[w]
  /\ queue[w] # <<>>
  /\ inHand' = [inHand EXCEPT ![w] = Head(queue[w])]
  /\ queue' = [queue EXCEPT ![w] = Tail(@)]
  /\ WorkerGoto(w, "got")
  /\ UNCHANGED <<allowed, pollVars, registry, flagVars, target, notices, ghostVars, used>>

\* Mutant: the timer wins over a message that is there.
IdleTimeoutFirst(w) ==
  /\ phase[w] = "waiting" /\ ~aborted[w]
  /\ WorkerGoto(w, "ending")
  /\ UNCHANGED <<allowed, pollVars, registry, queue, inHand, flagVars, target, notices,
                 ghostVars, used>>

\* CHAT_TASK_IDLE_TIMEOUT passes; recv is polled first, so the channel is empty.
IdleTimeout(w) ==
  /\ phase[w] = "waiting" /\ ~aborted[w]
  /\ queue[w] = <<>>
  /\ WorkerGoto(w, "ending")
  /\ UNCHANGED <<allowed, pollVars, registry, queue, inHand, flagVars, target, notices,
                 ghostVars, used>>

CheckGot(w) ==
  /\ phase[w] = "got"
  /\ IF MayGoOn(w)
     THEN /\ WorkerGoto(w, "handling")
          /\ handled' = [handled EXCEPT ![chatOf[w]] = Append(@, inHand[w])]
     ELSE WorkerGoto(w, "ending") /\ UNCHANGED handled
  /\ UNCHANGED <<allowed, pollVars, registry, queue, inHand, flagVars, target, notices,
                 revoked, used>>

\* handle_allowed_message returns; it awaits the network at least once.
Handled(w) ==
  /\ phase[w] = "handling" /\ ~aborted[w]
  /\ WorkerGoto(w, "top")
  /\ inHand' = [inHand EXCEPT ![w] = 0]
  /\ UNCHANGED <<allowed, pollVars, registry, queue, flagVars, target, notices, ghostVars, used>>

Command(w) ==
  /\ phase[w] = "handling" /\ ~aborted[w]
  /\ chatOf[w] \in Owners
  /\ used["commands"] < MaxCommands
  /\ used' = [used EXCEPT !["commands"] = @ + 1]

\* /allow opens live access once the config is saved.
Allow(w) ==
  /\ Command(w)
  /\ \E c \in Chats : allowed' = allowed \cup {c}
  /\ WorkerGoto(w, "top")
  /\ inHand' = [inHand EXCEPT ![w] = 0]
  /\ UNCHANGED <<pollVars, registry, queue, flagVars, target, notices, ghostVars>>

\* Messages that wait in the channel of c's worker, or that it has just taken.
Waiting(c) ==
  LET w == registry[c]
  IN  IF w = None THEN {}
      ELSE {queue[w][i] : i \in DOMAIN queue[w]}
             \cup (IF phase[w] = "got" THEN {inHand[w]} ELSE {})

\* handle_deny_chat: live access closes, then cancel_chat_worker.  A chat that
\* was denied already needs no save.
Deny(w, c) ==
  LET victim == registry[c]
  IN  /\ Command(w)
      /\ allowed' = allowed \ {c}
      /\ cancelled' = [v \in Workers |-> cancelled[v] \/ v = victim]
      /\ aborted' = [v \in Workers |-> aborted[v] \/ (v = victim /\ c # chatOf[w])]
      /\ revoked' = revoked \cup Waiting(c)
      /\ target' = [target EXCEPT ![w] = IF c \in allowed THEN c ELSE None]
      /\ WorkerGoto(w, "denying")
      /\ UNCHANGED <<pollVars, registry, queue, inHand, notices, handled>>

DenySaved(w) ==
  /\ phase[w] = "denying" /\ ~aborted[w]
  /\ WorkerGoto(w, "top")
  /\ inHand' = [inHand EXCEPT ![w] = 0]
  /\ target' = [target EXCEPT ![w] = None]
  /\ UNCHANGED <<allowed, pollVars, registry, queue, flagVars, notices, ghostVars, used>>

\* reactivate_chat_worker: the worker registered for c takes messages again.
Reactivated(c) == [v \in Workers |-> cancelled[v] /\ v # registry[c]]

\* Access comes back; a chat that denied itself goes on with what is queued.
DenySaveFails(w) ==
  LET c == target[w]
      self == c = chatOf[w]
  IN  /\ phase[w] = "denying" /\ ~aborted[w]
      /\ c # None
      /\ used["failures"] < MaxFailures
      /\ used' = [used EXCEPT !["failures"] = @ + 1]
      /\ allowed' = allowed \cup {c}
      /\ cancelled' = IF self THEN Reactivated(c) ELSE cancelled
      /\ revoked' = IF self THEN revoked \ Waiting(c) ELSE revoked
      /\ target' = [target EXCEPT ![w] = None]
      /\ inHand' = [inHand EXCEPT ![w] = 0]
      /\ WorkerGoto(w, "top")
      /\ UNCHANGED <<pollVars, registry, queue, aborted, notices, handled>>

\* The runtime drops an aborted task where it awaits.
Drop(w) ==
  /\ aborted[w]
  /\ phase[w] \in {"top", "waiting", "got", "handling", "denying"}
  /\ WorkerGoto(w, "ending")
  /\ UNCHANGED <<allowed, pollVars, registry, queue, inHand, flagVars, target, notices,
                 ghostVars, used>>

\* The guard goes first, the channel after it.
DropGuard(w) ==
  /\ phase[w] = "ending"
  /\ registry' = Unregistered(registry, w)
  /\ WorkerGoto(w, "dropped")
  /\ UNCHANGED <<allowed, pollVars, queue, inHand, flagVars, target, notices, ghostVars, used>>

CloseChannel(w) ==
  /\ phase[w] = "dropped"
  /\ WorkerGoto(w, "closed")
  /\ queue' = [queue EXCEPT ![w] = <<>>]
  /\ inHand' = [inHand EXCEPT ![w] = 0]
  /\ UNCHANGED <<allowed, pollVars, registry, flagVars, target, notices, ghostVars, used>>

-----------------------------------------------------------------------------
PollLoop ==
  \/ LookupMissing \/ LookupPresent \/ Register \/ SendOk \/ SendFull \/ SendClosed
  \/ ResendFails \/ Retain \/ Joined

\* Steps a worker takes without waiting for the outside world
Proceed(w) ==
  \/ CheckTop(w) \/ Recv(w) \/ CheckGot(w) \/ Handled(w) \/ DenySaved(w) \/ Drop(w)
  \/ DropGuard(w) \/ CloseChannel(w)

Rest == poll.step \in {"polling", "stopped"} /\ UNCHANGED vars

Next ==
  \/ Receive \/ PollLoop \/ Stop \/ Rest
  \/ \E c \in Chats : NoticeSent(c)
  \/ \E w \in Workers :
       \/ Proceed(w) \/ IdleTimeout(w) \/ Allow(w) \/ DenySaveFails(w)
       \/ \E c \in Chats : Deny(w, c)

Spec == Init /\ [][Next]_vars

\* The executor runs every task that can proceed; requests and saves return.
FairSpec == Spec /\ WF_vars(PollLoop) /\ \A w \in Workers : WF_vars(Proceed(w))
-----------------------------------------------------------------------------
(* Properties *)

\* Every variable stays in its domain.
TypeOK ==
  /\ allowed \subseteq Chats
  /\ arrived \in 0 .. MaxMessages
  /\ poll \in [step : PollSteps, chat : Chats \cup {None}, worker : Workers \cup {None}]
  /\ dispatchers \in [Chats -> Workers \cup {None}]
  /\ registry \in [Chats -> Workers \cup {None}]
  /\ spawned \in {0} \cup Workers
  /\ chatOf \in [Workers -> Chats \cup {None}]
  /\ phase \in [Workers -> Phases]
  /\ queue \in [Workers -> Seq(Messages)]
  /\ \A w \in Workers : Len(queue[w]) <= QueueSize
  /\ inHand \in [Workers -> {0} \cup Messages]
  /\ cancelled \in [Workers -> BOOLEAN]
  /\ aborted \in [Workers -> BOOLEAN]
  /\ target \in [Workers -> Chats \cup {None}]
  /\ notices \in [Chats -> {0, 1}]
  /\ handled \in [Chats -> Seq(Messages)]
  /\ revoked \subseteq Messages
  /\ used \in [{"commands", "failures"} -> Nat]

Busy(w) == phase[w] \in {"waiting", "got", "handling", "denying"}

\* Messages of a chat are handled one at a time and in the order they arrived,
\* also when the chat's worker has ended and another one took over.
StrictOrderPerChat ==
  \A c \in Chats :
    /\ \A i, j \in DOMAIN handled[c] : i < j => handled[c][i] < handled[c][j]
    /\ Cardinality({w \in Workers : chatOf[w] = c /\ phase[w] \in {"handling", "denying"}}) <= 1

\* /deny can reach every worker that may still take a message: what the
\* registry holds for a chat is the chat's worker, or the poll loop is about to
\* register it, or shutdown has flagged it.
DenyReachesWorker ==
  \A w \in Workers :
    Busy(w) => registry[chatOf[w]] = w \/ poll.worker = w \/ cancelled[w]

\* A message that was queued when its chat was denied is never handled, even if
\* the chat is allowed again right away.
RevokedIsNeverHandled ==
  [][\A c \in Chats :
       Len(handled'[c]) > Len(handled[c]) => handled'[c][Len(handled'[c])] \notin revoked]_vars

\* A queued message is lost only together with its chat's access, or at
\* shutdown.
LostOnlyByDeny ==
  [][\A w \in Workers :
       phase[w] # "closed" /\ phase'[w] = "closed" /\ queue[w] # <<>> =>
         cancelled[w] \/ chatOf[w] \notin allowed]_vars

\* When the loop has stopped, no worker is left.
NoWorkerOutlivesTheLoop ==
  At("stopped") => \A w \in Workers : phase[w] \in {"unborn", "closed"}

\* A message that waits for a worker which has not given up on its channel is
\* taken up, unless the chat is denied or the bot stops.
Holds(w, m) == \E i \in DOMAIN queue[w] : queue[w][i] = m

QueuedIsTaken ==
  \A m \in Messages :
    (\E w \in Workers :
       phase[w] \in {"top", "waiting", "got", "handling", "denying"} /\ Holds(w, m))
      ~> (\E w \in Workers :
            inHand[w] = m \/ (Holds(w, m) /\ (cancelled[w] \/ chatOf[w] \notin allowed)))
=============================================================================
