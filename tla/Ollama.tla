------------------------------- MODULE Ollama -------------------------------
(***************************************************************************)
(* The local Ollama endpoint (src/ollama.rs), as the model turns of a      *)
(* compat model use it (src/model_turn.rs, dispatch_provider).  A turn     *)
(* that finds the port closed starts `ollama serve' under START_LOCK and   *)
(* waits for it; the child it started is kept in CHILD and stopped when    *)
(* tellm stops, after the models its turns used, kept in LOADED_MODELS,    *)
(* have been unloaded.                                                     *)
(*                                                                         *)
(* A turn is a task that /deny or the end of the bot aborts at any await,  *)
(* while the thread that spawns the process cannot be aborted.  The        *)
(* processes themselves, and an Ollama the user runs, are the environment: *)
(* one process at a time holds the port.                                   *)
(***************************************************************************)
EXTENDS Naturals, FiniteSets

CONSTANTS
  Turns,        \* tasks that handle model turns, one per chat
  Models,       \* models configured at the local endpoint
  MaxTurns,     \* bound on the turns begun
  MaxStarts,    \* bound on `ollama serve' processes
  MaxAborts,    \* bound on turns aborted by /deny
  MaxUnloads,   \* bound on /ollama unload
  MaxChanges    \* bound on what the user and chance do to the processes

ASSUME OllamaConstants ==
  {MaxTurns, MaxStarts, MaxAborts, MaxUnloads, MaxChanges} \subseteq Nat

Pids == 1 .. MaxStarts
NoPid == 0
Unloaders == {"command", "shutdown"}

VARIABLES
  foreign,      \* an Ollama tellm did not start holds the port
  proc,         \* what each process started by tellm is doing
  loaded,       \* models in the memory of the server that holds the port
  pc,           \* where each turn is in dispatch_provider
  using,        \* the model of each turn
  spawnedPid,   \* process handed back to a turn that has not registered it
  detached,     \* spawning threads whose turn has been aborted
  startLock,    \* holders of START_LOCK
  child,        \* CHILD
  tracked,      \* LOADED_MODELS
  unload,       \* what each unload_models call has done and has left to do
  main,         \* where Runtime::run is in its shutdown
  taken,        \* the child taken out of CHILD by stop_started
  orphans,      \* processes whose turn was aborted before it registered them
  givenUp,      \* a turn has stopped waiting for its process before that served
  cutOff,       \* processes replaced while they were serving
  reused,       \* models a turn used while an unload of them was under way
  used          \* bounded events so far

procVars == <<foreign, proc, loaded>>
turnVars == <<pc, using, spawnedPid, startLock>>
stopVars == <<main, taken>>
history == <<orphans, givenUp, cutOff, reused>>
vars == <<procVars, turnVars, detached, child, tracked, unload, stopVars, history, used>>

Places == {"idle", "probe", "lock", "reprobe", "spawn", "spawned", "wait", "prepare", "send",
           "request"}

NoUnload == [left |-> {}, asked |-> {}, on |-> FALSE]
Started == {p \in Pids : proc[p] # "none"}
Live == {p \in Pids : proc[p] \in {"starting", "serving"}}

\* tcp_connects: something listens on the port.
PortOpen == foreign \/ \E p \in Pids : proc[p] = "serving"

Init ==
  /\ foreign \in BOOLEAN
  /\ proc = [p \in Pids |-> "none"]
  /\ loaded = {}
  /\ pc = [t \in Turns |-> "idle"]
  /\ using \in [Turns -> Models]
  /\ spawnedPid = [t \in Turns |-> NoPid]
  /\ detached = 0
  /\ startLock = {}
  /\ child = NoPid
  /\ tracked = {}
  /\ unload = [u \in Unloaders |-> NoUnload]
  /\ main = "running"
  /\ taken = NoPid
  /\ orphans = {} /\ givenUp = FALSE /\ cutOff = {} /\ reused = {}
  /\ used = [turns |-> 0, aborts |-> 0, unloads |-> 0, changes |-> 0]

Count(event, bound) ==
  /\ used[event] < bound
  /\ used' = [used EXCEPT ![event] = @ + 1]

-----------------------------------------------------------------------------
(* A turn: ensure_ready, the checks and the key, then the request.         *)

Goto(t, place) == pc' = [pc EXCEPT ![t] = place]
Leave(t) == startLock' = startLock \ {t}

Begin(t) ==
  /\ main = "running" /\ pc[t] = "idle"
  /\ Count("turns", MaxTurns)
  /\ \E m \in Models : using' = [using EXCEPT ![t] = m]
  /\ Goto(t, "probe")
  /\ UNCHANGED <<procVars, spawnedPid, startLock, detached, child, tracked, unload,
                 stopVars, history>>

Probe(t) ==
  /\ pc[t] = "probe"
  /\ Goto(t, IF PortOpen THEN "prepare" ELSE "lock")
  /\ UNCHANGED <<procVars, using, spawnedPid, startLock, detached, child, tracked,
                 unload, stopVars, history, used>>

LockStart(t) ==
  /\ pc[t] = "lock" /\ startLock = {}
  /\ startLock' = {t}
  /\ Goto(t, "reprobe")
  /\ UNCHANGED <<procVars, using, spawnedPid, detached, child, tracked, unload,
                 stopVars, history, used>>

\* Mutant: no second look.
NoSecondLook(t) == "spawn"

\* The second look, under the lock: another turn may have started the server.
AfterReprobe(t) == IF PortOpen THEN "prepare" ELSE "spawn"

Reprobe(t) ==
  /\ pc[t] = "reprobe"
  /\ Goto(t, AfterReprobe(t))
  /\ IF AfterReprobe(t) = "prepare" THEN Leave(t) ELSE UNCHANGED startLock
  /\ UNCHANGED <<procVars, using, spawnedPid, detached, child, tracked, unload,
                 stopVars, history, used>>

NewProcess == proc' = [proc EXCEPT ![Cardinality(Started) + 1] = "starting"]

\* The spawn_blocking thread of start_serve.
Spawn(t) ==
  /\ pc[t] = "spawn"
  /\ Cardinality(Started) < MaxStarts
  /\ NewProcess
  /\ spawnedPid' = [spawnedPid EXCEPT ![t] = Cardinality(Started) + 1]
  /\ Goto(t, "spawned")
  /\ UNCHANGED <<foreign, loaded, using, startLock, detached, child, tracked, unload,
                 stopVars, history, used>>

\* `ollama' is not installed, or no process can be made.
SpawnFails(t) ==
  /\ pc[t] = "spawn"
  /\ Goto(t, "idle") /\ Leave(t)
  /\ UNCHANGED <<procVars, using, spawnedPid, detached, child, tracked, unload,
                 stopVars, history, used>>

Stopped(p) == [proc EXCEPT ![p] = IF p \in Live THEN "gone" ELSE @]

\* What is left in memory when the processes change to those of procs.
LoadedWith(procs) ==
  IF foreign \/ \E p \in Pids : procs[p] = "serving" THEN loaded ELSE {}

\* Mutant: the child that was there is let go, as Child's own drop does.
OldChildLetGo == proc

\* CHILD takes the new child; a child that was there is dropped, and so stopped.
ProcAfterRegister == IF child = NoPid THEN proc ELSE Stopped(child)

Register(t) ==
  /\ pc[t] = "spawned"
  /\ child' = spawnedPid[t]
  /\ spawnedPid' = [spawnedPid EXCEPT ![t] = NoPid]
  /\ proc' = ProcAfterRegister
  /\ loaded' = LoadedWith(ProcAfterRegister)
  /\ cutOff' = IF child # NoPid /\ proc[child] = "serving"
               THEN cutOff \cup {child} ELSE cutOff
  /\ Goto(t, "wait")
  /\ UNCHANGED <<foreign, using, startLock, detached, tracked, unload, stopVars,
                 orphans, givenUp, reused, used>>

\* Whoever holds the port by now, the child or another process.
WaitReady(t) ==
  /\ pc[t] = "wait" /\ PortOpen
  /\ Goto(t, "prepare") /\ Leave(t)
  /\ givenUp' = (givenUp \/ proc[child] = "starting")
  /\ UNCHANGED <<procVars, using, spawnedPid, detached, child, tracked, unload,
                 stopVars, orphans, cutOff, reused, used>>

\* Mutant: the wait for the port has no deadline.
NoDeadline(t) == FALSE /\ UNCHANGED vars

\* START_WAIT has passed.
WaitExpires(t) ==
  /\ pc[t] = "wait"
  /\ Goto(t, "idle") /\ Leave(t)
  /\ givenUp' = TRUE
  /\ UNCHANGED <<procVars, using, spawnedPid, detached, child, tracked, unload,
                 stopVars, orphans, cutOff, reused, used>>

\* require_vision_capability, compat_api_key, then remember_model.
Remember(t) ==
  /\ pc[t] = "prepare"
  /\ tracked' = tracked \cup {using[t]}
  /\ reused' = reused \ {using[t]}
  /\ Goto(t, "send")
  /\ UNCHANGED <<procVars, using, spawnedPid, startLock, detached, child, unload,
                 stopVars, orphans, givenUp, cutOff, used>>

PrepareFails(t) ==
  /\ pc[t] = "prepare"
  /\ Goto(t, "idle")
  /\ UNCHANGED <<procVars, using, spawnedPid, startLock, detached, child, tracked,
                 unload, stopVars, history, used>>

\* The request reaches the server, which loads the model, or nobody listens.
Send(t) ==
  /\ pc[t] = "send"
  /\ IF PortOpen
     THEN /\ loaded' = loaded \cup {using[t]}
          /\ Goto(t, "request")
     ELSE /\ Goto(t, "idle")
          /\ UNCHANGED loaded
  /\ UNCHANGED <<foreign, proc, using, spawnedPid, startLock, detached, child, tracked,
                 unload, stopVars, history, used>>

Answered(t) ==
  /\ pc[t] = "request"
  /\ Goto(t, "idle")
  /\ UNCHANGED <<procVars, using, spawnedPid, startLock, detached, child, tracked,
                 unload, stopVars, history, used>>

-----------------------------------------------------------------------------
(* Tasks are aborted at an await; what they hold is dropped.               *)

Awaiting(t) == pc[t] \notin {"idle", "send"}

\* A thread that spawns goes on without its turn; a process handed back is
\* dropped, which does not end it.
Abort(S) ==
  /\ pc' = [t \in Turns |-> IF t \in S THEN "idle" ELSE pc[t]]
  /\ startLock' = startLock \ S
  /\ detached' = detached + Cardinality({t \in S : pc[t] = "spawn"})
  /\ orphans' = orphans \cup ({spawnedPid[t] : t \in S} \ {NoPid})
  /\ spawnedPid' = [t \in Turns |-> IF t \in S THEN NoPid ELSE spawnedPid[t]]
  /\ givenUp' = (givenUp \/ \E t \in S : pc[t] = "wait")

Deny(t) ==
  /\ main = "running" /\ Awaiting(t)
  /\ Count("aborts", MaxAborts)
  /\ Abort({t})
  /\ UNCHANGED <<procVars, using, child, tracked, unload, stopVars, cutOff, reused>>

SpawnDetached ==
  /\ detached > 0
  /\ detached' = detached - 1
  /\ \/ /\ Cardinality(Started) < MaxStarts
        /\ NewProcess
        /\ orphans' = orphans \cup {Cardinality(Started) + 1}
     \/ UNCHANGED <<proc, orphans>>
  /\ UNCHANGED <<foreign, loaded, turnVars, child, tracked, unload, stopVars, givenUp,
                 cutOff, reused, used>>

-----------------------------------------------------------------------------
(* Unloading: /ollama unload, and the end of the bot.                      *)

BeginUnload(u) == unload' = [unload EXCEPT ![u] = [left |-> tracked, asked |-> {}, on |-> TRUE]]

UnloadCommand ==
  /\ main = "running" /\ ~unload["command"].on
  /\ Count("unloads", MaxUnloads)
  /\ BeginUnload("command")
  /\ UNCHANGED <<procVars, turnVars, detached, child, tracked, stopVars, history>>

\* The server drops the model, or says that it does not have it.
UnloadAsk(u, m) ==
  /\ unload[u].on /\ unload[u].asked = {} /\ m \in unload[u].left
  /\ PortOpen
  /\ loaded' = loaded \ {m}
  /\ unload' = [unload EXCEPT ![u].asked = {m}]
  /\ UNCHANGED <<foreign, proc, turnVars, detached, child, tracked, stopVars, history,
                 used>>

\* Mutant: an error is taken for "not loaded".
ForgetsOnError(u, m) ==
  /\ unload[u].on /\ m \in unload[u].left
  /\ unload[u].asked \subseteq {m}
  /\ tracked' = tracked \ {m}
  /\ unload' = [unload EXCEPT ![u].left = @ \ {m}, ![u].asked = {}]
  /\ UNCHANGED <<procVars, turnVars, detached, child, stopVars, history, used>>

\* No answer, or another error: the model stays tracked.
UnloadFails(u, m) ==
  /\ unload[u].on /\ m \in unload[u].left
  /\ unload[u].asked \subseteq {m}
  /\ unload' = [unload EXCEPT ![u].left = @ \ {m}, ![u].asked = {}]
  /\ UNCHANGED <<procVars, turnVars, detached, child, tracked, stopVars, history, used>>

UnloadForget(u, m) ==
  /\ unload[u].asked = {m}
  /\ tracked' = tracked \ {m}
  /\ unload' = [unload EXCEPT ![u].left = @ \ {m}, ![u].asked = {}]
  /\ reused' = IF m \in loaded \/ \E t \in Turns : pc[t] = "send" /\ using[t] = m
               THEN reused \cup {m} ELSE reused
  /\ UNCHANGED <<procVars, turnVars, detached, child, stopVars, orphans, givenUp, cutOff,
                 used>>

UnloadEnds(u) ==
  /\ unload[u].on /\ unload[u].left = {}
  /\ unload' = [unload EXCEPT ![u] = NoUnload]
  /\ UNCHANGED <<procVars, turnVars, detached, child, tracked, stopVars, history, used>>

-----------------------------------------------------------------------------
(* The end of the bot: workers are aborted and joined, then stop_started.  *)

StopWorkers ==
  /\ main = "running"
  /\ \A t \in Turns : pc[t] # "send"
  /\ main' = "joined"
  /\ Abort(Turns)
  /\ UNCHANGED <<procVars, using, child, tracked, unload, taken, cutOff, reused, used>>

TakeChild ==
  /\ main = "joined"
  /\ taken' = child
  /\ child' = NoPid
  /\ IF child = NoPid
     THEN main' = "exited" /\ UNCHANGED unload
     ELSE main' = "unloading" /\ BeginUnload("shutdown")
  /\ UNCHANGED <<procVars, turnVars, detached, tracked, history, used>>

\* SIGTERM, and SIGKILL two seconds later.
StopChild ==
  /\ main = "unloading" /\ ~unload["shutdown"].on
  /\ proc' = Stopped(taken)
  /\ loaded' = LoadedWith(Stopped(taken))
  /\ taken' = NoPid
  /\ main' = "exited"
  /\ UNCHANGED <<foreign, turnVars, detached, child, tracked, unload, history, used>>

-----------------------------------------------------------------------------
(* The environment.                                                        *)

\* A process binds the port, or finds it taken and ends.
Bind(p) ==
  /\ proc[p] = "starting"
  /\ proc' = [proc EXCEPT ![p] = IF PortOpen THEN "gone" ELSE "serving"]
  /\ UNCHANGED <<foreign, loaded, turnVars, detached, child, tracked, unload, stopVars,
                 history, used>>

\* A process ends by itself.
Ends(p) ==
  /\ p \in Live
  /\ Count("changes", MaxChanges)
  /\ proc' = Stopped(p)
  /\ loaded' = LoadedWith(Stopped(p))
  /\ UNCHANGED <<foreign, turnVars, detached, child, tracked, unload, stopVars, history>>

\* The user starts or stops an Ollama of their own.
UserOllama ==
  /\ foreign \/ ~PortOpen
  /\ Count("changes", MaxChanges)
  /\ foreign' = ~foreign
  /\ loaded' = {}
  /\ UNCHANGED <<proc, turnVars, detached, child, tracked, unload, stopVars, history>>

-----------------------------------------------------------------------------
TurnStep(t) ==
  \/ Probe(t) \/ LockStart(t) \/ Reprobe(t) \/ Spawn(t) \/ SpawnFails(t) \/ Register(t)
  \/ WaitReady(t) \/ WaitExpires(t) \/ Remember(t) \/ PrepareFails(t) \/ Send(t)
  \/ Answered(t)

UnloadStep(u) ==
  \/ \E m \in Models : UnloadAsk(u, m) \/ UnloadFails(u, m) \/ UnloadForget(u, m)
  \/ UnloadEnds(u)

Next ==
  \/ \E t \in Turns : Begin(t) \/ TurnStep(t) \/ Deny(t)
  \/ SpawnDetached \/ UnloadCommand
  \/ \E u \in Unloaders : UnloadStep(u)
  \/ StopWorkers \/ TakeChild \/ StopChild
  \/ \E p \in Pids : Bind(p) \/ Ends(p)
  \/ UserOllama

Spec == Init /\ [][Next]_vars

\* Tasks and blocking threads are scheduled; a tokio mutex serves its waiters
\* in order, so that none waits for a lock that is free again and again.
FairSpec ==
  /\ Spec
  /\ \A t \in Turns : WF_vars(TurnStep(t)) /\ SF_vars(LockStart(t))
  /\ \A u \in Unloaders : WF_vars(UnloadStep(u))
  /\ WF_vars(SpawnDetached)

-----------------------------------------------------------------------------
\* Every variable stays in its domain.
TypeOK ==
  /\ foreign \in BOOLEAN
  /\ proc \in [Pids -> {"none", "starting", "serving", "gone"}]
  /\ loaded \subseteq Models
  /\ pc \in [Turns -> Places]
  /\ using \in [Turns -> Models]
  /\ spawnedPid \in [Turns -> Pids \cup {NoPid}]
  /\ detached \in Nat
  /\ startLock \subseteq Turns
  /\ child \in Pids \cup {NoPid}
  /\ tracked \subseteq Models
  /\ unload \in [Unloaders -> [left : SUBSET Models, asked : SUBSET Models, on : BOOLEAN]]
  /\ main \in {"running", "joined", "unloading", "exited"}
  /\ taken \in Pids \cup {NoPid}
  /\ orphans \subseteq Pids /\ givenUp \in BOOLEAN /\ cutOff \subseteq Pids
  /\ reused \subseteq Models
  /\ used \in [{"turns", "aborts", "unloads", "changes"} -> Nat]

\* Every running process that tellm started is in CHILD, or in the hands of the
\* code that puts it there or stops it, unless its turn was aborted while the
\* process was being spawned.  So nothing else outlives the bot.
EveryChildIsKnown ==
  \A p \in Live \ orphans : p \in {child, taken} \cup {spawnedPid[t] : t \in Turns}

\* No turn takes the server away from another: a child that serves is replaced
\* only if some turn stopped waiting for the process it had started, which then
\* became ready after the next turn had looked.
ServerIsReplacedOnlyIfSlow == cutOff # {} => givenUp

\* Every model in memory is one that tellm will ask the server to unload, also
\* after the turn that used it was aborted; the exception is a model that was
\* used while an unload of it waited for its answer, which is then forgotten.
\* (A server of the user's may hold models of others; only models that a turn
\* asked for are in "loaded".)
LoadedIsTracked == loaded \subseteq tracked \cup reused

\* README.md: "If tellm started that Ollama process, it stops it again during
\* tellm shutdown".  It does not if the turn was aborted during the spawn.
NothingIsLeftRunning == main = "exited" => Live = {}

\* A turn that needs the endpoint goes on or fails, whatever the process, the
\* other turns and the aborts do.
EveryTurnEnds == \A t \in Turns : pc[t] # "idle" ~> pc[t] = "idle"

=============================================================================
