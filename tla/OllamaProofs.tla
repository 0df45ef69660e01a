---------------------------- MODULE OllamaProofs ----------------------------
(***************************************************************************)
(* Proofs about Ollama, for every set of turns and models and every bound:   *)
(* which processes are known, when a server is replaced, and which models     *)
(* are tracked.                                                               *)
(***************************************************************************)
EXTENDS Ollama, FiniteSetTheorems, TLAPS

-----------------------------------------------------------------------------
(* The inductive invariant.                                                 *)

\* START_LOCK has one holder at most: a turn that looks again, starts the server
\* or waits for it.
OneStarter ==
  /\ \A t \in Turns : t \in startLock <=> pc[t] \in {"reprobe", "spawn", "spawned", "wait"}
  /\ \A s, t \in startLock : s = t

\* Processes are numbered in the order of their start.
StartedInOrder == \E n \in 0 .. MaxStarts : Started = 1 .. n

\* A process is in a turn's hands just before the turn registers it, and in those
\* of stop_started only while the bot ends.
HandsAreShort ==
  /\ \A t \in Turns : spawnedPid[t] # NoPid <=> pc[t] = "spawned"
  /\ taken # NoPid => main = "unloading"

\* Whatever is in anybody's hands was started.
Hands == {child, taken} \cup {spawnedPid[t] : t \in Turns}
HandsHoldProcesses == Hands \subseteq Started \cup {NoPid}

\* A turn waits for a child that is starting, or some turn has given up; and the
\* turn that starts another one saw that the child did not serve.
ChildIsAwaited ==
  child # NoPid /\ ~givenUp =>
    /\ proc[child] = "starting" => \E t \in Turns : pc[t] = "wait"
    /\ proc[child] = "serving" => \A t \in Turns : pc[t] \notin {"spawn", "spawned"}

\* A turn asks only about a model that is tracked by then.
AskedIsTracked == \A t \in Turns : pc[t] = "send" => using[t] \in tracked \cup reused

IInv ==
  /\ TypeOK
  /\ OneStarter
  /\ StartedInOrder
  /\ HandsAreShort
  /\ HandsHoldProcesses
  /\ EveryChildIsKnown
  /\ ChildIsAwaited
  /\ ServerIsReplacedOnlyIfSlow
  /\ AskedIsTracked
  /\ LoadedIsTracked

-----------------------------------------------------------------------------
(* Operators.                                                               *)

LEMMA NumberOfStarted ==
  ASSUME StartedInOrder
  PROVE  Cardinality(Started) \in Nat /\ Started = 1 .. Cardinality(Started)
<1>1. PICK n \in 0 .. MaxStarts : Started = 1 .. n
  BY DEF StartedInOrder
<1>2. n \in Nat
  BY <1>1, OllamaConstants
<1>3. Cardinality(1 .. n) = IF 1 > n THEN 0 ELSE n - 1 + 1
  BY <1>2, FS_Interval
<1>4. Cardinality(1 .. n) = n
  BY <1>2, <1>3
<1> QED
  BY <1>1, <1>2, <1>4

\* A new process gets the next number, which no process has had.
LEMMA NewProcessIs ==
  ASSUME TypeOK, StartedInOrder, Cardinality(Started) < MaxStarts, NewProcess
  PROVE  LET p == Cardinality(Started) + 1
         IN  /\ p \in Pids /\ p # NoPid /\ proc[p] = "none"
             /\ proc' = [proc EXCEPT ![p] = "starting"]
             /\ proc' \in [Pids -> {"none", "starting", "serving", "gone"}]
             /\ Live' = Live \cup {p}
             /\ StartedInOrder'
<1> DEFINE n == Cardinality(Started)
<1>1. n \in Nat /\ Started = 1 .. n
  BY NumberOfStarted
<1>2. n + 1 \in Pids /\ n + 1 # NoPid /\ n + 1 \notin Started
  BY <1>1, OllamaConstants DEF Pids, NoPid
<1>3. proc[n + 1] = "none"
  BY <1>2 DEF Started
<1>4. proc' = [proc EXCEPT ![n + 1] = "starting"]
  BY DEF NewProcess
<1>5. proc' \in [Pids -> {"none", "starting", "serving", "gone"}]
  BY <1>4 DEF TypeOK
<1>6. Live' = Live \cup {n + 1}
  BY <1>2, <1>4 DEF Live, TypeOK
<1>7. Started' = Started \cup {n + 1}
  BY <1>2, <1>4 DEF Started, TypeOK
<1>8. Started' = 1 .. (n + 1)
  BY <1>1, <1>7
<1>9. n + 1 \in 0 .. MaxStarts
  BY <1>1, OllamaConstants
<1>10. StartedInOrder'
  BY <1>8, <1>9 DEF StartedInOrder
<1> QED
  BY <1>2, <1>3, <1>4, <1>5, <1>6, <1>10

\* Whatever is stopped no longer lives; the others stay as they are.
LEMMA StoppedIs ==
  ASSUME TypeOK, NEW p \in Pids \cup {NoPid}, proc' = Stopped(p)
  PROVE  /\ proc' \in [Pids -> {"none", "starting", "serving", "gone"}]
         /\ Live' = Live \ {p}
         /\ Started' = Started
         /\ \A q \in Pids : proc'[q] = proc[q] \/ proc'[q] = "gone"
BY DEF TypeOK, Stopped, Live, Started, Pids, NoPid

LEMMA CountType ==
  ASSUME TypeOK, NEW event \in {"turns", "aborts", "unloads", "changes"}, NEW bound,
         Count(event, bound)
  PROVE  used' \in [{"turns", "aborts", "unloads", "changes"} -> Nat]
BY DEF TypeOK, Count

\* Tasks that are aborted are idle and hold nothing; what they had started is theirs
\* no more.
LEMMA AbortIs ==
  ASSUME TypeOK, OneStarter, NEW S \in SUBSET Turns, Abort(S)
  PROVE  /\ pc' = [t \in Turns |-> IF t \in S THEN "idle" ELSE pc[t]]
         /\ pc' \in [Turns -> Places]
         /\ startLock' = startLock \ S
         /\ spawnedPid' = [t \in Turns |-> IF t \in S THEN NoPid ELSE spawnedPid[t]]
         /\ spawnedPid' \in [Turns -> Pids \cup {NoPid}]
         /\ orphans' = orphans \cup ({spawnedPid[t] : t \in S} \ {NoPid})
         /\ orphans' \subseteq Pids
         /\ detached' \in Nat
         /\ givenUp' \in BOOLEAN
         /\ givenUp \/ (\E t \in S : pc[t] = "wait") => givenUp'
<1> DEFINE spawning == {t \in S : pc[t] = "spawn"}
<1>1. \A s, t \in spawning : s = t
  BY DEF OneStarter
<1>2. spawning = {} \/ \E t \in spawning : spawning = {t}
  BY <1>1
<1>3. detached' = detached + Cardinality(spawning)
  BY DEF Abort
<1> HIDE DEF spawning
<1>4. Cardinality(spawning) \in Nat
  <2>1. CASE spawning = {}
    BY <2>1, FS_EmptySet
  <2>2. ASSUME NEW t \in spawning, spawning = {t}
        PROVE  Cardinality(spawning) \in Nat
    <3>1. Cardinality({t}) = 1
      BY FS_Singleton
    <3> QED
      BY <2>2, <3>1
  <2> QED
    BY <1>2, <2>1, <2>2
<1>5. detached' \in Nat
  BY <1>3, <1>4 DEF TypeOK
<1>6. /\ pc' = [t \in Turns |-> IF t \in S THEN "idle" ELSE pc[t]]
      /\ startLock' = startLock \ S
      /\ spawnedPid' = [t \in Turns |-> IF t \in S THEN NoPid ELSE spawnedPid[t]]
      /\ orphans' = orphans \cup ({spawnedPid[t] : t \in S} \ {NoPid})
      /\ givenUp' = (givenUp \/ \E t \in S : pc[t] = "wait")
  BY DEF Abort
<1>7. pc' \in [Turns -> Places] /\ spawnedPid' \in [Turns -> Pids \cup {NoPid}]
  BY <1>6 DEF TypeOK, Places
<1>8. orphans' \subseteq Pids
  BY <1>6 DEF TypeOK
<1>9. givenUp' \in BOOLEAN /\ (givenUp \/ (\E t \in S : pc[t] = "wait") => givenUp')
  BY <1>6
<1> QED
  BY <1>5, <1>6, <1>7, <1>8, <1>9

-----------------------------------------------------------------------------
(* The type of the state.                                                   *)

LEMMA TypeInit == Init => TypeOK
<1> SUFFICES ASSUME Init
             PROVE  TypeOK
  OBVIOUS
<1>1. unload \in [Unloaders -> [left : SUBSET Models, asked : SUBSET Models, on : BOOLEAN]]
  BY DEF Init, NoUnload
<1>2. used \in [{"turns", "aborts", "unloads", "changes"} -> Nat]
  BY DEF Init
<1> QED
  BY <1>1, <1>2 DEF Init, TypeOK, Places, NoPid

LEMMA TypeStep == TypeOK /\ OneStarter /\ StartedInOrder /\ [Next]_vars => TypeOK'
<1> SUFFICES ASSUME TypeOK, OneStarter, StartedInOrder, [Next]_vars
             PROVE  TypeOK'
  OBVIOUS
<1> USE DEF procVars, turnVars, stopVars, history
<1>1. ASSUME NEW t \in Turns, Begin(t)
      PROVE  TypeOK'
  <2>1. used' \in [{"turns", "aborts", "unloads", "changes"} -> Nat]
    BY <1>1, CountType DEF Begin
  <2> QED
    BY <1>1, <2>1 DEF Begin, Goto, TypeOK, Places
<1>2. ASSUME NEW t \in Turns, Probe(t) \/ LockStart(t) \/ Reprobe(t) \/ SpawnFails(t)
      PROVE  TypeOK'
  BY <1>2 DEF Probe, LockStart, Reprobe, AfterReprobe, SpawnFails, Goto, Leave, TypeOK, Places
<1>3. ASSUME NEW t \in Turns, Spawn(t)
      PROVE  TypeOK'
  <2>1. /\ proc' \in [Pids -> {"none", "starting", "serving", "gone"}]
        /\ Cardinality(Started) + 1 \in Pids
    BY <1>3, NewProcessIs DEF Spawn
  <2> QED
    BY <1>3, <2>1 DEF Spawn, Goto, TypeOK, Places
<1>4. ASSUME NEW t \in Turns, Register(t)
      PROVE  TypeOK'
  <2>1. proc' \in [Pids -> {"none", "starting", "serving", "gone"}]
    BY <1>4, StoppedIs DEF Register, ProcAfterRegister, TypeOK
  <2>2. loaded' \subseteq Models
    BY <1>4 DEF Register, LoadedWith, TypeOK
  <2>3. cutOff' \subseteq Pids
    BY <1>4 DEF Register, TypeOK
  <2> QED
    BY <1>4, <2>1, <2>2, <2>3 DEF Register, Goto, TypeOK, Places
<1>5. ASSUME NEW t \in Turns, WaitReady(t) \/ WaitExpires(t)
      PROVE  TypeOK'
  BY <1>5 DEF WaitReady, WaitExpires, Goto, Leave, TypeOK, Places
<1>6. ASSUME NEW t \in Turns, Remember(t) \/ PrepareFails(t) \/ Send(t) \/ Answered(t)
      PROVE  TypeOK'
  BY <1>6 DEF Remember, PrepareFails, Send, Answered, Goto, TypeOK, Places
<1>7. ASSUME NEW t \in Turns, Deny(t)
      PROVE  TypeOK'
  <2>1. used' \in [{"turns", "aborts", "unloads", "changes"} -> Nat]
    BY <1>7, CountType DEF Deny
  <2>2. {t} \in SUBSET Turns /\ Abort({t})
    BY <1>7 DEF Deny
  <2> QED
    BY <1>7, <2>1, <2>2, AbortIs DEF Deny, TypeOK
<1>8. ASSUME SpawnDetached
      PROVE  TypeOK'
  <2>1. detached' \in Nat
    BY <1>8 DEF SpawnDetached, TypeOK
  <2>2. proc' \in [Pids -> {"none", "starting", "serving", "gone"}] /\ orphans' \subseteq Pids
    BY <1>8, NewProcessIs DEF SpawnDetached, TypeOK
  <2> QED
    BY <1>8, <2>1, <2>2 DEF SpawnDetached, TypeOK
<1>9. ASSUME UnloadCommand
      PROVE  TypeOK'
  <2>1. used' \in [{"turns", "aborts", "unloads", "changes"} -> Nat]
    BY <1>9, CountType DEF UnloadCommand
  <2> QED
    BY <1>9, <2>1 DEF UnloadCommand, BeginUnload, Unloaders, TypeOK
<1>10. ASSUME NEW u \in Unloaders, UnloadStep(u)
       PROVE  TypeOK'
  <2>1. /\ unload' \in [Unloaders -> [left : SUBSET Models, asked : SUBSET Models, on : BOOLEAN]]
        /\ loaded' \subseteq Models /\ tracked' \subseteq Models /\ reused' \subseteq Models
    <3>1. ASSUME NEW m \in Models, UnloadAsk(u, m)
          PROVE  <2>1!:
      BY <3>1 DEF UnloadAsk, TypeOK
    <3>2. ASSUME NEW m \in Models, UnloadFails(u, m)
          PROVE  <2>1!:
      BY <3>2 DEF UnloadFails, TypeOK
    <3>3. ASSUME NEW m \in Models, UnloadForget(u, m)
          PROVE  <2>1!:
      BY <3>3 DEF UnloadForget, TypeOK
    <3>4. CASE UnloadEnds(u)
      BY <3>4 DEF UnloadEnds, NoUnload, TypeOK
    <3> QED
      BY <1>10, <3>1, <3>2, <3>3, <3>4 DEF UnloadStep
  <2> QED
    BY <1>10, <2>1 DEF UnloadStep, UnloadAsk, UnloadFails, UnloadForget, UnloadEnds, TypeOK
<1>11. ASSUME StopWorkers
       PROVE  TypeOK'
  <2>1. Turns \in SUBSET Turns /\ Abort(Turns)
    BY <1>11 DEF StopWorkers
  <2> QED
    BY <1>11, <2>1, AbortIs DEF StopWorkers, TypeOK
<1>12. ASSUME TakeChild
       PROVE  TypeOK'
  <2>1. unload' \in [Unloaders -> [left : SUBSET Models, asked : SUBSET Models, on : BOOLEAN]]
    <3>1. CASE unload' = unload
      BY <3>1 DEF TypeOK
    <3>2. CASE BeginUnload("shutdown")
      BY <3>2 DEF BeginUnload, TypeOK
    <3> QED
      BY <1>12, <3>1, <3>2 DEF TakeChild
  <2> QED
    BY <1>12, <2>1 DEF TakeChild, NoPid, TypeOK
<1>13. ASSUME StopChild
       PROVE  TypeOK'
  <2>1. proc' \in [Pids -> {"none", "starting", "serving", "gone"}]
    BY <1>13, StoppedIs DEF StopChild, TypeOK
  <2>2. loaded' \subseteq Models
    BY <1>13 DEF StopChild, LoadedWith, TypeOK
  <2> QED
    BY <1>13, <2>1, <2>2 DEF StopChild, TypeOK
<1>14. ASSUME NEW p \in Pids, Bind(p)
       PROVE  TypeOK'
  BY <1>14 DEF Bind, TypeOK
<1>15. ASSUME NEW p \in Pids, Ends(p)
       PROVE  TypeOK'
  <2>1. used' \in [{"turns", "aborts", "unloads", "changes"} -> Nat]
    BY <1>15, CountType DEF Ends
  <2>2. proc' \in [Pids -> {"none", "starting", "serving", "gone"}]
    BY <1>15, StoppedIs DEF Ends
  <2>3. loaded' \subseteq Models
    BY <1>15 DEF Ends, LoadedWith, TypeOK
  <2> QED
    BY <1>15, <2>1, <2>2, <2>3 DEF Ends, TypeOK
<1>16. ASSUME UserOllama
       PROVE  TypeOK'
  <2>1. used' \in [{"turns", "aborts", "unloads", "changes"} -> Nat]
    BY <1>16, CountType DEF UserOllama
  <2> QED
    BY <1>16, <2>1 DEF UserOllama, TypeOK
<1>17. CASE UNCHANGED vars
  BY <1>17 DEF vars, TypeOK
<1> QED
  BY <1>1, <1>2, <1>3, <1>4, <1>5, <1>6, <1>7, <1>8, <1>9, <1>10, <1>11, <1>12, <1>13, <1>14,
     <1>15, <1>16, <1>17 DEF Next, TurnStep

-----------------------------------------------------------------------------
(* START_LOCK, the numbers of the processes, and whose hands they are in.    *)

\* In which places a turn that takes a step of its own holds START_LOCK.
LEMMA StarterStep == TypeOK /\ OneStarter /\ [Next]_vars => OneStarter'
<1> SUFFICES ASSUME TypeOK, OneStarter, [Next]_vars
             PROVE  OneStarter'
  OBVIOUS
<1>1. ASSUME NEW t \in Turns, Begin(t) \/ Probe(t) \/ Spawn(t) \/ Register(t) \/ Remember(t)
                              \/ PrepareFails(t) \/ Send(t) \/ Answered(t)
      PROVE  OneStarter'
  BY <1>1 DEF Begin, Probe, Spawn, Register, Remember, PrepareFails, Send, Answered, Goto,
     OneStarter, TypeOK, Places
<1>2. ASSUME NEW t \in Turns, LockStart(t)
      PROVE  OneStarter'
  BY <1>2 DEF LockStart, Goto, OneStarter, TypeOK, Places
<1>3. ASSUME NEW t \in Turns, Reprobe(t) \/ SpawnFails(t) \/ WaitReady(t) \/ WaitExpires(t)
      PROVE  OneStarter'
  BY <1>3 DEF Reprobe, AfterReprobe, SpawnFails, WaitReady, WaitExpires, Goto, Leave,
     OneStarter, TypeOK, Places
<1>4. ASSUME NEW S \in SUBSET Turns, Abort(S)
      PROVE  OneStarter'
  BY <1>4, AbortIs DEF OneStarter
<1>5. CASE UNCHANGED <<pc, startLock>>
  BY <1>5 DEF OneStarter
<1>6. ASSUME NEW t \in Turns, Deny(t)
      PROVE  OneStarter'
  BY <1>4, <1>6 DEF Deny
<1>7. CASE StopWorkers
  BY <1>4, <1>7 DEF StopWorkers
<1>8. CASE SpawnDetached \/ UnloadCommand \/ TakeChild \/ StopChild \/ UserOllama
  BY <1>5, <1>8 DEF SpawnDetached, UnloadCommand, TakeChild, StopChild, UserOllama, turnVars
<1>9. ASSUME NEW u \in Unloaders, UnloadStep(u)
      PROVE  OneStarter'
  BY <1>5, <1>9 DEF UnloadStep, UnloadAsk, UnloadFails, UnloadForget, UnloadEnds, turnVars
<1>10. ASSUME NEW p \in Pids, Bind(p) \/ Ends(p)
       PROVE  OneStarter'
  BY <1>5, <1>10 DEF Bind, Ends, turnVars
<1>11. CASE UNCHANGED vars
  BY <1>5, <1>11 DEF vars, turnVars
<1> QED
  BY <1>1, <1>2, <1>3, <1>6, <1>7, <1>8, <1>9, <1>10, <1>11 DEF Next, TurnStep

LEMMA StartedStep == TypeOK /\ StartedInOrder /\ [Next]_vars => StartedInOrder'
<1> SUFFICES ASSUME TypeOK, StartedInOrder, [Next]_vars
             PROVE  StartedInOrder'
  OBVIOUS
<1>1. CASE Started' = Started
  BY <1>1 DEF StartedInOrder
<1>2. CASE UNCHANGED proc
  BY <1>1, <1>2 DEF Started
<1>3. ASSUME NEW t \in Turns, Spawn(t)
      PROVE  StartedInOrder'
  BY <1>3, NewProcessIs DEF Spawn
<1>4. ASSUME NEW t \in Turns, Register(t)
      PROVE  StartedInOrder'
  <2>1. CASE proc' = Stopped(child)
    BY <1>1, <2>1, StoppedIs DEF TypeOK
  <2> QED
    BY <1>2, <1>4, <2>1 DEF Register, ProcAfterRegister
<1>5. ASSUME NEW t \in Turns, Begin(t) \/ Probe(t) \/ LockStart(t) \/ Reprobe(t) \/ SpawnFails(t)
                              \/ WaitReady(t) \/ WaitExpires(t) \/ Remember(t) \/ PrepareFails(t)
                              \/ Send(t) \/ Answered(t) \/ Deny(t)
      PROVE  StartedInOrder'
  BY <1>2, <1>5 DEF Begin, Probe, LockStart, Reprobe, SpawnFails, WaitReady, WaitExpires,
     Remember, PrepareFails, Send, Answered, Deny, procVars
<1>6. CASE SpawnDetached
  BY <1>2, <1>6, NewProcessIs DEF SpawnDetached
<1>7. CASE UnloadCommand \/ TakeChild \/ UserOllama \/ StopWorkers
  BY <1>2, <1>7 DEF UnloadCommand, TakeChild, UserOllama, StopWorkers, procVars
<1>8. ASSUME NEW u \in Unloaders, UnloadStep(u)
      PROVE  StartedInOrder'
  BY <1>2, <1>8 DEF UnloadStep, UnloadAsk, UnloadFails, UnloadForget, UnloadEnds, procVars
<1>9. CASE StopChild
  BY <1>1, <1>9, StoppedIs DEF StopChild, TypeOK
<1>10. ASSUME NEW p \in Pids, Bind(p) \/ Ends(p)
       PROVE  StartedInOrder'
  <2>1. CASE Bind(p)
    <3>1. Started' = Started
      BY <2>1 DEF Bind, Started, TypeOK
    <3> QED
      BY <1>1, <3>1
  <2>2. CASE Ends(p)
    BY <1>1, <2>2, StoppedIs DEF Ends
  <2> QED
    BY <1>10, <2>1, <2>2
<1>11. CASE UNCHANGED vars
  BY <1>2, <1>11 DEF vars, procVars
<1> QED
  BY <1>3, <1>4, <1>5, <1>6, <1>7, <1>8, <1>9, <1>10, <1>11 DEF Next, TurnStep

LEMMA HandsStep ==
  TypeOK /\ OneStarter /\ StartedInOrder /\ HandsAreShort /\ [Next]_vars => HandsAreShort'
<1> SUFFICES ASSUME TypeOK, OneStarter, StartedInOrder, HandsAreShort, [Next]_vars
             PROVE  HandsAreShort'
  OBVIOUS
<1> USE DEF stopVars, turnVars
<1>1. ASSUME NEW t \in Turns, Begin(t) \/ Probe(t) \/ LockStart(t) \/ Reprobe(t) \/ SpawnFails(t)
                              \/ Register(t) \/ WaitReady(t) \/ WaitExpires(t) \/ Remember(t)
                              \/ PrepareFails(t) \/ Send(t) \/ Answered(t)
      PROVE  HandsAreShort'
  BY <1>1 DEF Begin, Probe, LockStart, Reprobe, AfterReprobe, SpawnFails, Register, WaitReady,
     WaitExpires, Remember, PrepareFails, Send, Answered, Goto, HandsAreShort, TypeOK, Places
<1>2. ASSUME NEW t \in Turns, Spawn(t)
      PROVE  HandsAreShort'
  <2>1. Cardinality(Started) + 1 # NoPid
    BY <1>2, NewProcessIs DEF Spawn
  <2> QED
    BY <1>2, <2>1 DEF Spawn, Goto, HandsAreShort, TypeOK, Places
<1>3. ASSUME NEW t \in Turns, Deny(t)
      PROVE  HandsAreShort'
  <2>1. {t} \in SUBSET Turns /\ Abort({t})
    BY <1>3 DEF Deny
  <2> QED
    BY <1>3, <2>1, AbortIs DEF Deny, HandsAreShort
<1>4. CASE StopWorkers
  <2>1. Turns \in SUBSET Turns /\ Abort(Turns)
    BY <1>4 DEF StopWorkers
  <2>2. pc' = [t \in Turns |-> "idle"] /\ spawnedPid' = [t \in Turns |-> NoPid]
    BY <2>1, AbortIs
  <2>3. taken' = taken /\ main = "running"
    BY <1>4 DEF StopWorkers
  <2> QED
    BY <2>2, <2>3 DEF HandsAreShort
<1>5. CASE TakeChild
  BY <1>5 DEF TakeChild, HandsAreShort
<1>6. CASE StopChild
  BY <1>6 DEF StopChild, HandsAreShort
<1>7. CASE UNCHANGED <<pc, spawnedPid, main, taken>>
  BY <1>7 DEF HandsAreShort
<1>8. CASE SpawnDetached \/ UnloadCommand \/ UserOllama
  BY <1>7, <1>8 DEF SpawnDetached, UnloadCommand, UserOllama
<1>9. ASSUME NEW u \in Unloaders, UnloadStep(u)
      PROVE  HandsAreShort'
  BY <1>7, <1>9 DEF UnloadStep, UnloadAsk, UnloadFails, UnloadForget, UnloadEnds
<1>10. ASSUME NEW p \in Pids, Bind(p) \/ Ends(p)
       PROVE  HandsAreShort'
  BY <1>7, <1>10 DEF Bind, Ends
<1>11. CASE UNCHANGED vars
  BY <1>7, <1>11 DEF vars
<1> QED
  BY <1>1, <1>2, <1>3, <1>4, <1>5, <1>6, <1>8, <1>9, <1>10, <1>11 DEF Next, TurnStep

-----------------------------------------------------------------------------
(* The processes.                                                           *)

\* What has no hands to be in after the step was in none before, does not live any
\* more, or is an orphan.
LEMMA KnownStep ==
  /\ TypeOK /\ OneStarter /\ StartedInOrder /\ HandsAreShort /\ EveryChildIsKnown
  /\ [Next]_vars
  => EveryChildIsKnown'
<1> SUFFICES ASSUME TypeOK, OneStarter, StartedInOrder, HandsAreShort, EveryChildIsKnown,
                    [Next]_vars
             PROVE  EveryChildIsKnown'
  OBVIOUS
<1> USE DEF procVars, stopVars, turnVars, history
<1>1. \A p \in Live \ orphans : p \in Hands
  BY DEF EveryChildIsKnown, Hands
<1>2. SUFFICES \A p \in Live' \ orphans' : p \in Hands'
  BY DEF EveryChildIsKnown, Hands
<1>3. CASE /\ Live' \subseteq Live /\ orphans \subseteq orphans'
           /\ UNCHANGED <<child, taken, spawnedPid>>
  BY <1>1, <1>3 DEF Hands
<1>4. CASE UNCHANGED <<proc, orphans, child, taken, spawnedPid>>
  BY <1>1, <1>4 DEF Hands, Live
<1>5. ASSUME NEW t \in Turns, Begin(t) \/ Probe(t) \/ LockStart(t) \/ Reprobe(t) \/ SpawnFails(t)
                              \/ WaitReady(t) \/ WaitExpires(t) \/ Remember(t) \/ PrepareFails(t)
                              \/ Send(t) \/ Answered(t)
      PROVE  \A p \in Live' \ orphans' : p \in Hands'
  BY <1>4, <1>5 DEF Begin, Probe, LockStart, Reprobe, SpawnFails, WaitReady, WaitExpires,
     Remember, PrepareFails, Send, Answered
<1>6. ASSUME NEW t \in Turns, Spawn(t)
      PROVE  \A p \in Live' \ orphans' : p \in Hands'
  <2> DEFINE n == Cardinality(Started) + 1
  <2>1. Live' = Live \cup {n}
    BY <1>6, NewProcessIs DEF Spawn
  <2>2. spawnedPid' = [spawnedPid EXCEPT ![t] = n] /\ UNCHANGED <<child, taken, orphans>>
    BY <1>6 DEF Spawn
  <2>3. spawnedPid[t] = NoPid
    BY <1>6 DEF Spawn, HandsAreShort
  <2>4. NoPid \notin Live
    BY DEF Live, Pids, NoPid
  <2> HIDE DEF n
  <2>5. spawnedPid'[t] = n /\ \A s \in Turns : s # t => spawnedPid'[s] = spawnedPid[s]
    BY <2>2 DEF TypeOK
  <2> QED
    BY <1>1, <2>1, <2>2, <2>3, <2>4, <2>5 DEF Hands
<1>7. ASSUME NEW t \in Turns, Register(t)
      PROVE  \A p \in Live' \ orphans' : p \in Hands'
  <2>1. Live' \subseteq Live \ {child}
    <3>1. CASE child = NoPid
      BY <1>7, <3>1 DEF Register, ProcAfterRegister, Live, Pids, NoPid
    <3>2. CASE child # NoPid
      <4>1. proc' = Stopped(child)
        BY <1>7, <3>2 DEF Register, ProcAfterRegister
      <4> QED
        BY <4>1, StoppedIs DEF TypeOK
    <3> QED
      BY <3>1, <3>2
  <2>2. /\ child' = spawnedPid[t] /\ UNCHANGED <<taken, orphans>>
        /\ \A s \in Turns : s # t => spawnedPid'[s] = spawnedPid[s]
    BY <1>7 DEF Register, TypeOK
  <2> QED
    BY <1>1, <2>1, <2>2 DEF Hands
<1>8. ASSUME NEW S \in SUBSET Turns, Abort(S), UNCHANGED <<proc, child, taken>>
      PROVE  \A p \in Live' \ orphans' : p \in Hands'
  <2>1. /\ spawnedPid' = [t \in Turns |-> IF t \in S THEN NoPid ELSE spawnedPid[t]]
        /\ orphans' = orphans \cup ({spawnedPid[t] : t \in S} \ {NoPid})
    BY <1>8, AbortIs
  <2>2. Live' = Live /\ NoPid \notin Live
    BY <1>8 DEF Live, Pids, NoPid
  <2> QED
    BY <1>1, <1>8, <2>1, <2>2 DEF Hands
<1>9. ASSUME NEW t \in Turns, Deny(t)
      PROVE  \A p \in Live' \ orphans' : p \in Hands'
  BY <1>8, <1>9 DEF Deny
<1>10. CASE StopWorkers
  BY <1>8, <1>10 DEF StopWorkers
<1>11. CASE SpawnDetached
  <2>1. CASE UNCHANGED <<proc, orphans>>
    BY <1>4, <1>11, <2>1 DEF SpawnDetached
  <2>2. CASE /\ Cardinality(Started) < MaxStarts /\ NewProcess
             /\ orphans' = orphans \cup {Cardinality(Started) + 1}
    <3>1. Live' = Live \cup {Cardinality(Started) + 1}
      BY <2>2, NewProcessIs
    <3>2. UNCHANGED <<child, taken, spawnedPid>>
      BY <1>11 DEF SpawnDetached
    <3> QED
      BY <1>1, <2>2, <3>1, <3>2 DEF Hands
  <2> QED
    BY <1>11, <2>1, <2>2 DEF SpawnDetached
<1>12. CASE TakeChild
  <2>1. taken = NoPid
    BY <1>12 DEF TakeChild, HandsAreShort
  <2>2. taken' = child /\ Live' = Live /\ UNCHANGED <<orphans, spawnedPid>>
    BY <1>12 DEF TakeChild, Live
  <2>3. NoPid \notin Live
    BY DEF Live, Pids, NoPid
  <2> QED
    BY <1>1, <2>1, <2>2, <2>3 DEF Hands
<1>13. CASE StopChild
  <2>1. Live' = Live \ {taken}
    BY <1>13, StoppedIs DEF StopChild, TypeOK
  <2>2. UNCHANGED <<child, orphans, spawnedPid>>
    BY <1>13 DEF StopChild
  <2> QED
    BY <1>1, <2>1, <2>2 DEF Hands
<1>14. CASE UnloadCommand \/ UserOllama
  BY <1>4, <1>14 DEF UnloadCommand, UserOllama
<1>15. ASSUME NEW u \in Unloaders, UnloadStep(u)
       PROVE  \A p \in Live' \ orphans' : p \in Hands'
  BY <1>4, <1>15 DEF UnloadStep, UnloadAsk, UnloadFails, UnloadForget, UnloadEnds
<1>16. ASSUME NEW p \in Pids, Bind(p)
       PROVE  \A q \in Live' \ orphans' : q \in Hands'
  <2>1. Live' \subseteq Live
    BY <1>16 DEF Bind, Live, TypeOK
  <2> QED
    BY <1>3, <1>16, <2>1 DEF Bind
<1>17. ASSUME NEW p \in Pids, Ends(p)
       PROVE  \A q \in Live' \ orphans' : q \in Hands'
  <2>1. Live' \subseteq Live
    BY <1>17, StoppedIs DEF Ends
  <2> QED
    BY <1>3, <1>17, <2>1 DEF Ends
<1>18. CASE UNCHANGED vars
  BY <1>4, <1>18 DEF vars
<1> QED
  BY <1>5, <1>6, <1>7, <1>9, <1>10, <1>11, <1>12, <1>13, <1>14, <1>15, <1>16, <1>17, <1>18
     DEF Next, TurnStep

LEMMA HandsHoldStep ==
  TypeOK /\ OneStarter /\ StartedInOrder /\ HandsHoldProcesses /\ [Next]_vars => HandsHoldProcesses'
<1> SUFFICES ASSUME TypeOK, OneStarter, StartedInOrder, HandsHoldProcesses, [Next]_vars
             PROVE  HandsHoldProcesses'
  OBVIOUS
<1> USE DEF procVars, stopVars, turnVars, history
<1>1. CASE Started \subseteq Started' /\ Hands' \subseteq Hands \cup {NoPid}
  BY <1>1 DEF HandsHoldProcesses
<1>2. CASE UNCHANGED <<proc, child, taken, spawnedPid>>
  BY <1>1, <1>2 DEF Started, Hands
<1>3. ASSUME NEW t \in Turns, Begin(t) \/ Probe(t) \/ LockStart(t) \/ Reprobe(t) \/ SpawnFails(t)
                              \/ WaitReady(t) \/ WaitExpires(t) \/ Remember(t) \/ PrepareFails(t)
                              \/ Send(t) \/ Answered(t)
      PROVE  HandsHoldProcesses'
  BY <1>2, <1>3 DEF Begin, Probe, LockStart, Reprobe, SpawnFails, WaitReady, WaitExpires,
     Remember, PrepareFails, Send, Answered
<1>4. ASSUME Cardinality(Started) < MaxStarts, NewProcess
      PROVE  Started \subseteq Started'
  BY <1>4, NewProcessIs DEF Started, TypeOK
<1>5. ASSUME NEW t \in Turns, Spawn(t)
      PROVE  HandsHoldProcesses'
  <2> DEFINE n == Cardinality(Started) + 1
  <2>1. n \in Pids /\ proc' = [proc EXCEPT ![n] = "starting"]
    BY <1>5, NewProcessIs DEF Spawn
  <2>2. spawnedPid' = [spawnedPid EXCEPT ![t] = n] /\ UNCHANGED <<child, taken>>
    BY <1>5 DEF Spawn
  <2> HIDE DEF n
  <2>3. Started' = Started \cup {n}
    BY <2>1 DEF Started, TypeOK
  <2>4. Hands' \subseteq Hands \cup {n}
    BY <2>2 DEF Hands, TypeOK
  <2> QED
    BY <2>3, <2>4 DEF HandsHoldProcesses
<1>6. ASSUME NEW t \in Turns, Register(t)
      PROVE  HandsHoldProcesses'
  <2>1. Started' = Started
    <3>1. CASE proc' = Stopped(child)
      BY <3>1, StoppedIs DEF TypeOK
    <3> QED
      BY <1>6, <3>1 DEF Register, ProcAfterRegister, Started
  <2>2. Hands' \subseteq Hands \cup {NoPid}
    BY <1>6 DEF Register, Hands, TypeOK
  <2> QED
    BY <1>1, <2>1, <2>2
<1>7. ASSUME NEW S \in SUBSET Turns, Abort(S), UNCHANGED <<proc, child, taken>>
      PROVE  HandsHoldProcesses'
  <2>1. spawnedPid' = [t \in Turns |-> IF t \in S THEN NoPid ELSE spawnedPid[t]]
    BY <1>7, AbortIs
  <2> QED
    BY <1>1, <1>7, <2>1 DEF Hands, Started
<1>8. ASSUME NEW t \in Turns, Deny(t)
      PROVE  HandsHoldProcesses'
  BY <1>7, <1>8 DEF Deny
<1>9. CASE StopWorkers
  BY <1>7, <1>9 DEF StopWorkers
<1>10. CASE SpawnDetached
  <2>1. UNCHANGED <<child, taken, spawnedPid>>
    BY <1>10 DEF SpawnDetached
  <2>2. CASE UNCHANGED proc
    BY <1>2, <2>1, <2>2
  <2>3. CASE Cardinality(Started) < MaxStarts /\ NewProcess
    <3>1. Started \subseteq Started'
      BY <1>4, <2>3
    <3> QED
      BY <1>1, <2>1, <3>1 DEF Hands
  <2> QED
    BY <1>10, <2>2, <2>3 DEF SpawnDetached
<1>11. CASE TakeChild
  <2>1. Started' = Started /\ Hands' \subseteq Hands \cup {NoPid}
    BY <1>11 DEF TakeChild, Hands, Started
  <2> QED
    BY <1>1, <2>1
<1>12. CASE StopChild
  <2>1. Started' = Started
    BY <1>12, StoppedIs DEF StopChild, TypeOK
  <2>2. Hands' \subseteq Hands \cup {NoPid}
    BY <1>12 DEF StopChild, Hands
  <2> QED
    BY <1>1, <2>1, <2>2
<1>13. CASE UnloadCommand \/ UserOllama
  BY <1>2, <1>13 DEF UnloadCommand, UserOllama
<1>14. ASSUME NEW u \in Unloaders, UnloadStep(u)
       PROVE  HandsHoldProcesses'
  BY <1>2, <1>14 DEF UnloadStep, UnloadAsk, UnloadFails, UnloadForget, UnloadEnds
<1>15. ASSUME NEW p \in Pids, Bind(p) \/ Ends(p)
       PROVE  HandsHoldProcesses'
  <2>1. Started' = Started
    <3>1. CASE Bind(p)
      BY <3>1 DEF Bind, Started, TypeOK
    <3>2. CASE Ends(p)
      BY <3>2, StoppedIs DEF Ends
    <3> QED
      BY <1>15, <3>1, <3>2
  <2>2. UNCHANGED <<child, taken, spawnedPid>>
    BY <1>15 DEF Bind, Ends
  <2> QED
    BY <1>1, <2>1, <2>2 DEF Hands
<1>16. CASE UNCHANGED vars
  BY <1>2, <1>16 DEF vars
<1> QED
  BY <1>3, <1>5, <1>6, <1>8, <1>9, <1>10, <1>11, <1>12, <1>13, <1>14, <1>15, <1>16
     DEF Next, TurnStep

LEMMA AwaitedStep ==
  /\ TypeOK /\ OneStarter /\ StartedInOrder /\ HandsHoldProcesses /\ ChildIsAwaited
  /\ ServerIsReplacedOnlyIfSlow /\ [Next]_vars
  => ChildIsAwaited' /\ ServerIsReplacedOnlyIfSlow'
<1> SUFFICES ASSUME TypeOK, OneStarter, StartedInOrder, HandsHoldProcesses, ChildIsAwaited,
                    ServerIsReplacedOnlyIfSlow, [Next]_vars
             PROVE  ChildIsAwaited' /\ ServerIsReplacedOnlyIfSlow'
  OBVIOUS
<1> USE DEF procVars, stopVars, turnVars, history
<1>1. CASE UNCHANGED <<proc, child, givenUp, pc, cutOff>>
  BY <1>1 DEF ChildIsAwaited, ServerIsReplacedOnlyIfSlow
<1>2. ASSUME NEW t \in Turns, Begin(t) \/ Probe(t) \/ LockStart(t) \/ SpawnFails(t) \/ Remember(t)
                              \/ PrepareFails(t) \/ Send(t) \/ Answered(t)
      PROVE  ChildIsAwaited' /\ ServerIsReplacedOnlyIfSlow'
  <2>1. /\ UNCHANGED <<proc, child, givenUp, cutOff>> /\ pc[t] # "wait"
        /\ pc' = [pc EXCEPT ![t] = pc'[t]] /\ pc'[t] \notin {"spawn", "spawned"}
    BY <1>2 DEF Begin, Probe, LockStart, SpawnFails, Remember, PrepareFails, Send, Answered,
       Goto, TypeOK, Places
  <2> QED
    BY <2>1 DEF ChildIsAwaited, ServerIsReplacedOnlyIfSlow, TypeOK
<1>3. ASSUME NEW t \in Turns, Reprobe(t)
      PROVE  ChildIsAwaited' /\ ServerIsReplacedOnlyIfSlow'
  <2>1. UNCHANGED <<proc, child, givenUp, cutOff>> /\ pc[t] = "reprobe"
    BY <1>3 DEF Reprobe
  <2>2. pc' = [pc EXCEPT ![t] = IF PortOpen THEN "prepare" ELSE "spawn"]
    BY <1>3 DEF Reprobe, AfterReprobe, Goto
  <2>3. ~PortOpen => proc[child] # "serving" \/ child = NoPid
    BY DEF PortOpen, TypeOK
  <2> QED
    BY <2>1, <2>2, <2>3 DEF ChildIsAwaited, ServerIsReplacedOnlyIfSlow, TypeOK
<1>4. ASSUME NEW t \in Turns, Spawn(t)
      PROVE  ChildIsAwaited' /\ ServerIsReplacedOnlyIfSlow'
  <2> DEFINE n == Cardinality(Started) + 1
  <2>1. n \in Pids /\ proc[n] = "none" /\ proc' = [proc EXCEPT ![n] = "starting"]
    BY <1>4, NewProcessIs DEF Spawn
  <2> HIDE DEF n
  <2>2. UNCHANGED <<child, givenUp, cutOff>> /\ pc' = [pc EXCEPT ![t] = "spawned"]
        /\ pc[t] = "spawn"
    BY <1>4 DEF Spawn, Goto
  <2>3. child # n
    BY <2>1 DEF HandsHoldProcesses, Hands, Started, Pids, NoPid
  <2> QED
    BY <2>1, <2>2, <2>3 DEF ChildIsAwaited, ServerIsReplacedOnlyIfSlow, TypeOK
<1>5. ASSUME NEW t \in Turns, Register(t)
      PROVE  ChildIsAwaited' /\ ServerIsReplacedOnlyIfSlow'
  <2>1. pc[t] = "spawned" /\ pc' = [pc EXCEPT ![t] = "wait"] /\ givenUp' = givenUp
    BY <1>5 DEF Register, Goto
  <2>2. \A s \in Turns : s # t => pc[s] \notin {"spawn", "spawned"}
    BY <2>1 DEF OneStarter
  <2>3. ChildIsAwaited'
    BY <2>1, <2>2 DEF ChildIsAwaited, TypeOK
  <2>4. cutOff' = cutOff \/ (child # NoPid /\ proc[child] = "serving")
    BY <1>5 DEF Register
  <2> QED
    BY <2>1, <2>3, <2>4 DEF ChildIsAwaited, ServerIsReplacedOnlyIfSlow
<1>6. ASSUME NEW t \in Turns, WaitReady(t) \/ WaitExpires(t)
      PROVE  ChildIsAwaited' /\ ServerIsReplacedOnlyIfSlow'
  <2>1. /\ UNCHANGED <<proc, child, cutOff>>
        /\ pc' = [pc EXCEPT ![t] = pc'[t]] /\ pc'[t] \in {"prepare", "idle"}
        /\ givenUp \/ proc[child] = "starting" => givenUp'
    BY <1>6 DEF WaitReady, WaitExpires, Goto, TypeOK
  <2> QED
    BY <2>1 DEF ChildIsAwaited, ServerIsReplacedOnlyIfSlow, TypeOK
<1>7. ASSUME NEW S \in SUBSET Turns, Abort(S), UNCHANGED <<proc, child, cutOff>>
      PROVE  ChildIsAwaited' /\ ServerIsReplacedOnlyIfSlow'
  <2>1. /\ pc' = [t \in Turns |-> IF t \in S THEN "idle" ELSE pc[t]]
        /\ givenUp \/ (\E t \in S : pc[t] = "wait") => givenUp'
    BY <1>7, AbortIs
  <2> QED
    BY <1>7, <2>1 DEF ChildIsAwaited, ServerIsReplacedOnlyIfSlow
<1>8. ASSUME NEW t \in Turns, Deny(t)
      PROVE  ChildIsAwaited' /\ ServerIsReplacedOnlyIfSlow'
  BY <1>7, <1>8 DEF Deny
<1>9. CASE StopWorkers
  BY <1>7, <1>9 DEF StopWorkers
<1>10. CASE SpawnDetached
  <2>1. UNCHANGED <<child, givenUp, pc, cutOff>>
    BY <1>10 DEF SpawnDetached
  <2>2. CASE UNCHANGED proc
    BY <1>1, <2>1, <2>2
  <2>3. CASE Cardinality(Started) < MaxStarts /\ NewProcess
    <3> DEFINE n == Cardinality(Started) + 1
    <3>1. n \in Pids /\ proc[n] = "none" /\ proc' = [proc EXCEPT ![n] = "starting"]
      BY <2>3, NewProcessIs
    <3> HIDE DEF n
    <3>2. child # n
      BY <3>1 DEF HandsHoldProcesses, Hands, Started, Pids, NoPid
    <3> QED
      BY <2>1, <3>1, <3>2 DEF ChildIsAwaited, ServerIsReplacedOnlyIfSlow, TypeOK
  <2> QED
    BY <1>10, <2>2, <2>3 DEF SpawnDetached
<1>11. CASE TakeChild
  BY <1>11 DEF TakeChild, ChildIsAwaited, ServerIsReplacedOnlyIfSlow
<1>12. ASSUME NEW p \in Pids \cup {NoPid}, proc' = Stopped(p), UNCHANGED <<child, givenUp, pc, cutOff>>
       PROVE  ChildIsAwaited' /\ ServerIsReplacedOnlyIfSlow'
  <2>1. \A q \in Pids : proc'[q] = proc[q] \/ proc'[q] = "gone"
    BY <1>12, StoppedIs
  <2> QED
    BY <1>12, <2>1 DEF ChildIsAwaited, ServerIsReplacedOnlyIfSlow, TypeOK
<1>13. CASE StopChild
  BY <1>12, <1>13 DEF StopChild, TypeOK
<1>14. ASSUME NEW p \in Pids, Ends(p)
       PROVE  ChildIsAwaited' /\ ServerIsReplacedOnlyIfSlow'
  BY <1>12, <1>14 DEF Ends
<1>15. ASSUME NEW p \in Pids, Bind(p)
       PROVE  ChildIsAwaited' /\ ServerIsReplacedOnlyIfSlow'
  <2>1. /\ UNCHANGED <<child, givenUp, pc, cutOff>> /\ proc[p] = "starting"
        /\ proc' = [proc EXCEPT ![p] = IF PortOpen THEN "gone" ELSE "serving"]
    BY <1>15 DEF Bind
  <2>2. ASSUME NEW t \in Turns, pc[t] = "wait"
        PROVE  \A s \in Turns : pc[s] \notin {"spawn", "spawned"}
    BY <2>2 DEF OneStarter
  <2> QED
    BY <2>1, <2>2 DEF ChildIsAwaited, ServerIsReplacedOnlyIfSlow, TypeOK
<1>16. CASE UnloadCommand \/ UserOllama
  BY <1>1, <1>16 DEF UnloadCommand, UserOllama
<1>17. ASSUME NEW u \in Unloaders, UnloadStep(u)
       PROVE  ChildIsAwaited' /\ ServerIsReplacedOnlyIfSlow'
  BY <1>1, <1>17 DEF UnloadStep, UnloadAsk, UnloadFails, UnloadForget, UnloadEnds
<1>18. CASE UNCHANGED vars
  BY <1>1, <1>18 DEF vars
<1> QED
  BY <1>2, <1>3, <1>4, <1>5, <1>6, <1>8, <1>9, <1>10, <1>11, <1>13, <1>14, <1>15, <1>16, <1>17,
     <1>18 DEF Next, TurnStep

-----------------------------------------------------------------------------
(* The models.                                                              *)

LEMMA TrackedStep ==
  /\ TypeOK /\ OneStarter /\ AskedIsTracked /\ LoadedIsTracked /\ [Next]_vars
  => AskedIsTracked' /\ LoadedIsTracked'
<1> SUFFICES ASSUME TypeOK, OneStarter, AskedIsTracked, LoadedIsTracked, [Next]_vars
             PROVE  AskedIsTracked' /\ LoadedIsTracked'
  OBVIOUS
<1> USE DEF procVars, stopVars, turnVars, history
<1>1. CASE /\ loaded' \subseteq loaded /\ UNCHANGED <<tracked, reused>>
           /\ \A t \in Turns : pc'[t] = "send" => pc[t] = "send" /\ using'[t] = using[t]
  BY <1>1 DEF AskedIsTracked, LoadedIsTracked
<1>2. ASSUME NEW t \in Turns, Begin(t) \/ Probe(t) \/ LockStart(t) \/ Reprobe(t) \/ Spawn(t)
                              \/ SpawnFails(t) \/ WaitReady(t) \/ WaitExpires(t)
                              \/ PrepareFails(t) \/ Answered(t)
      PROVE  AskedIsTracked' /\ LoadedIsTracked'
  BY <1>1, <1>2 DEF Begin, Probe, LockStart, Reprobe, AfterReprobe, Spawn, SpawnFails, WaitReady,
     WaitExpires, PrepareFails, Answered, Goto, TypeOK, Places
<1>3. ASSUME NEW t \in Turns, Register(t)
      PROVE  AskedIsTracked' /\ LoadedIsTracked'
  BY <1>1, <1>3 DEF Register, LoadedWith, Goto, TypeOK, Places
<1>4. ASSUME NEW t \in Turns, Remember(t)
      PROVE  AskedIsTracked' /\ LoadedIsTracked'
  BY <1>4 DEF Remember, Goto, AskedIsTracked, LoadedIsTracked, TypeOK, Places
<1>5. ASSUME NEW t \in Turns, Send(t)
      PROVE  AskedIsTracked' /\ LoadedIsTracked'
  BY <1>5 DEF Send, Goto, AskedIsTracked, LoadedIsTracked, TypeOK, Places
<1>6. ASSUME NEW S \in SUBSET Turns, Abort(S), UNCHANGED <<loaded, tracked, reused, using>>
      PROVE  AskedIsTracked' /\ LoadedIsTracked'
  <2>1. pc' = [t \in Turns |-> IF t \in S THEN "idle" ELSE pc[t]]
    BY <1>6, AbortIs
  <2> QED
    BY <1>1, <1>6, <2>1
<1>7. ASSUME NEW t \in Turns, Deny(t)
      PROVE  AskedIsTracked' /\ LoadedIsTracked'
  BY <1>6, <1>7 DEF Deny
<1>8. CASE StopWorkers
  BY <1>6, <1>8 DEF StopWorkers
<1>9. CASE SpawnDetached \/ UnloadCommand \/ TakeChild
  BY <1>1, <1>9 DEF SpawnDetached, UnloadCommand, TakeChild
<1>10. CASE StopChild
  BY <1>1, <1>10 DEF StopChild, LoadedWith
<1>11. ASSUME NEW u \in Unloaders, NEW m \in Models, UnloadForget(u, m)
       PROVE  AskedIsTracked' /\ LoadedIsTracked'
  <2>1. /\ tracked' = tracked \ {m} /\ UNCHANGED <<pc, using, loaded>>
        /\ reused' = IF m \in loaded \/ \E t \in Turns : pc[t] = "send" /\ using[t] = m
                     THEN reused \cup {m} ELSE reused
    BY <1>11 DEF UnloadForget
  <2> QED
    BY <2>1 DEF AskedIsTracked, LoadedIsTracked
<1>12. ASSUME NEW u \in Unloaders, UnloadStep(u)
       PROVE  AskedIsTracked' /\ LoadedIsTracked'
  <2>1. ASSUME NEW m \in Models, UnloadAsk(u, m) \/ UnloadFails(u, m)
        PROVE  AskedIsTracked' /\ LoadedIsTracked'
    BY <1>1, <2>1 DEF UnloadAsk, UnloadFails
  <2>2. CASE UnloadEnds(u)
    BY <1>1, <2>2 DEF UnloadEnds
  <2> QED
    BY <1>11, <1>12, <2>1, <2>2 DEF UnloadStep
<1>13. ASSUME NEW p \in Pids, Bind(p) \/ Ends(p)
       PROVE  AskedIsTracked' /\ LoadedIsTracked'
  BY <1>1, <1>13 DEF Bind, Ends, LoadedWith
<1>14. CASE UserOllama
  BY <1>1, <1>14 DEF UserOllama
<1>15. CASE UNCHANGED vars
  BY <1>1, <1>15 DEF vars
<1> QED
  BY <1>2, <1>3, <1>4, <1>5, <1>7, <1>8, <1>9, <1>10, <1>12, <1>13, <1>14, <1>15 DEF Next, TurnStep

-----------------------------------------------------------------------------
(* The invariant, and the theorems.                                         *)

LEMMA IInvInit == Init => IInv
<1> SUFFICES ASSUME Init
             PROVE  IInv
  OBVIOUS
<1>1. TypeOK
  BY TypeInit
<1>2. Started = {} /\ Live = {}
  BY DEF Init, Started, Live
<1>3. StartedInOrder
  <2>1. 0 \in 0 .. MaxStarts /\ 1 .. 0 = {}
    BY OllamaConstants
  <2> QED
    BY <1>2, <2>1 DEF StartedInOrder
<1>4. OneStarter /\ HandsAreShort
  BY DEF Init, OneStarter, HandsAreShort
<1>5. HandsHoldProcesses /\ EveryChildIsKnown
  BY <1>2 DEF Init, HandsHoldProcesses, Hands, EveryChildIsKnown
<1>6. ChildIsAwaited /\ ServerIsReplacedOnlyIfSlow /\ AskedIsTracked /\ LoadedIsTracked
  BY DEF Init, ChildIsAwaited, ServerIsReplacedOnlyIfSlow, AskedIsTracked, LoadedIsTracked
<1> QED
  BY <1>1, <1>3, <1>4, <1>5, <1>6 DEF IInv

LEMMA IInvStep == IInv /\ [Next]_vars => IInv'
BY TypeStep, StarterStep, StartedStep, HandsStep, HandsHoldStep, KnownStep, AwaitedStep, TrackedStep
   DEF IInv

\* The inductive invariant holds in every reachable state.
THEOREM OllamaInvariant == Spec => []IInv
BY IInvInit, IInvStep, PTL DEF Spec

\* Every variable of Ollama stays in its domain.
THEOREM OllamaTypeCorrect == Spec => []TypeOK
<1>1. IInv => TypeOK
  BY DEF IInv
<1> QED
  BY OllamaInvariant, <1>1, PTL

\* Whatever is aborted while the server is being started, and however often it is started,
\* every running process is one that the end of the bot will stop, or an orphan of an aborted
\* spawn.
THEOREM NoUnknownChild == Spec => []EveryChildIsKnown
<1>1. IInv => EveryChildIsKnown
  BY DEF IInv
<1> QED
  BY OllamaInvariant, <1>1, PTL

\* A serving child is replaced only after some turn stopped waiting for the one it had started.
THEOREM ServersAreKept == Spec => []ServerIsReplacedOnlyIfSlow
<1>1. IInv => ServerIsReplacedOnlyIfSlow
  BY DEF IInv
<1> QED
  BY OllamaInvariant, <1>1, PTL

\* No turn's model is in memory without being tracked, unless an unload of it overlapped with
\* its use.
THEOREM ModelsAreTracked == Spec => []LoadedIsTracked
<1>1. IInv => LoadedIsTracked
  BY DEF IInv
<1> QED
  BY OllamaInvariant, <1>1, PTL
=============================================================================
