-------------------------- MODULE PersistenceProofs --------------------------
(***************************************************************************)
(* Proofs about Persistence, for every set of files and tasks and every      *)
(* bound: it implements DurableStore, what was reported saved survives, and   *)
(* the memory follows what is on the disk.                                     *)
(***************************************************************************)
EXTENDS Persistence, TLAPS

-----------------------------------------------------------------------------
(* The inductive invariant.                                                 *)

\* The writer has a job while it works on one, has synced what it renames, and
\* stops with nothing left to do.
WriterInStep ==
  /\ step \in {"write", "sync", "rename"} => queue # <<>>
  /\ step = "rename" => clean
  /\ step = "stopped" => closing /\ queue = <<>>

\* No file is renamed before its data is synced, so none can be torn.
NothingTorn == \A f \in Files : synced[f]

\* What is left of a write concerns what is on the disk.
DoneIsOnDisk ==
  step \in {"directory", "reply"} =>
    /\ done \in Jobs
    /\ disk[done.file] = done.version /\ done.version # 0
    /\ told[done.file] <= done.version
    /\ step = "reply" => safe[done.file] = disk[done.file] \/ done.file \in warned

\* Queued writes are newer than what is on the disk or was ever reported, and
\* every one is newer than those of its file that are queued before it.
QueueIsNewer ==
  /\ \A i \in DOMAIN queue :
       /\ disk[queue[i].file] < queue[i].version
       /\ told[queue[i].file] < queue[i].version
       /\ queue[i].version <= next[queue[i].file]
  /\ \A i, j \in DOMAIN queue :
       i < j /\ queue[i].file = queue[j].file => queue[i].version < queue[j].version

VersionsInOrder ==
  \A f \in Files :
    /\ safe[f] <= disk[f] /\ disk[f] <= next[f] /\ told[f] <= next[f]
    /\ told[f] <= safe[f] \/ f \in warned

OrderInv == WriterInStep /\ NothingTorn /\ DoneIsOnDisk /\ QueueIsNewer /\ VersionsInOrder

-----------------------------------------------------------------------------
(* The memory.                                                              *)

\* A task waits for the write of a file exactly as long as it holds its lock,
\* and has left its version in the memory.
WaitsWithLock ==
  /\ \A t \in Tasks :
       \/ asked[t] = Nothing /\ answer[t] = "none"
       \/ /\ asked[t] # Nothing
          /\ asked[t].file \in Files /\ asked[t].version \in Nat
          /\ holder[asked[t].file] = t
  /\ \A f \in Files : holder[f] # NoTask =>
       LET a == asked[holder[f]] IN a # Nothing /\ a.file = f /\ memory[f] = a.version

Queued(q, f, version) == \E i \in DOMAIN q : q[i].file = f /\ q[i].version = version
NoneQueued(q, f) == \A i \in DOMAIN q : q[i].file # f

\* Version v of file f is what the disk will hold when the writes of f in q that
\* are older than "below" are done: the newest of these, or else what it holds now;
\* or there is none, and f is stale.
Expected(q, f, v, below, onDisk, stale) ==
  \/ /\ v < below /\ Queued(q, f, v)
     /\ \A i \in DOMAIN q : q[i].file = f => q[i].version <= v \/ below <= q[i].version
  \/ /\ \A i \in DOMAIN q : q[i].file = f => below <= q[i].version
     /\ v = onDisk \/ stale

\* The write of a is the newest of its file, and what a would put back is what
\* the others leave.
InQueue(q, a, onDisk, stale) ==
  /\ Queued(q, a.file, a.version)
  /\ \A i \in DOMAIN q : q[i].file = a.file => q[i].version <= a.version
  /\ Expected(q, a.file, a.before, a.version, onDisk, stale)

\* Nobody holds the lock: the memory is what the queue will leave on the disk.
UnlockedExpected ==
  \A f \in Files : holder[f] = NoTask =>
    Expected(queue, f, memory[f], next[f] + 1, disk[f], f \in dirty)

BeingDone(a) ==
  /\ step \in {"directory", "reply"} /\ done.file = a.file /\ done.version = a.version
  /\ NoneQueued(queue, a.file)

Waiting(t) ==
  LET a == asked[t] IN
  /\ answer[t] = "none" => InQueue(queue, a, disk[a.file], a.file \in dirty) \/ BeingDone(a)
  /\ answer[t] = "ok" => NoneQueued(queue, a.file) /\ disk[a.file] = a.version
  /\ answer[t] = "error" =>
       NoneQueued(queue, a.file) /\ (a.before = disk[a.file] \/ a.file \in dirty)

WaitingExpected == \A t \in Tasks : asked[t] # Nothing => Waiting(t)

MemoryInv == WaitsWithLock /\ UnlockedExpected /\ WaitingExpected

-----------------------------------------------------------------------------
(* Sequences.                                                               *)

LEMMA TailIs ==
  ASSUME NEW S, NEW q \in Seq(S), q # <<>>
  PROVE  /\ 1 \in DOMAIN q /\ Head(q) = q[1] /\ Head(q) \in S
         /\ Tail(q) \in Seq(S)
         /\ \A i \in DOMAIN Tail(q) : i \in Nat \ {0} /\ i + 1 \in DOMAIN q /\ Tail(q)[i] = q[i + 1]
         /\ \A i \in DOMAIN q : i \in Nat \ {0}
               /\ (i # 1 => i - 1 \in DOMAIN Tail(q) /\ Tail(q)[i - 1] = q[i])
OBVIOUS

LEMMA AppendIs ==
  ASSUME NEW S, NEW q \in Seq(S), NEW x \in S
  PROVE  /\ Append(q, x) \in Seq(S) /\ Append(q, x) # <<>>
         /\ Len(q) + 1 \in DOMAIN Append(q, x) /\ Append(q, x)[Len(q) + 1] = x
         /\ \A i \in DOMAIN q : i \in DOMAIN Append(q, x) /\ Append(q, x)[i] = q[i]
                               /\ i < Len(q) + 1
         /\ \A i \in DOMAIN Append(q, x) :
              i = Len(q) + 1 \/ (i \in DOMAIN q /\ Append(q, x)[i] = q[i])
         /\ Len(q) \in Nat
OBVIOUS

LEMMA ElementIs ==
  ASSUME NEW S, NEW q \in Seq(S), NEW i \in DOMAIN q
  PROVE  q[i] \in S /\ i \in Nat \ {0}
OBVIOUS

-----------------------------------------------------------------------------
(* Types.                                                                   *)

LEMMA InitType == Init => TypeOK
<1> SUFFICES ASSUME Init PROVE TypeOK
  OBVIOUS
<1>1. asked \in [Tasks -> {Nothing}] /\ answer \in [Tasks -> {"none"}]
  BY DEF Init
<1>2. queue \in Seq(Jobs)
  BY DEF Init
<1>3. used \in [{"failures", "crashes"} -> Nat]
  BY DEF Init
<1> QED
  BY <1>1, <1>2, <1>3 DEF Init, TypeOK, Steps

LEMMA TaskType == ASSUME TypeOK, NEW t \in Tasks, Task(t) PROVE TypeOK'
<1> USE DEF TypeOK, Steps
<1>1. ASSUME NEW f \in Files, NEW k \in Kinds, Change(t, f, k) PROVE TypeOK'
  <2> DEFINE a == [file |-> f, version |-> next[f] + 1, before |-> memory[f], kind |-> k]
             j == [file |-> f, version |-> next[f] + 1]
  <2>1. j \in Jobs /\ a \in [file : Files, version : Nat, before : Nat, kind : Kinds]
    BY DEF Jobs
  <2>2. queue' \in Seq(Jobs)
    BY <1>1, <2>1, AppendIs DEF Change
  <2> HIDE DEF a
  <2>3. asked' = [asked EXCEPT ![t] = a]
    BY <1>1 DEF Change, a
  <2>4. asked' \in [Tasks -> [file : Files, version : Nat, before : Nat, kind : Kinds]
                              \cup {Nothing}]
    BY <2>1, <2>3
  <2>5. memory' \in [Files -> Nat] /\ next' \in [Files -> Nat]
        /\ holder' \in [Files -> Tasks \cup {NoTask}]
    BY <1>1 DEF Change
  <2> QED
    BY <1>1, <2>2, <2>4, <2>5 DEF Change, diskVars
<1>2. ASSUME Free(t)
      PROVE  /\ holder' \in [Files -> Tasks \cup {NoTask}]
             /\ asked' \in [Tasks -> [file : Files, version : Nat, before : Nat, kind : Kinds]
                                     \cup {Nothing}]
             /\ answer' \in [Tasks -> {"none", "ok", "error"}]
  BY <1>2 DEF Free
<1>3. CASE Saved(t)
  BY <1>2, <1>3 DEF Saved, diskVars
<1>4. CASE Refused(t)
  <2>1. memory' \in [Files -> Nat] /\ dirty' \subseteq Files
    <3>1. CASE asked[t] = Nothing
      BY <1>4, <3>1 DEF Refused, TakenBack, Nothing
    <3>2. CASE asked[t] \in [file : Files, version : Nat, before : Nat, kind : Kinds]
      <4>1. asked[t].file \in Files /\ asked[t].before \in Nat
        BY <3>2
      <4> QED
        BY <1>4, <4>1 DEF Refused, TakenBack
    <3> QED
      BY <3>1, <3>2
  <2> QED
    BY <1>2, <1>4, <2>1 DEF Refused, diskVars
<1>5. CASE Abort(t)
  <2>1. dirty' \subseteq Files
    BY <1>5 DEF Abort
  <2> QED
    BY <1>2, <1>5, <2>1 DEF Abort, diskVars
<1> QED
  BY <1>1, <1>3, <1>4, <1>5 DEF Task

LEMMA WriterType == ASSUME TypeOK, WriterInStep, DoneIsOnDisk, Writer PROVE TypeOK'
<1> USE DEF TypeOK, Steps
<1>1. CASE TakeJob
  BY <1>1 DEF TakeJob, WriterGoes, diskVars
<1>2. CASE WriteTemp
  BY <1>2 DEF WriteTemp, AfterWrite, WriterGoes
<1>3. CASE SyncTemp
  BY <1>3 DEF SyncTemp, WriterGoes
<1>4. CASE Rename
  <2>1. queue # <<>> /\ Job \in Jobs /\ queue' \in Seq(Jobs)
    BY <1>4, TailIs DEF Rename, Job, WriterInStep
  <2>2. Job.file \in Files /\ Job.version \in Nat
    BY <2>1 DEF Jobs
  <2>3. disk' \in [Files -> Nat] /\ synced' \in [Files -> BOOLEAN]
    BY <1>4, <2>2 DEF Rename
  <2> QED
    BY <1>4, <2>1, <2>3 DEF Rename, WriterGoes
<1>5. CASE WriteFails
  <2>1. queue # <<>> /\ Job \in Jobs /\ queue' \in Seq(Jobs)
    BY <1>5, TailIs DEF WriteFails, Job, WriterInStep
  <2>2. answer' \in [Tasks -> {"none", "ok", "error"}] /\ dirty' \subseteq Files
    BY <1>5, <2>1 DEF WriteFails, Jobs
  <2>3. used' \in [{"failures", "crashes"} -> Nat]
    BY <1>5 DEF WriteFails, Count
  <2> QED
    BY <1>5, <2>1, <2>2, <2>3 DEF WriteFails, WriterGoes, diskVars
<1>6. CASE SyncDirectory
  <2>1. done \in Jobs /\ done.file \in Files
    BY <1>6 DEF SyncDirectory, DoneIsOnDisk, Jobs
  <2> QED
    BY <1>6, <2>1 DEF SyncDirectory, WriterGoes
<1>7. CASE SyncDirectoryFails
  <2>1. done \in Jobs /\ done.file \in Files
    BY <1>7 DEF SyncDirectoryFails, DoneIsOnDisk, Jobs
  <2>2. used' \in [{"failures", "crashes"} -> Nat]
    BY <1>7 DEF SyncDirectoryFails, Count
  <2> QED
    BY <1>7, <2>1, <2>2 DEF SyncDirectoryFails, WithWarning, WriterGoes
<1>8. CASE Reply
  <2>1. done \in Jobs /\ done.version \in Nat
    BY <1>8 DEF Reply, DoneIsOnDisk, Jobs
  <2>2. told' \in [Files -> Nat] /\ answer' \in [Tasks -> {"none", "ok", "error"}]
    BY <1>8, <2>1 DEF Reply
  <2> QED
    BY <1>8, <2>2 DEF Reply, WriterGoes
<1>9. CASE WriterStops
  BY <1>9 DEF WriterStops, WriterGoes, diskVars
<1> QED
  BY <1>1, <1>2, <1>3, <1>4, <1>5, <1>6, <1>7, <1>8, <1>9 DEF Writer

\* The files that the next process finds are whole ones.
LEMMA FoundIsWhole ==
  ASSUME TypeOK, NothingTorn, Process
  PROVE  \/ Shutdown
         \/ /\ disk' \in [Files -> Nat] /\ Loaded(disk')
            /\ \A f \in Files : disk'[f] \in {disk[f], safe[f]}
            /\ \E lost \in SUBSET Files :
                 disk' = [f \in Files |-> IF f \in lost THEN safe[f] ELSE disk[f]]
            /\ used' \in [{"failures", "crashes"} -> Nat]
            /\ step # "stopped" \/ (step = "stopped" /\ disk' = disk)
<1>1. CASE Shutdown
  BY <1>1
<1>2. CASE Killed
  <2>1. disk' = disk /\ Loaded(disk') /\ used' \in [{"failures", "crashes"} -> Nat]
        /\ step # "stopped"
    BY <1>2 DEF Killed, Loaded, Count, TypeOK
  <2>2. \E lost \in SUBSET Files :
          disk = [f \in Files |-> IF f \in lost THEN safe[f] ELSE disk[f]]
    <3> WITNESS {} \in SUBSET Files
    <3> QED
      BY DEF TypeOK
  <2> QED
    BY <2>1, <2>2 DEF TypeOK
<1>3. CASE PowerLoss
  <2>1. PICK lost \in SUBSET Files :
          Loaded([f \in Files |-> IF f \in lost THEN safe[f]
                                  ELSE IF synced[f] THEN disk[f] ELSE Torn])
    BY <1>3 DEF PowerLoss
  <2>2. disk' = [f \in Files |-> IF f \in lost THEN safe[f] ELSE disk[f]]
    BY <2>1 DEF Loaded, NothingTorn
  <2>3. Loaded(disk')
    BY <2>1 DEF Loaded
  <2>4. used' \in [{"failures", "crashes"} -> Nat] /\ step # "stopped"
    BY <1>3 DEF PowerLoss, Count, TypeOK
  <2> QED
    BY <2>2, <2>3, <2>4 DEF TypeOK
<1>4. CASE StartAgain
  <2>1. disk' = disk /\ Loaded(disk') /\ used' = used /\ step = "stopped"
    BY <1>4 DEF StartAgain, Loaded
  <2>2. \E lost \in SUBSET Files :
          disk = [f \in Files |-> IF f \in lost THEN safe[f] ELSE disk[f]]
    <3> WITNESS {} \in SUBSET Files
    <3> QED
      BY DEF TypeOK
  <2> QED
    BY <2>1, <2>2 DEF TypeOK
<1> QED
  BY <1>1, <1>2, <1>3, <1>4 DEF Process

LEMMA ProcessType == ASSUME TypeOK, NothingTorn, Process PROVE TypeOK'
<1>1. CASE Shutdown
  <2>1. used' \in [{"failures", "crashes"} -> Nat]
    BY <1>1 DEF Shutdown, Count, TypeOK
  <2> QED
    BY <1>1, <2>1 DEF Shutdown, TypeOK, memoryVars, diskVars
<1>2. CASE /\ disk' \in [Files -> Nat] /\ Loaded(disk')
           /\ used' \in [{"failures", "crashes"} -> Nat]
  <2>1. queue' \in Seq(Jobs) /\ asked' \in [Tasks -> {Nothing}] /\ answer' \in [Tasks -> {"none"}]
        /\ holder' \in [Files -> {NoTask}]
    BY <1>2 DEF Loaded
  <2> QED
    BY <1>2, <2>1 DEF Loaded, TypeOK, Steps
<1> QED
  BY <1>1, <1>2, FoundIsWhole

LEMMA TypeStep ==
  ASSUME TypeOK, WriterInStep, NothingTorn, DoneIsOnDisk, [Next]_vars
  PROVE  TypeOK'
<1>1. CASE UNCHANGED vars
  BY <1>1 DEF vars, memoryVars, diskVars, TypeOK
<1> QED
  BY <1>1, TaskType, WriterType, ProcessType DEF Next

-----------------------------------------------------------------------------
(* The invariant of the store.                                              *)

LEMMA UntouchedKeeps ==
  ASSUME OrderInv, UNCHANGED <<queue, step, done, next, diskVars>>, closing => closing'
  PROVE  OrderInv'
BY DEF OrderInv, WriterInStep, NothingTorn, DoneIsOnDisk, QueueIsNewer, VersionsInOrder, diskVars

LEMMA ChangeKeeps ==
  ASSUME TypeOK, OrderInv, NEW t \in Tasks, NEW f \in Files, NEW k \in Kinds, Change(t, f, k)
  PROVE  OrderInv'
<1> DEFINE j == [file |-> f, version |-> next[f] + 1]
<1>1. j \in Jobs /\ j.file = f /\ j.version = next[f] + 1 /\ next[f] \in Nat
  BY DEF TypeOK, Jobs
<1>2. queue \in Seq(Jobs) /\ queue' = Append(queue, j)
  BY DEF TypeOK, Change
<1> HIDE DEF j
<1>3. /\ queue' # <<>>
      /\ \A i \in DOMAIN queue' :
           \/ i = Len(queue) + 1 /\ queue'[i] = j
           \/ i \in DOMAIN queue /\ queue'[i] = queue[i] /\ queue[i] \in Jobs /\ i < Len(queue) + 1
  BY <1>1, <1>2, AppendIs, ElementIs
<1>4. next' = [next EXCEPT ![f] = @ + 1] /\ ~closing
  BY DEF Change
<1>5. UNCHANGED <<disk, clean, synced, safe, told, warned, step, done, closing>>
  BY DEF Change, diskVars
<1>6. WriterInStep'
  BY <1>3, <1>4, <1>5 DEF OrderInv, WriterInStep
<1>7. NothingTorn' /\ DoneIsOnDisk'
  BY <1>5 DEF OrderInv, NothingTorn, DoneIsOnDisk
<1>8. VersionsInOrder'
  BY <1>4, <1>5 DEF OrderInv, VersionsInOrder, TypeOK
<1>9. QueueIsNewer'
  <2>1. ASSUME NEW i \in DOMAIN queue'
        PROVE  /\ disk[queue'[i].file] < queue'[i].version
               /\ told[queue'[i].file] < queue'[i].version
               /\ queue'[i].version <= next'[queue'[i].file]
    <3>1. CASE queue'[i] = j
      BY <1>1, <1>4, <3>1 DEF OrderInv, VersionsInOrder, TypeOK
    <3>2. CASE i \in DOMAIN queue /\ queue'[i] = queue[i] /\ queue[i] \in Jobs
      <4>1. queue[i].version <= next[queue[i].file] /\ queue[i].file \in Files
            /\ queue[i].version \in Nat
            /\ disk[queue[i].file] < queue[i].version /\ told[queue[i].file] < queue[i].version
        BY <3>2 DEF OrderInv, QueueIsNewer, Jobs
      <4>2. next'[queue[i].file] >= next[queue[i].file]
        BY <1>4, <4>1 DEF TypeOK
      <4> QED
        BY <3>2, <4>1, <4>2, <1>4 DEF TypeOK
    <3> QED
      BY <1>3, <3>1, <3>2
  <2>2. ASSUME NEW i \in DOMAIN queue', NEW l \in DOMAIN queue', i < l,
               queue'[i].file = queue'[l].file
        PROVE  queue'[i].version < queue'[l].version
    <3>1. i \in DOMAIN queue /\ queue'[i] = queue[i] /\ queue[i] \in Jobs
      BY <1>2, <1>3, <2>2
    <3>2. CASE queue'[l] = j
      <4>1. queue[i].version <= next[f] /\ queue[i].version \in Nat
        BY <1>1, <2>2, <3>1, <3>2 DEF OrderInv, QueueIsNewer, Jobs
      <4> QED
        BY <1>1, <3>1, <3>2, <4>1
    <3>3. CASE l \in DOMAIN queue /\ queue'[l] = queue[l]
      BY <2>2, <3>1, <3>3 DEF OrderInv, QueueIsNewer
    <3> QED
      BY <1>3, <3>2, <3>3
  <2> QED
    BY <1>5, <2>1, <2>2 DEF QueueIsNewer
<1> QED
  BY <1>6, <1>7, <1>8, <1>9 DEF OrderInv

\* What stays queued when the write at the head is decided.
LEMMA TailStaysNewer ==
  ASSUME TypeOK, QueueIsNewer, queue # <<>>
  PROVE  /\ Job \in Jobs /\ Job.file \in Files /\ Job.version \in Nat
         /\ disk[Job.file] < Job.version /\ told[Job.file] < Job.version
         /\ Job.version <= next[Job.file]
         /\ \A i \in DOMAIN Tail(queue) :
              /\ Tail(queue)[i] = queue[i + 1] /\ i + 1 \in DOMAIN queue /\ i \in Nat
              /\ Tail(queue)[i] \in Jobs
              /\ Tail(queue)[i].file \in Files /\ Tail(queue)[i].version \in Nat
              /\ Tail(queue)[i].file = Job.file => Job.version < Tail(queue)[i].version
<1>1. /\ 1 \in DOMAIN queue /\ Job = queue[1] /\ Job \in Jobs
      /\ Tail(queue) \in Seq(Jobs)
      /\ \A i \in DOMAIN Tail(queue) :
           i \in Nat \ {0} /\ i + 1 \in DOMAIN queue /\ Tail(queue)[i] = queue[i + 1]
  <2> queue \in Seq(Jobs)
    BY DEF TypeOK
  <2> QED
    BY TailIs DEF Job
<1>2. Job.file \in Files /\ Job.version \in Nat
  BY <1>1 DEF Jobs
<1>3. disk[Job.file] < Job.version /\ told[Job.file] < Job.version
      /\ Job.version <= next[Job.file]
  BY <1>1 DEF QueueIsNewer
<1>4. ASSUME NEW i \in DOMAIN Tail(queue)
      PROVE  /\ Tail(queue)[i] = queue[i + 1] /\ i + 1 \in DOMAIN queue /\ i \in Nat
             /\ Tail(queue)[i] \in Jobs
             /\ Tail(queue)[i].file \in Files /\ Tail(queue)[i].version \in Nat
             /\ Tail(queue)[i].file = Job.file => Job.version < Tail(queue)[i].version
  <2>1. Tail(queue)[i] \in Jobs
    BY <1>1, ElementIs
  <2>2. Tail(queue)[i].file \in Files /\ Tail(queue)[i].version \in Nat
    BY <2>1 DEF Jobs
  <2>3. 1 < i + 1
    BY <1>1
  <2>4. queue[i + 1].file = queue[1].file => queue[1].version < queue[i + 1].version
    BY <1>1, <2>3 DEF QueueIsNewer
  <2> QED
    BY <1>1, <2>1, <2>2, <2>4
<1> QED
  BY <1>1, <1>2, <1>3, <1>4

LEMMA TailKeepsOrder ==
  ASSUME TypeOK, QueueIsNewer, queue # <<>>, queue' = Tail(queue),
         NEW i \in DOMAIN queue', NEW l \in DOMAIN queue', i < l,
         queue'[i].file = queue'[l].file
  PROVE  queue'[i].version < queue'[l].version
<1>1. /\ queue'[i] = queue[i + 1] /\ i + 1 \in DOMAIN queue /\ i \in Nat
      /\ queue'[l] = queue[l + 1] /\ l + 1 \in DOMAIN queue /\ l \in Nat
  BY TailStaysNewer
<1> QED
  BY <1>1 DEF QueueIsNewer

LEMMA RenameKeeps == ASSUME TypeOK, OrderInv, Rename PROVE OrderInv'
<1>1. queue # <<>> /\ clean
  BY DEF Rename, OrderInv, WriterInStep
<1>2. /\ disk' = [disk EXCEPT ![Job.file] = Job.version]
      /\ synced' = [synced EXCEPT ![Job.file] = clean]
      /\ done' = Job /\ queue' = Tail(queue) /\ step' = "directory"
      /\ UNCHANGED <<safe, told, warned, next, closing>>
  BY DEF Rename, WriterGoes
<1> DEFINE Facts ==
      /\ Job \in Jobs /\ Job.file \in Files /\ Job.version \in Nat
      /\ disk[Job.file] < Job.version /\ told[Job.file] < Job.version
      /\ Job.version <= next[Job.file]
<1>3. Facts
  BY <1>1, TailStaysNewer DEF OrderInv
<1>4. WriterInStep' /\ NothingTorn'
  BY <1>1, <1>2, <1>3 DEF OrderInv, WriterInStep, NothingTorn, TypeOK
<1>5. DoneIsOnDisk'
  BY <1>2, <1>3 DEF DoneIsOnDisk, TypeOK
<1>6. VersionsInOrder'
  BY <1>2, <1>3 DEF OrderInv, VersionsInOrder, TypeOK
<1>7. QueueIsNewer'
  <2>1. ASSUME NEW i \in DOMAIN queue'
        PROVE  /\ disk'[queue'[i].file] < queue'[i].version
               /\ told'[queue'[i].file] < queue'[i].version
               /\ queue'[i].version <= next'[queue'[i].file]
    <3>1. /\ queue'[i] = queue[i + 1] /\ i + 1 \in DOMAIN queue
          /\ queue'[i].file \in Files /\ queue'[i].version \in Nat
          /\ queue'[i].file = Job.file => Job.version < queue'[i].version
      BY <1>1, <1>2, TailStaysNewer DEF OrderInv
    <3>2. /\ disk[queue'[i].file] < queue'[i].version
          /\ told[queue'[i].file] < queue'[i].version
          /\ queue'[i].version <= next[queue'[i].file]
      BY <3>1 DEF OrderInv, QueueIsNewer
    <3> QED
      BY <1>2, <1>3, <3>1, <3>2 DEF TypeOK
  <2>2. ASSUME NEW i \in DOMAIN queue', NEW l \in DOMAIN queue', i < l,
               queue'[i].file = queue'[l].file
        PROVE  queue'[i].version < queue'[l].version
    BY <1>1, <1>2, <2>2, TailKeepsOrder DEF OrderInv
  <2> QED
    BY <2>1, <2>2 DEF QueueIsNewer
<1> QED
  BY <1>4, <1>5, <1>6, <1>7 DEF OrderInv

LEMMA WriteFailsKeeps == ASSUME TypeOK, OrderInv, WriteFails PROVE OrderInv'
<1>1. queue # <<>>
  BY DEF WriteFails, OrderInv, WriterInStep
<1>2. /\ queue' = Tail(queue) /\ step' = "idle"
      /\ UNCHANGED <<disk, clean, synced, safe, told, warned, next, closing, done>>
  BY DEF WriteFails, WriterGoes, diskVars
<1>3. WriterInStep' /\ NothingTorn' /\ DoneIsOnDisk' /\ VersionsInOrder'
  BY <1>2 DEF OrderInv, WriterInStep, NothingTorn, DoneIsOnDisk, VersionsInOrder
<1>4. QueueIsNewer'
  <2>1. ASSUME NEW i \in DOMAIN queue'
        PROVE  /\ disk'[queue'[i].file] < queue'[i].version
               /\ told'[queue'[i].file] < queue'[i].version
               /\ queue'[i].version <= next'[queue'[i].file]
    <3>1. queue'[i] = queue[i + 1] /\ i + 1 \in DOMAIN queue
      BY <1>1, <1>2, TailStaysNewer DEF OrderInv
    <3> QED
      BY <1>2, <3>1 DEF OrderInv, QueueIsNewer
  <2>2. ASSUME NEW i \in DOMAIN queue', NEW l \in DOMAIN queue', i < l,
               queue'[i].file = queue'[l].file
        PROVE  queue'[i].version < queue'[l].version
    BY <1>1, <1>2, <2>2, TailKeepsOrder DEF OrderInv
  <2> QED
    BY <2>1, <2>2 DEF QueueIsNewer
<1> QED
  BY <1>3, <1>4 DEF OrderInv

LEMMA OtherWriterStepsKeep ==
  ASSUME TypeOK, OrderInv, Writer, ~Rename, ~WriteFails
  PROVE  OrderInv'
<1>1. CASE TakeJob
  BY <1>1 DEF TakeJob, WriterGoes, diskVars, OrderInv, WriterInStep, NothingTorn, DoneIsOnDisk,
              QueueIsNewer, VersionsInOrder
<1>2. CASE WriteTemp
  BY <1>2 DEF WriteTemp, AfterWrite, WriterGoes, OrderInv, WriterInStep, NothingTorn,
              DoneIsOnDisk, QueueIsNewer, VersionsInOrder
<1>3. CASE SyncTemp
  BY <1>3 DEF SyncTemp, WriterGoes, OrderInv, WriterInStep, NothingTorn, DoneIsOnDisk,
              QueueIsNewer, VersionsInOrder
<1>4. CASE WriterStops
  <2>1. closing' /\ queue' = <<>>
    BY <1>4 DEF WriterStops, WriterGoes, Drained
  <2> QED
    BY <1>4, <2>1 DEF WriterStops, WriterGoes, diskVars, OrderInv, WriterInStep, NothingTorn,
                      DoneIsOnDisk, QueueIsNewer, VersionsInOrder
<1>5. ASSUME step = "directory" PROVE done \in Jobs /\ done.file \in Files /\ done.version \in Nat
                                     /\ disk[done.file] = done.version
                                     /\ told[done.file] <= done.version
  BY <1>5 DEF OrderInv, DoneIsOnDisk, Jobs
<1>6. CASE SyncDirectory
  <2>1. /\ safe' = [safe EXCEPT ![done.file] = disk[done.file]]
        /\ warned' = warned \ {done.file} /\ step = "directory" /\ step' = "reply"
        /\ UNCHANGED <<queue, done, closing, next, disk, clean, synced, told>>
    BY <1>6 DEF SyncDirectory, WriterGoes
  <2>2. VersionsInOrder'
    BY <1>5, <2>1 DEF OrderInv, VersionsInOrder, TypeOK
  <2>3. DoneIsOnDisk'
    BY <1>5, <2>1 DEF OrderInv, DoneIsOnDisk, TypeOK
  <2> QED
    BY <2>1, <2>2, <2>3 DEF OrderInv, WriterInStep, NothingTorn, QueueIsNewer
<1>7. CASE SyncDirectoryFails
  <2>1. /\ warned' = warned \cup {done.file} /\ step = "directory" /\ step' = "reply"
        /\ UNCHANGED <<queue, done, closing, next, disk, clean, synced, safe, told>>
    BY <1>7 DEF SyncDirectoryFails, WriterGoes, WithWarning
  <2>2. VersionsInOrder'
    BY <1>5, <2>1 DEF OrderInv, VersionsInOrder, TypeOK
  <2>3. DoneIsOnDisk'
    BY <1>5, <2>1 DEF OrderInv, DoneIsOnDisk, TypeOK
  <2> QED
    BY <2>1, <2>2, <2>3 DEF OrderInv, WriterInStep, NothingTorn, QueueIsNewer
<1>8. CASE Reply
  <2>1. /\ told' = [told EXCEPT ![done.file] = done.version]
        /\ done' = NoWrite /\ step = "reply" /\ step' = "idle"
        /\ UNCHANGED <<queue, closing, next, disk, clean, synced, safe, warned>>
    BY <1>8 DEF Reply, WriterGoes
  <2>2. /\ done \in Jobs /\ done.file \in Files /\ done.version \in Nat
        /\ disk[done.file] = done.version
        /\ safe[done.file] = disk[done.file] \/ done.file \in warned
    BY <2>1 DEF OrderInv, DoneIsOnDisk, Jobs
  <2>3. VersionsInOrder'
    BY <2>1, <2>2 DEF OrderInv, VersionsInOrder, TypeOK
  <2>4. QueueIsNewer'
    <3>1. ASSUME NEW i \in DOMAIN queue
          PROVE  queue[i].file \in Files /\ told'[queue[i].file] < queue[i].version
      <4>1. queue[i] \in Jobs
        BY ElementIs DEF TypeOK
      <4>2. queue[i].file \in Files /\ queue[i].version \in Nat
            /\ disk[queue[i].file] < queue[i].version /\ told[queue[i].file] < queue[i].version
        BY <4>1 DEF OrderInv, QueueIsNewer, Jobs
      <4> QED
        BY <2>1, <2>2, <4>2 DEF TypeOK
    <3> QED
      BY <2>1, <3>1 DEF OrderInv, QueueIsNewer
  <2> QED
    BY <2>1, <2>3, <2>4 DEF OrderInv, WriterInStep, NothingTorn, DoneIsOnDisk
<1> QED
  BY <1>1, <1>2, <1>3, <1>4, <1>6, <1>7, <1>8 DEF Writer

LEMMA ProcessKeeps == ASSUME TypeOK, OrderInv, Process PROVE OrderInv'
<1>1. CASE Shutdown
  <2>1. UNCHANGED <<queue, step, done, next, diskVars>> /\ (closing => closing')
    BY <1>1 DEF Shutdown
  <2> QED
    BY <2>1, UntouchedKeeps
<1>2. CASE /\ Loaded(disk') /\ disk' \in [Files -> Nat]
           /\ \A f \in Files : disk'[f] \in {disk[f], safe[f]}
  <2>1. queue' = <<>> /\ step' = "idle" /\ UNCHANGED <<next, clean, synced, safe, told, warned>>
    BY <1>2 DEF Loaded
  <2>2. ASSUME NEW f \in Files
        PROVE  /\ safe[f] <= disk'[f] /\ disk'[f] <= next[f] /\ told[f] <= next[f]
               /\ told[f] <= safe[f] \/ f \in warned
    <3>1. disk'[f] \in {disk[f], safe[f]} /\ safe[f] \in Nat /\ disk[f] \in Nat /\ next[f] \in Nat
      BY <1>2 DEF TypeOK
    <3>2. /\ safe[f] <= disk[f] /\ disk[f] <= next[f] /\ told[f] <= next[f]
          /\ told[f] <= safe[f] \/ f \in warned
      BY DEF OrderInv, VersionsInOrder
    <3> QED
      BY <3>1, <3>2
  <2>3. VersionsInOrder'
    BY <2>1, <2>2 DEF VersionsInOrder
  <2> QED
    BY <2>1, <2>3 DEF OrderInv, WriterInStep, NothingTorn, DoneIsOnDisk, QueueIsNewer
<1> QED
  BY <1>1, <1>2, FoundIsWhole DEF OrderInv

LEMMA StoreStep == ASSUME TypeOK, OrderInv, [Next]_vars PROVE TypeOK' /\ OrderInv'
<1>1. TypeOK'
  BY TypeStep DEF OrderInv
<1>2. CASE UNCHANGED vars
  <2>1. UNCHANGED <<queue, step, done, next, diskVars, closing>>
    BY <1>2 DEF vars
  <2> QED
    BY <1>1, <2>1, UntouchedKeeps
<1>3. ASSUME NEW t \in Tasks, Task(t) PROVE OrderInv'
  <2>1. ASSUME NEW f \in Files, NEW k \in Kinds, Change(t, f, k) PROVE OrderInv'
    BY <2>1, ChangeKeeps
  <2>2. CASE Saved(t) \/ Refused(t) \/ Abort(t)
    <3>1. UNCHANGED <<queue, step, done, next, diskVars, closing>>
      BY <2>2 DEF Saved, Refused, Abort
    <3> QED
      BY <3>1, UntouchedKeeps
  <2> QED
    BY <1>3, <2>1, <2>2 DEF Task
<1>4. CASE Writer
  BY <1>1, <1>4, RenameKeeps, WriteFailsKeeps, OtherWriterStepsKeep
<1>5. CASE Process
  BY <1>1, <1>5, ProcessKeeps
<1> QED
  BY <1>1, <1>2, <1>3, <1>4, <1>5 DEF Next

LEMMA InitOrder == Init => OrderInv
BY DEF Init, OrderInv, WriterInStep, NothingTorn, DoneIsOnDisk, QueueIsNewer, VersionsInOrder

\* Every variable of Persistence stays in its domain; in particular a loss of
\* power leaves no torn file.
THEOREM PersistenceTypeCorrect == Spec => []TypeOK
<1>1. Init => TypeOK /\ OrderInv
  BY InitType, InitOrder
<1>2. TypeOK /\ OrderInv /\ [Next]_vars => (TypeOK /\ OrderInv)'
  BY StoreStep
<1> QED
  BY <1>1, <1>2, PTL DEF Spec

\* What was reported saved is in the file after every crash and loss of power,
\* unless its directory could not be synced.
THEOREM ReportsSurvive == Spec => []ReportedSurvives
<1>1. Init => TypeOK /\ OrderInv
  BY InitType, InitOrder
<1>2. TypeOK /\ OrderInv /\ [Next]_vars => (TypeOK /\ OrderInv)'
  BY StoreStep
<1>3. TypeOK /\ OrderInv => ReportedSurvives
  <2> SUFFICES ASSUME TypeOK, OrderInv, NEW f \in Files PROVE told[f] <= disk[f] \/ f \in warned
    BY DEF ReportedSurvives
  <2>1. told[f] \in Nat /\ safe[f] \in Nat /\ disk[f] \in Nat
    BY DEF TypeOK
  <2>2. safe[f] <= disk[f] /\ (told[f] <= safe[f] \/ f \in warned)
    BY DEF OrderInv, VersionsInOrder
  <2> QED
    BY <2>1, <2>2
<1> QED
  BY <1>1, <1>2, <1>3, PTL DEF Spec

-----------------------------------------------------------------------------
(* Persistence implements DurableStore.                                     *)

StoreSame == UNCHANGED <<queue, next, disk, safe, told, warned, step # "stopped">>

LEMMA RefinementInit == Init => Store!Init
BY DEF Init, Store!Init

LEMMA ChangeAsks ==
  ASSUME TypeOK, OrderInv, NEW t \in Tasks, NEW f \in Files, NEW k \in Kinds, Change(t, f, k)
  PROVE  Store!Ask(f)
<1>1. step # "stopped"
  BY DEF Change, OrderInv, WriterInStep
<1> QED
  BY <1>1 DEF Change, diskVars, Store!Ask

LEMMA WriterRefines ==
  ASSUME TypeOK, OrderInv, Writer
  PROVE  StoreSame \/ Store!Next
<1>1. CASE TakeJob \/ WriteTemp \/ SyncTemp
  BY <1>1 DEF TakeJob, WriteTemp, SyncTemp, AfterWrite, WriterGoes, diskVars, StoreSame
<1>2. CASE Rename
  <2>1. queue # <<>> /\ step # "stopped" /\ step' # "stopped"
    BY <1>2 DEF Rename, WriterGoes, OrderInv, WriterInStep
  <2>2. Store!Commit
    BY <1>2, <2>1 DEF Rename, WriterGoes, Job, Store!Commit
  <2> QED
    BY <2>2 DEF Store!Next
<1>3. CASE WriteFails
  <2>1. queue # <<>> /\ step # "stopped" /\ step' # "stopped"
    BY <1>3 DEF WriteFails, WriterGoes, OrderInv, WriterInStep
  <2>2. Store!Refuse
    BY <1>3, <2>1 DEF WriteFails, WriterGoes, diskVars, Store!Refuse
  <2> QED
    BY <2>2 DEF Store!Next
<1>4. step \in {"directory", "reply"} =>
        /\ done.file \in Files /\ disk[done.file] = done.version
        /\ step = "reply" => safe[done.file] = disk[done.file] \/ done.file \in warned
  BY DEF OrderInv, DoneIsOnDisk, Jobs
<1>5. CASE SyncDirectory
  <2>1. Store!Secure(done.file)
    BY <1>5 DEF SyncDirectory, WriterGoes, Store!Secure
  <2>2. done.file \in Files
    BY <1>4, <1>5 DEF SyncDirectory
  <2> QED
    BY <2>1, <2>2 DEF Store!Next
<1>6. CASE SyncDirectoryFails
  <2>1. Store!Warn(done.file)
    BY <1>6 DEF SyncDirectoryFails, WithWarning, WriterGoes, Store!Warn
  <2>2. done.file \in Files
    BY <1>4, <1>6 DEF SyncDirectoryFails
  <2> QED
    BY <2>1, <2>2 DEF Store!Next
<1>7. CASE Reply
  <2>1. done.file \in Files /\ disk[done.file] = done.version
        /\ (safe[done.file] = disk[done.file] \/ done.file \in warned)
    BY <1>4, <1>7 DEF Reply
  <2>2. Store!Report(done.file)
    BY <1>7, <2>1 DEF Reply, WriterGoes, Store!Report
  <2> QED
    BY <2>1, <2>2 DEF Store!Next
<1>8. CASE WriterStops
  <2>1. Store!Close
    BY <1>8 DEF WriterStops, Drained, WriterGoes, diskVars, Store!Close
  <2> QED
    BY <2>1 DEF Store!Next
<1> QED
  BY <1>1, <1>2, <1>3, <1>5, <1>6, <1>7, <1>8 DEF Writer

LEMMA ProcessRefines ==
  ASSUME TypeOK, OrderInv, Process
  PROVE  StoreSame \/ Store!Next
<1>1. CASE Shutdown
  BY <1>1 DEF Shutdown, diskVars, StoreSame
<1>2. CASE /\ Loaded(disk') /\ step # "stopped"
           /\ \E lost \in SUBSET Files :
                disk' = [f \in Files |-> IF f \in lost THEN safe[f] ELSE disk[f]]
  <2>1. queue' = <<>> /\ step' # "stopped" /\ UNCHANGED <<next, safe, told, warned>>
    BY <1>2 DEF Loaded
  <2>2. Store!Crash
    BY <1>2, <2>1 DEF Store!Crash
  <2> QED
    BY <2>2 DEF Store!Next
<1>3. CASE Loaded(disk') /\ step = "stopped" /\ disk' = disk
  <2>1. queue' = <<>> /\ step' # "stopped" /\ UNCHANGED <<next, safe, told, warned>>
    BY <1>3 DEF Loaded
  <2>2. queue = <<>>
    BY <1>3 DEF OrderInv, WriterInStep
  <2>3. Store!Reopen
    BY <1>3, <2>1, <2>2 DEF Store!Reopen
  <2> QED
    BY <2>3 DEF Store!Next
<1> QED
  BY <1>1, <1>2, <1>3, FoundIsWhole DEF OrderInv

\* The writer thread, write_atomic and the tasks that are aborted while they wait
\* keep every promise of DurableStore: writes in the order they were asked for,
\* each entirely or not at all, nothing reported before it is safe, and an empty
\* queue at the end.
THEOREM StoreIsImplemented == Spec => Implements
<1>1. Init => TypeOK /\ OrderInv /\ Store!Init
  BY InitType, InitOrder, RefinementInit
<1>2. TypeOK /\ OrderInv /\ [Next]_vars => (TypeOK /\ OrderInv)'
  BY StoreStep
<1>3. TypeOK /\ OrderInv /\ [Next]_vars => [Store!Next]_(Store!storeVars)
  <2> SUFFICES ASSUME TypeOK, OrderInv, [Next]_vars PROVE StoreSame \/ Store!Next
    BY DEF StoreSame, Store!storeVars
  <2>1. CASE UNCHANGED vars
    BY <2>1 DEF vars, diskVars, StoreSame
  <2>2. ASSUME NEW t \in Tasks, Task(t) PROVE StoreSame \/ Store!Next
    <3>1. ASSUME NEW f \in Files, NEW k \in Kinds, Change(t, f, k) PROVE Store!Next
      BY <3>1, ChangeAsks DEF Store!Next
    <3>2. CASE Saved(t) \/ Refused(t) \/ Abort(t)
      BY <3>2 DEF Saved, Refused, Abort, diskVars, StoreSame
    <3> QED
      BY <2>2, <3>1, <3>2 DEF Task
  <2> QED
    BY <2>1, <2>2, WriterRefines, ProcessRefines DEF Next
<1> QED
  BY <1>1, <1>2, <1>3, PTL DEF Spec, Implements, Store!Spec

-----------------------------------------------------------------------------
(* What the queue will leave on the disk.                                   *)

Ordered(q) ==
  \A i, j \in DOMAIN q : i < j /\ q[i].file = q[j].file => q[i].version < q[j].version

LEMMA JobIs ==
  ASSUME NEW q \in Seq(Jobs), NEW i \in DOMAIN q
  PROVE  q[i] \in Jobs /\ q[i].file \in Files /\ q[i].version \in Nat /\ i \in Nat \ {0}
<1>1. q[i] \in Jobs /\ i \in Nat \ {0}
  BY ElementIs
<1> QED
  BY <1>1 DEF Jobs

LEMMA ExpectedAppend ==
  ASSUME NEW q \in Seq(Jobs), NEW x \in Jobs, NEW f, NEW v \in Nat, NEW below \in Nat,
         NEW onDisk, NEW stale,
         Expected(q, f, v, below, onDisk, stale),
         x.file = f => below <= x.version
  PROVE  Expected(Append(q, x), f, v, below, onDisk, stale)
<1> DEFINE p == Append(q, x)
<1>1. /\ \A i \in DOMAIN q : i \in DOMAIN p /\ p[i] = q[i]
      /\ \A i \in DOMAIN p : p[i] = x \/ (i \in DOMAIN q /\ p[i] = q[i])
  BY AppendIs
<1> HIDE DEF p
<1>2. CASE /\ v < below /\ Queued(q, f, v)
           /\ \A i \in DOMAIN q :
                q[i].file = f => q[i].version <= v \/ below <= q[i].version
  <2>1. Queued(p, f, v)
    BY <1>1, <1>2 DEF Queued
  <2>2. \A i \in DOMAIN p : p[i].file = f => p[i].version <= v \/ below <= p[i].version
    BY <1>1, <1>2
  <2>3. Expected(p, f, v, below, onDisk, stale)
    BY <1>2, <2>1, <2>2 DEF Expected
  <2> QED
    BY <2>3 DEF p
<1>3. CASE /\ \A i \in DOMAIN q : q[i].file = f => below <= q[i].version
           /\ v = onDisk \/ stale
  <2>1. \A i \in DOMAIN p : p[i].file = f => below <= p[i].version
    BY <1>1, <1>3
  <2>2. Expected(p, f, v, below, onDisk, stale)
    BY <1>3, <2>1 DEF Expected
  <2> QED
    BY <2>2 DEF p
<1> QED
  BY <1>2, <1>3 DEF Expected

\* The head is decided.  Its file gets its version, or becomes stale.
LEMMA ExpectedTail ==
  ASSUME NEW q \in Seq(Jobs), q # <<>>, Ordered(q),
         NEW f, NEW v \in Nat, NEW below \in Nat, NEW onDisk, NEW stale,
         NEW newDisk, NEW newStale,
         Expected(q, f, v, below, onDisk, stale),
         IF Head(q).file = f THEN Head(q).version < below /\ (newDisk = Head(q).version \/ newStale)
         ELSE newDisk = onDisk /\ (stale => newStale)
  PROVE  Expected(Tail(q), f, v, below, newDisk, newStale)
<1> DEFINE p == Tail(q)
           h == Head(q)
<1>1. /\ 1 \in DOMAIN q /\ h = q[1] /\ h \in Jobs
      /\ \A i \in DOMAIN p : i \in Nat \ {0} /\ i + 1 \in DOMAIN q /\ p[i] = q[i + 1]
      /\ \A i \in DOMAIN q : i = 1 \/ (i - 1 \in DOMAIN p /\ p[i - 1] = q[i])
  BY TailIs
<1>2. \A i \in DOMAIN q : q[i].version \in Nat
  BY JobIs
<1>3. \A i \in DOMAIN p : p[i].version \in Nat /\ (p[i].file = h.file => h.version < p[i].version)
  <2> TAKE i \in DOMAIN p
  <2>1. i + 1 \in DOMAIN q /\ p[i] = q[i + 1] /\ 1 < i + 1
    BY <1>1
  <2> QED
    BY <1>1, <1>2, <2>1 DEF Ordered
<1> HIDE DEF p, h
<1>4. CASE /\ v < below /\ Queued(q, f, v)
           /\ \A i \in DOMAIN q :
                q[i].file = f => q[i].version <= v \/ below <= q[i].version
  <2>1. \A i \in DOMAIN p : p[i].file = f => p[i].version <= v \/ below <= p[i].version
    BY <1>1, <1>4
  <2>2. CASE h.file = f /\ h.version = v
    <3>1. \A i \in DOMAIN p : p[i].file = f => below <= p[i].version
      BY <1>3, <2>1, <2>2
    <3>2. v = newDisk \/ newStale
      BY <2>2 DEF h
    <3>3. Expected(p, f, v, below, newDisk, newStale)
      BY <3>1, <3>2 DEF Expected
    <3> QED
      BY <3>3 DEF p
  <2>3. CASE ~(h.file = f /\ h.version = v)
    <3>1. PICK i \in DOMAIN q : q[i].file = f /\ q[i].version = v
      BY <1>4 DEF Queued
    <3>2. i - 1 \in DOMAIN p /\ p[i - 1] = q[i]
      BY <1>1, <2>3, <3>1
    <3>3. Queued(p, f, v)
      BY <3>1, <3>2 DEF Queued
    <3>4. Expected(p, f, v, below, newDisk, newStale)
      BY <1>4, <2>1, <3>3 DEF Expected
    <3> QED
      BY <3>4 DEF p
  <2> QED
    BY <2>2, <2>3
<1>5. CASE /\ \A i \in DOMAIN q : q[i].file = f => below <= q[i].version
           /\ v = onDisk \/ stale
  <2>1. h.file # f
    <3> SUFFICES ASSUME h.file = f PROVE FALSE
      OBVIOUS
    <3>1. below <= h.version /\ h.version \in Nat
      BY <1>1, <1>2, <1>5
    <3>2. h.version < below
      BY DEF h
    <3> QED
      BY <3>1, <3>2
  <2>2. \A i \in DOMAIN p : p[i].file = f => below <= p[i].version
    BY <1>1, <1>5
  <2>3. v = newDisk \/ newStale
    BY <1>5, <2>1 DEF h
  <2>4. Expected(p, f, v, below, newDisk, newStale)
    BY <2>2, <2>3 DEF Expected
  <2> QED
    BY <2>4 DEF p
<1> QED
  BY <1>4, <1>5 DEF Expected

LEMMA ExpectedIfNone ==
  ASSUME NEW q, NEW f, NEW v, NEW below, NEW onDisk, NEW stale,
         NoneQueued(q, f), v = onDisk \/ stale
  PROVE  Expected(q, f, v, below, onDisk, stale)
BY DEF NoneQueued, Expected

\* The head is the newest write of its file: no other is queued, and nothing older
\* was to be put back but what is on the disk.
LEMMA HeadIsLast ==
  ASSUME NEW q \in Seq(Jobs), q # <<>>, Ordered(q), NEW a, NEW onDisk, NEW stale,
         InQueue(q, a, onDisk, stale), a.file = Head(q).file, a.version = Head(q).version,
         a.before \in Nat
  PROVE  NoneQueued(Tail(q), a.file) /\ (a.before = onDisk \/ stale)
<1> DEFINE h == Head(q)
<1>1. /\ 1 \in DOMAIN q /\ h = q[1] /\ h \in Jobs
      /\ \A i \in DOMAIN Tail(q) : i \in Nat \ {0} /\ i + 1 \in DOMAIN q /\ Tail(q)[i] = q[i + 1]
  BY TailIs
<1>2. \A i \in DOMAIN q : i \in Nat \ {0} /\ q[i].version \in Nat
  BY JobIs
<1> HIDE DEF h
<1>3. a.file = h.file /\ a.version = h.version
  BY DEF h
<1>4. \A i \in DOMAIN q : q[i].file = a.file => i = 1
  <2> SUFFICES ASSUME NEW i \in DOMAIN q, q[i].file = a.file, i # 1 PROVE FALSE
    OBVIOUS
  <2>1. q[i].version <= a.version
    BY DEF InQueue
  <2>2. 1 < i /\ q[1].version < q[i].version
    BY <1>1, <1>2, <1>3 DEF Ordered
  <2> QED
    BY <1>1, <1>2, <1>3, <2>1, <2>2
<1>5. NoneQueued(Tail(q), a.file)
  <2> SUFFICES ASSUME NEW i \in DOMAIN Tail(q), Tail(q)[i].file = a.file PROVE FALSE
    BY DEF NoneQueued
  <2>1. i + 1 \in DOMAIN q /\ q[i + 1].file = a.file /\ i \in Nat \ {0}
    BY <1>1
  <2> QED
    BY <1>4, <2>1
<1>6. ~(a.before < a.version /\ Queued(q, a.file, a.before))
  BY <1>1, <1>3, <1>4 DEF Queued
<1> QED
  BY <1>5, <1>6 DEF InQueue, Expected

-----------------------------------------------------------------------------
(* The memory, step by step.                                                *)

Record == [file : Files, version : Nat, before : Nat, kind : Kinds]

LEMMA AskedIs ==
  ASSUME TypeOK, NEW t \in Tasks, asked[t] # Nothing
  PROVE  /\ asked[t] \in Record
         /\ asked[t].file \in Files /\ asked[t].version \in Nat /\ asked[t].before \in Nat
<1>1. asked[t] \in Record
  BY DEF TypeOK, Record
<1> QED
  BY <1>1 DEF Record

\* Each file has at most one task waiting for it.
LEMMA OneHolder ==
  ASSUME WaitsWithLock, NEW t \in Tasks, asked[t] # Nothing
  PROVE  /\ holder[asked[t].file] = t /\ asked[t].file \in Files
         /\ \A u \in Tasks : asked[u] # Nothing /\ asked[u].file = asked[t].file => u = t
         /\ memory[asked[t].file] = asked[t].version
         /\ \A f \in Files : holder[f] = t => f = asked[t].file
<1>1. holder[asked[t].file] = t /\ asked[t].file \in Files /\ t # NoTask
  BY PersistenceConstants DEF WaitsWithLock
<1>2. \A u \in Tasks : asked[u] # Nothing => holder[asked[u].file] = u
  BY DEF WaitsWithLock
<1>3. memory[asked[t].file] = asked[t].version
  BY <1>1 DEF WaitsWithLock
<1>4. \A f \in Files : holder[f] = t => f = asked[t].file
  BY <1>1 DEF WaitsWithLock
<1> QED
  BY <1>1, <1>2, <1>3, <1>4

LEMMA WaitingSame ==
  ASSUME NEW t \in Tasks, Waiting(t), asked'[t] = asked[t], answer'[t] = answer[t],
         UNCHANGED <<queue, disk, step, done>>, asked[t].file \in dirty => asked[t].file \in dirty'
  PROVE  Waiting(t)'
<1>1. InQueue(queue, asked[t], disk[asked[t].file], asked[t].file \in dirty)
        => InQueue(queue', asked'[t], disk'[asked'[t].file], asked'[t].file \in dirty')
  BY DEF InQueue, Expected
<1>2. BeingDone(asked[t]) => BeingDone(asked[t])'
  BY DEF BeingDone
<1> QED
  BY <1>1, <1>2 DEF Waiting, BeingDone

LEMMA ChangeKeepsMemory ==
  ASSUME TypeOK, OrderInv, MemoryInv,
         NEW t \in Tasks, NEW f \in Files, NEW k \in Kinds, Change(t, f, k)
  PROVE  MemoryInv'
<1> DEFINE j == [file |-> f, version |-> next[f] + 1]
           a == [file |-> f, version |-> next[f] + 1, before |-> memory[f], kind |-> k]
<1>1. /\ j \in Jobs /\ j.file = f /\ j.version = next[f] + 1
      /\ next[f] \in Nat /\ memory[f] \in Nat
      /\ a.file = f /\ a.version = next[f] + 1 /\ a.before = memory[f] /\ a # Nothing
  <2>1. next[f] \in Nat /\ memory[f] \in Nat
    BY DEF TypeOK
  <2>2. a.version # 0 /\ Nothing.version = 0
    BY <2>1 DEF Nothing
  <2> QED
    BY <2>1, <2>2 DEF Jobs
<1>2. /\ queue \in Seq(Jobs) /\ queue' = Append(queue, j)
      /\ holder' = [holder EXCEPT ![f] = t] /\ asked' = [asked EXCEPT ![t] = a]
      /\ memory' = [memory EXCEPT ![f] = next[f] + 1] /\ next' = [next EXCEPT ![f] = @ + 1]
      /\ holder[f] = NoTask /\ asked[t] = Nothing
      /\ UNCHANGED <<answer, dirty, step, done, disk>>
  BY DEF Change, TypeOK, diskVars
<1> HIDE DEF j, a
<1>3. t # NoTask
  BY PersistenceConstants
<1>4. /\ \A u \in Tasks : u # t => asked'[u] = asked[u]
      /\ asked'[t] = a
      /\ \A g \in Files : g # f => /\ holder'[g] = holder[g] /\ memory'[g] = memory[g]
                                  /\ next'[g] = next[g]
      /\ holder'[f] = t /\ memory'[f] = next[f] + 1
      /\ answer[t] = "none"
      /\ \A u \in Tasks : asked[u] # Nothing => asked[u].file \in Files /\ asked[u].file # f
  <2>1. answer[t] = "none"
    BY <1>2 DEF MemoryInv, WaitsWithLock
  <2>2. \A u \in Tasks : asked[u] # Nothing => asked[u].file \in Files /\ asked[u].file # f
    BY <1>2, PersistenceConstants DEF MemoryInv, WaitsWithLock
  <2> QED
    BY <1>2, <2>1, <2>2 DEF TypeOK
<1>5. WaitsWithLock'
  <2>1. ASSUME NEW u \in Tasks
        PROVE  \/ asked'[u] = Nothing /\ answer'[u] = "none"
               \/ /\ asked'[u] # Nothing
                  /\ asked'[u].file \in Files /\ asked'[u].version \in Nat
                  /\ holder'[asked'[u].file] = u
    <3>1. CASE u = t
      BY <1>1, <1>4, <3>1
    <3>2. CASE u # t
      BY <1>2, <1>4, <3>2 DEF MemoryInv, WaitsWithLock
    <3> QED
      BY <3>1, <3>2
  <2>2. ASSUME NEW g \in Files, holder'[g] # NoTask
        PROVE  /\ asked'[holder'[g]] # Nothing /\ asked'[holder'[g]].file = g
               /\ memory'[g] = asked'[holder'[g]].version
    <3>1. CASE g = f
      BY <1>1, <1>4, <3>1
    <3>2. CASE g # f
      <4>1. holder'[g] = holder[g] /\ memory'[g] = memory[g] /\ holder[g] \in Tasks
        BY <1>4, <2>2, <3>2 DEF TypeOK
      <4>2. asked[holder[g]] # Nothing /\ asked[holder[g]].file = g
            /\ memory[g] = asked[holder[g]].version
        BY <2>2, <4>1 DEF MemoryInv, WaitsWithLock
      <4>3. holder[g] # t
        BY <1>2, <4>2
      <4> QED
        BY <1>4, <4>1, <4>2, <4>3
    <3> QED
      BY <3>1, <3>2
  <2> QED
    BY <2>1, <2>2 DEF WaitsWithLock
<1>6. UnlockedExpected'
  <2> SUFFICES ASSUME NEW g \in Files, holder'[g] = NoTask
               PROVE  Expected(queue', g, memory'[g], next'[g] + 1, disk'[g], g \in dirty')
    BY DEF UnlockedExpected
  <2>1. g # f
    BY <1>3, <1>4
  <2>2. Expected(queue, g, memory[g], next[g] + 1, disk[g], g \in dirty)
    BY <1>4, <2>1 DEF MemoryInv, UnlockedExpected
  <2>3. memory[g] \in Nat /\ next[g] + 1 \in Nat
    BY DEF TypeOK
  <2>4. Expected(Append(queue, j), g, memory[g], next[g] + 1, disk[g], g \in dirty)
    BY <1>1, <1>2, <2>1, <2>2, <2>3, ExpectedAppend
  <2> QED
    BY <1>2, <1>4, <2>1, <2>4
<1>7. \A i \in DOMAIN queue' :
        \/ queue'[i] = j
        \/ i \in DOMAIN queue /\ queue'[i] = queue[i] /\ queue[i].file \in Files
           /\ queue[i].version <= next[queue[i].file] /\ queue[i].version \in Nat
  BY <1>1, <1>2, AppendIs, JobIs DEF OrderInv, QueueIsNewer
<1>8. \E i \in DOMAIN queue' : queue'[i] = j
  BY <1>1, <1>2, AppendIs
<1>9. Waiting(t)'
  <2>1. Queued(queue', f, next[f] + 1)
    BY <1>1, <1>8 DEF Queued
  <2>2. \A i \in DOMAIN queue' : queue'[i].file = f => queue'[i].version <= next[f] + 1
    BY <1>1, <1>7
  <2>3. Expected(queue, f, memory[f], next[f] + 1, disk[f], f \in dirty)
    BY <1>2 DEF MemoryInv, UnlockedExpected
  <2>4. Expected(queue', f, memory[f], next[f] + 1, disk[f], f \in dirty)
    <3>1. next[f] + 1 \in Nat
      BY <1>1
    <3> QED
      BY <1>1, <1>2, <2>3, <3>1, ExpectedAppend
  <2>5. InQueue(queue', a, disk[f], f \in dirty)
    BY <1>1, <2>1, <2>2, <2>4 DEF InQueue
  <2> QED
    BY <1>1, <1>2, <1>4, <2>5 DEF Waiting
<1>10. ASSUME NEW u \in Tasks, u # t, asked[u] # Nothing PROVE Waiting(u)'
  <2> DEFINE b == asked[u]
  <2>1. /\ b.file \in Files /\ b.file # f /\ asked'[u] = b /\ answer'[u] = answer[u]
        /\ b.before \in Nat /\ b.version \in Nat
    BY <1>2, <1>4, <1>10, AskedIs
  <2>2. Waiting(u)
    BY <1>10 DEF MemoryInv, WaitingExpected
  <2> HIDE DEF b
  <2>3. NoneQueued(queue, b.file) => NoneQueued(queue', b.file)
    BY <1>1, <1>7, <2>1 DEF NoneQueued
  <2>4. ASSUME InQueue(queue, b, disk[b.file], b.file \in dirty)
        PROVE  InQueue(queue', b, disk[b.file], b.file \in dirty)
    <3>1. Queued(queue', b.file, b.version)
      BY <1>1, <1>2, <2>4, AppendIs DEF InQueue, Queued
    <3>2. \A i \in DOMAIN queue' : queue'[i].file = b.file => queue'[i].version <= b.version
      BY <1>1, <1>7, <2>1, <2>4 DEF InQueue
    <3>3. Expected(queue', b.file, b.before, b.version, disk[b.file], b.file \in dirty)
      BY <1>1, <1>2, <2>1, <2>4, ExpectedAppend DEF InQueue
    <3> QED
      BY <3>1, <3>2, <3>3 DEF InQueue
  <2>5. BeingDone(b) => step' \in {"directory", "reply"} /\ done'.file = b.file
                       /\ done'.version = b.version /\ NoneQueued(queue', b.file)
    BY <1>2, <2>3 DEF BeingDone
  <2> QED
    BY <1>2, <2>1, <2>2, <2>3, <2>4, <2>5 DEF Waiting, BeingDone, b
<1> QED
  BY <1>4, <1>5, <1>6, <1>9, <1>10 DEF MemoryInv, WaitingExpected

\* A task lets its lock go, and the memory of its file is as it should be.
LEMMA FreeKeepsMemory ==
  ASSUME TypeOK, MemoryInv, NEW t \in Tasks, asked[t] # Nothing, Free(t),
         UNCHANGED <<queue, disk, step, done, next>>,
         dirty \subseteq dirty',
         \A g \in Files : g # asked[t].file => memory'[g] = memory[g],
         Expected(queue, asked[t].file, memory'[asked[t].file], next[asked[t].file] + 1,
                  disk[asked[t].file], asked[t].file \in dirty')
  PROVE  MemoryInv'
<1> DEFINE f == asked[t].file
<1>1. /\ f \in Files /\ holder[f] = t /\ t # NoTask
      /\ \A u \in Tasks : asked[u] # Nothing /\ asked[u].file = f => u = t
      /\ \A g \in Files : holder[g] = t => g = f
  BY OneHolder, PersistenceConstants DEF MemoryInv
<1>2. /\ \A g \in Files : holder'[g] = IF g = f THEN NoTask ELSE holder[g]
      /\ asked'[t] = Nothing /\ answer'[t] = "none"
      /\ \A u \in Tasks : u # t => asked'[u] = asked[u] /\ answer'[u] = answer[u]
  BY <1>1 DEF Free, TypeOK
<1> HIDE DEF f
<1>3. WaitsWithLock'
  <2>1. ASSUME NEW u \in Tasks
        PROVE  \/ asked'[u] = Nothing /\ answer'[u] = "none"
               \/ /\ asked'[u] # Nothing
                  /\ asked'[u].file \in Files /\ asked'[u].version \in Nat
                  /\ holder'[asked'[u].file] = u
    BY <1>1, <1>2 DEF MemoryInv, WaitsWithLock
  <2>2. ASSUME NEW g \in Files, holder'[g] # NoTask
        PROVE  /\ asked'[holder'[g]] # Nothing /\ asked'[holder'[g]].file = g
               /\ memory'[g] = asked'[holder'[g]].version
    <3>1. g # f /\ holder'[g] = holder[g] /\ holder[g] \in Tasks /\ holder[g] # t
          /\ memory'[g] = memory[g]
      BY <1>1, <1>2, <2>2 DEF TypeOK, f
    <3> QED
      BY <1>2, <2>2, <3>1 DEF MemoryInv, WaitsWithLock
  <2> QED
    BY <2>1, <2>2 DEF WaitsWithLock
<1>4. UnlockedExpected'
  <2> SUFFICES ASSUME NEW g \in Files, holder'[g] = NoTask
               PROVE  Expected(queue', g, memory'[g], next'[g] + 1, disk'[g], g \in dirty')
    BY DEF UnlockedExpected
  <2>1. CASE g = f
    BY <2>1 DEF f
  <2>2. CASE g # f
    <3>1. Expected(queue, g, memory[g], next[g] + 1, disk[g], g \in dirty)
      BY <1>2, <2>2 DEF MemoryInv, UnlockedExpected
    <3>2. memory'[g] = memory[g]
      BY <2>2 DEF f
    <3> QED
      BY <3>1, <3>2 DEF Expected
  <2> QED
    BY <2>1, <2>2
<1>5. ASSUME NEW u \in Tasks, asked'[u] # Nothing PROVE Waiting(u)'
  <2>1. u # t /\ asked'[u] = asked[u] /\ answer'[u] = answer[u] /\ Waiting(u)
    BY <1>2, <1>5 DEF MemoryInv, WaitingExpected
  <2> QED
    BY <2>1, WaitingSame
<1> QED
  BY <1>3, <1>4, <1>5 DEF MemoryInv, WaitingExpected

LEMMA TaskKeepsMemory ==
  ASSUME TypeOK, OrderInv, MemoryInv, NEW t \in Tasks, Saved(t) \/ Refused(t) \/ Abort(t)
  PROVE  MemoryInv'
<1> DEFINE f == asked[t].file
<1>1. asked[t] # Nothing
  BY DEF Saved, Refused, Abort, MemoryInv, WaitsWithLock
<1>2. /\ f \in Files /\ asked[t].version \in Nat /\ asked[t].before \in Nat
      /\ memory[f] = asked[t].version /\ Waiting(t) /\ disk[f] \in Nat /\ next[f] \in Nat
  BY <1>1, AskedIs, OneHolder DEF MemoryInv, WaitingExpected, TypeOK
<1>3. Free(t) /\ UNCHANGED <<queue, disk, step, done, next>> /\ dirty \subseteq dirty'
  BY DEF Saved, Refused, Abort, diskVars
<1>4. \A g \in Files : g # f => memory'[g] = memory[g]
  BY DEF Saved, Refused, Abort, TypeOK
<1> HIDE DEF f
<1>5. Expected(queue, f, memory'[f], next[f] + 1, disk[f], f \in dirty')
  <2>1. CASE Saved(t)
    <3>1. NoneQueued(queue, f) /\ disk[f] = asked[t].version /\ memory' = memory
      BY <1>2, <2>1 DEF Saved, Waiting, f
    <3> QED
      BY <1>2, <3>1, ExpectedIfNone
  <2>2. CASE Refused(t)
    <3>1. NoneQueued(queue, f) /\ (asked[t].before = disk[f] \/ f \in dirty)
      BY <1>2, <2>2 DEF Refused, Waiting, f
    <3>2. memory'[f] = asked[t].before \/ f \in dirty'
      BY <1>2, <2>2 DEF Refused, TakenBack, TypeOK, f
    <3>3. memory'[f] = disk[f] \/ f \in dirty'
      BY <1>3, <3>1, <3>2
    <3> QED
      BY <3>1, <3>3 DEF NoneQueued, Expected
  <2>3. CASE Abort(t)
    <3>1. memory' = memory /\ (answer[t] = "error" => f \in dirty')
      BY <2>3 DEF Abort, f
    <3>2. CASE InQueue(queue, asked[t], disk[f], f \in dirty)
      <4>1. asked[t].version < next[f] + 1
        <5>1. PICK i \in DOMAIN queue : queue[i].file = f /\ queue[i].version = asked[t].version
          BY <3>2 DEF InQueue, Queued, f
        <5>2. queue[i].version <= next[f]
          BY <5>1 DEF OrderInv, QueueIsNewer
        <5> QED
          BY <1>2, <5>1, <5>2
      <4>2. /\ Queued(queue, f, memory'[f])
            /\ \A i \in DOMAIN queue : queue[i].file = f => queue[i].version <= memory'[f]
        BY <1>2, <3>1, <3>2 DEF InQueue, f
      <4> QED
        BY <1>2, <3>1, <4>1, <4>2 DEF Expected
    <3>3. CASE NoneQueued(queue, f) /\ (disk[f] = asked[t].version \/ f \in dirty')
      BY <1>2, <3>1, <3>3 DEF NoneQueued, Expected
    <3>4. BeingDone(asked[t]) => NoneQueued(queue, f) /\ disk[f] = asked[t].version
      BY DEF BeingDone, OrderInv, DoneIsOnDisk, f
    <3> QED
      BY <1>2, <1>3, <3>1, <3>2, <3>3, <3>4 DEF Waiting, TypeOK, f
  <2> QED
    BY <2>1, <2>2, <2>3
<1> QED
  BY <1>1, <1>3, <1>4, <1>5, FreeKeepsMemory DEF f

LEMMA HeadFacts ==
  ASSUME TypeOK, OrderInv, queue # <<>>
  PROVE  /\ queue \in Seq(Jobs) /\ Ordered(queue)
         /\ Job.file \in Files /\ Job.version \in Nat /\ Job.version # 0
         /\ Job.version <= next[Job.file]
         /\ ~NoneQueued(queue, Job.file)
         /\ \A f : NoneQueued(queue, f) => NoneQueued(Tail(queue), f)
         /\ \A f, v : Queued(queue, f, v) /\ ~(Job.file = f /\ Job.version = v)
                        => Queued(Tail(queue), f, v)
         /\ \A f, v : (\A i \in DOMAIN queue : queue[i].file = f => queue[i].version <= v)
                => /\ \A i \in DOMAIN Tail(queue) :
                        Tail(queue)[i].file = f => Tail(queue)[i].version <= v
                   /\ Job.file = f => Job.version <= v
<1>1. queue \in Seq(Jobs) /\ Ordered(queue)
  BY DEF TypeOK, OrderInv, QueueIsNewer, Ordered
<1>2. /\ 1 \in DOMAIN queue /\ Job = queue[1]
      /\ \A i \in DOMAIN Tail(queue) : i + 1 \in DOMAIN queue /\ Tail(queue)[i] = queue[i + 1]
      /\ \A i \in DOMAIN queue : i = 1 \/ (i - 1 \in DOMAIN Tail(queue)
                                            /\ Tail(queue)[i - 1] = queue[i])
  BY <1>1, TailIs DEF Job
<1>3. /\ Job.file \in Files /\ Job.version \in Nat /\ Job.version <= next[Job.file]
      /\ Job.version # 0
  <2>1. Job.file \in Files /\ Job.version \in Nat /\ Job.version <= next[Job.file]
        /\ disk[Job.file] < Job.version
    BY TailStaysNewer DEF OrderInv
  <2>2. disk[Job.file] \in Nat
    BY <2>1 DEF TypeOK
  <2> QED
    BY <2>1, <2>2
<1>4. ~NoneQueued(queue, Job.file)
  BY <1>2 DEF NoneQueued
<1>5. \A f : NoneQueued(queue, f) => NoneQueued(Tail(queue), f)
  BY <1>2 DEF NoneQueued
<1>6. ASSUME NEW f, NEW v, Queued(queue, f, v), ~(Job.file = f /\ Job.version = v)
      PROVE  Queued(Tail(queue), f, v)
  <2>1. PICK i \in DOMAIN queue : queue[i].file = f /\ queue[i].version = v
    BY <1>6 DEF Queued
  <2>2. i - 1 \in DOMAIN Tail(queue) /\ Tail(queue)[i - 1] = queue[i]
    BY <1>2, <1>6, <2>1
  <2> QED
    BY <2>1, <2>2 DEF Queued
<1>7. \A f, v : (\A i \in DOMAIN queue : queue[i].file = f => queue[i].version <= v)
        => /\ \A i \in DOMAIN Tail(queue) :
                Tail(queue)[i].file = f => Tail(queue)[i].version <= v
           /\ Job.file = f => Job.version <= v
  BY <1>2
<1> QED
  BY <1>1, <1>3, <1>4, <1>5, <1>6, <1>7

\* The head is decided: the memory to be expected of a file stays the same.
LEMMA Decided ==
  ASSUME TypeOK, OrderInv, queue # <<>>, queue' = Tail(queue),
         NEW f, NEW v \in Nat, NEW below \in Nat,
         Expected(queue, f, v, below, disk[f], f \in dirty),
         IF Job.file = f THEN Job.version < below /\ (disk'[f] = Job.version \/ f \in dirty')
         ELSE disk'[f] = disk[f] /\ (f \in dirty => f \in dirty')
  PROVE  Expected(queue', f, v, below, disk'[f], f \in dirty')
<1>1. queue \in Seq(Jobs) /\ Ordered(queue)
  BY HeadFacts
<1> DEFINE stale == f \in dirty
           newStale == f \in dirty'
<1>2. Expected(queue, f, v, below, disk[f], stale)
  OBVIOUS
<1>3. IF Head(queue).file = f
      THEN Head(queue).version < below /\ (disk'[f] = Head(queue).version \/ newStale)
      ELSE disk'[f] = disk[f] /\ (stale => newStale)
  BY DEF Job
<1>4. Expected(Tail(queue), f, v, below, disk'[f], newStale)
  <2> HIDE DEF stale, newStale
  <2> QED
    BY <1>1, <1>2, <1>3, ExpectedTail
<1> QED
  BY <1>4

\* So does what a task may expect whose own write is still queued.
LEMMA DecidedForAnother ==
  ASSUME TypeOK, OrderInv, queue # <<>>, queue' = Tail(queue),
         NEW t \in Tasks, asked[t] # Nothing, asked'[t] = asked[t],
         InQueue(queue, asked[t], disk[asked[t].file], asked[t].file \in dirty),
         ~(Job.file = asked[t].file /\ Job.version = asked[t].version),
         IF Job.file = asked[t].file
         THEN disk'[asked[t].file] = Job.version \/ asked[t].file \in dirty'
         ELSE disk'[asked[t].file] = disk[asked[t].file]
              /\ (asked[t].file \in dirty => asked[t].file \in dirty')
  PROVE  InQueue(queue', asked'[t], disk'[asked'[t].file], asked'[t].file \in dirty')
<1> DEFINE a == asked[t]
<1>1. a.file \in Files /\ a.version \in Nat /\ a.before \in Nat
  BY AskedIs
<1> HIDE DEF a
<1>2. Queued(queue', a.file, a.version)
  BY HeadFacts DEF InQueue, a
<1>3. /\ \A i \in DOMAIN queue' : queue'[i].file = a.file => queue'[i].version <= a.version
      /\ Job.file = a.file => Job.version <= a.version
  BY HeadFacts DEF InQueue, a
<1>4. Job.file = a.file => Job.version < a.version
  BY <1>1, <1>3, HeadFacts DEF a
<1>5. Expected(queue, a.file, a.before, a.version, disk[a.file], a.file \in dirty)
  BY DEF InQueue, a
<1>6. IF Job.file = a.file
      THEN Job.version < a.version /\ (disk'[a.file] = Job.version \/ a.file \in dirty')
      ELSE disk'[a.file] = disk[a.file] /\ (a.file \in dirty => a.file \in dirty')
  BY <1>4 DEF a
<1>7. Expected(queue', a.file, a.before, a.version, disk'[a.file], a.file \in dirty')
  BY <1>1, <1>5, <1>6, Decided
<1>8. InQueue(queue', a, disk'[a.file], a.file \in dirty')
  BY <1>2, <1>3, <1>7 DEF InQueue
<1> QED
  BY <1>8 DEF a

LEMMA RenameKeepsMemory == ASSUME TypeOK, OrderInv, MemoryInv, Rename PROVE MemoryInv'
<1>1. /\ queue # <<>> /\ queue' = Tail(queue) /\ step = "rename" /\ step' = "directory"
      /\ disk' = [disk EXCEPT ![Job.file] = Job.version]
      /\ dirty' = dirty \ {Job.file} /\ done' = Job
      /\ UNCHANGED <<memory, holder, asked, answer, next>>
  BY DEF Rename, WriterGoes, OrderInv, WriterInStep
<1>2. Job.file \in Files /\ Job.version \in Nat /\ Job.version <= next[Job.file]
  BY <1>1, HeadFacts
<1>3. \A f \in Files : IF Job.file = f THEN disk'[f] = Job.version
                      ELSE disk'[f] = disk[f] /\ (f \in dirty => f \in dirty')
  BY <1>1, <1>2 DEF TypeOK
<1>4. WaitsWithLock'
  BY <1>1 DEF MemoryInv, WaitsWithLock
<1>5. UnlockedExpected'
  <2> SUFFICES ASSUME NEW g \in Files, holder'[g] = NoTask
               PROVE  Expected(queue', g, memory'[g], next'[g] + 1, disk'[g], g \in dirty')
    BY DEF UnlockedExpected
  <2>1. Expected(queue, g, memory[g], next[g] + 1, disk[g], g \in dirty)
    BY <1>1 DEF MemoryInv, UnlockedExpected
  <2>2. memory[g] \in Nat /\ next[g] + 1 \in Nat /\ next[g] \in Nat
    BY DEF TypeOK
  <2>3. Job.file = g => Job.version < next[g] + 1
    BY <1>2, <2>2
  <2>4. Expected(queue', g, memory[g], next[g] + 1, disk'[g], g \in dirty')
    BY <1>1, <1>3, <2>1, <2>2, <2>3, Decided
  <2> QED
    BY <1>1, <2>4
<1>6. ASSUME NEW t \in Tasks, asked'[t] # Nothing PROVE Waiting(t)'
  <2> DEFINE a == asked[t]
  <2>1. /\ asked[t] # Nothing /\ asked'[t] = a /\ answer'[t] = answer[t] /\ Waiting(t)
        /\ a.file \in Files /\ a.version \in Nat /\ a.before \in Nat
    BY <1>1, <1>6, AskedIs DEF MemoryInv, WaitingExpected
  <2>2. NoneQueued(queue, a.file) => /\ NoneQueued(queue', a.file) /\ a.file # Job.file
                                    /\ disk'[a.file] = disk[a.file]
                                    /\ (a.file \in dirty => a.file \in dirty')
    BY <1>1, <1>3, <2>1, HeadFacts
  <2>3. ASSUME InQueue(queue, a, disk[a.file], a.file \in dirty),
               a.file = Job.file, a.version = Job.version
        PROVE  BeingDone(a)'
    <3>1. NoneQueued(Tail(queue), a.file)
      <4> DEFINE stale == a.file \in dirty
      <4>1. InQueue(queue, a, disk[a.file], stale)
        BY <2>3
      <4> HIDE DEF stale, a
      <4> QED
        BY <1>1, <2>1, <2>3, <4>1, HeadFacts, HeadIsLast DEF Job
    <3> QED
      BY <1>1, <2>1, <2>3, <3>1 DEF BeingDone
  <2>4. ASSUME InQueue(queue, a, disk[a.file], a.file \in dirty),
               ~(Job.file = a.file /\ Job.version = a.version)
        PROVE  InQueue(queue', asked'[t], disk'[asked'[t].file], asked'[t].file \in dirty')
    <3>1. IF Job.file = a.file THEN disk'[a.file] = Job.version \/ a.file \in dirty'
          ELSE disk'[a.file] = disk[a.file] /\ (a.file \in dirty => a.file \in dirty')
      BY <1>3, <2>1
    <3> QED
      BY <1>1, <2>1, <2>4, <3>1, DecidedForAnother
  <2>5. ~BeingDone(a)
    BY <1>1 DEF BeingDone
  <2> QED
    BY <2>1, <2>2, <2>3, <2>4, <2>5 DEF Waiting
<1> QED
  BY <1>4, <1>5, <1>6 DEF MemoryInv, WaitingExpected

LEMMA WriteFailsKeepsMemory == ASSUME TypeOK, OrderInv, MemoryInv, WriteFails PROVE MemoryInv'
<1>1. /\ queue # <<>> /\ queue' = Tail(queue)
      /\ step \in {"write", "sync", "rename"} /\ step' = "idle"
      /\ answer' = [t \in Tasks |-> IF t \in Asker(Job) THEN "error" ELSE answer[t]]
      /\ dirty' = IF Asker(Job) = {} THEN dirty \cup {Job.file} ELSE dirty
      /\ UNCHANGED <<memory, holder, asked, next, disk, done>>
  BY DEF WriteFails, WriterGoes, OrderInv, WriterInStep, diskVars
<1>2. /\ Job.file \in Files /\ Job.version \in Nat /\ Job.version # 0
      /\ Job.version <= next[Job.file]
  BY <1>1, HeadFacts
<1>3. \A t \in Tasks : t \in Asker(Job) =>
        /\ asked[t] # Nothing /\ asked[t].file = Job.file /\ asked[t].version = Job.version
        /\ holder[Job.file] = t /\ holder[Job.file] # NoTask
  BY <1>2, OneHolder, PersistenceConstants DEF Asker, Nothing, MemoryInv
<1>4. \A f \in Files : f \in dirty => f \in dirty'
  BY <1>1
<1>5. WaitsWithLock'
  BY <1>1, <1>3 DEF MemoryInv, WaitsWithLock
<1>6. UnlockedExpected'
  <2> SUFFICES ASSUME NEW g \in Files, holder'[g] = NoTask
               PROVE  Expected(queue', g, memory'[g], next'[g] + 1, disk'[g], g \in dirty')
    BY DEF UnlockedExpected
  <2>1. Expected(queue, g, memory[g], next[g] + 1, disk[g], g \in dirty)
    BY <1>1 DEF MemoryInv, UnlockedExpected
  <2>2. memory[g] \in Nat /\ next[g] + 1 \in Nat /\ next[g] \in Nat
    BY DEF TypeOK
  <2>3. Job.file = g => Job.version < next[g] + 1 /\ g \in dirty'
    <3>1. Job.file = g => Asker(Job) = {}
      BY <1>1, <1>3 DEF Asker
    <3> QED
      BY <1>1, <1>2, <2>2, <3>1
  <2>4. Expected(queue', g, memory[g], next[g] + 1, disk'[g], g \in dirty')
    BY <1>1, <1>4, <2>1, <2>2, <2>3, Decided
  <2> QED
    BY <1>1, <2>4
<1>7. ASSUME NEW t \in Tasks, asked'[t] # Nothing PROVE Waiting(t)'
  <2> DEFINE a == asked[t]
  <2>1. /\ asked[t] # Nothing /\ asked'[t] = a /\ Waiting(t)
        /\ a.file \in Files /\ a.version \in Nat /\ a.before \in Nat
        /\ answer[t] \in {"none", "ok", "error"}
    BY <1>1, <1>7, AskedIs DEF MemoryInv, WaitingExpected, TypeOK
  <2>2. NoneQueued(queue, a.file) => /\ NoneQueued(queue', a.file) /\ a.file # Job.file
                                    /\ disk'[a.file] = disk[a.file]
                                    /\ (a.file \in dirty => a.file \in dirty')
    BY <1>1, <1>4, <2>1, HeadFacts
  <2>3. ~BeingDone(a)
    BY <1>1 DEF BeingDone
  <2>4. CASE t \in Asker(Job)
    <3>1. a.file = Job.file /\ a.version = Job.version /\ answer'[t] = "error"
      BY <1>1, <1>3, <2>4
    <3>2. answer[t] = "none"
      BY <1>1, <2>1, <2>2, <3>1 DEF Waiting
    <3>3. InQueue(queue, a, disk[a.file], a.file \in dirty)
      BY <2>1, <2>3, <3>2 DEF Waiting
    <3>4. NoneQueued(Tail(queue), a.file) /\ (a.before = disk[a.file] \/ a.file \in dirty)
      <4> DEFINE stale == a.file \in dirty
      <4>1. InQueue(queue, a, disk[a.file], stale)
        BY <3>3
      <4>2. NoneQueued(Tail(queue), a.file) /\ (a.before = disk[a.file] \/ stale)
        <5> HIDE DEF stale, a
        <5> QED
          BY <1>1, <2>1, <3>1, <4>1, HeadFacts, HeadIsLast DEF Job
      <4> QED
        BY <4>2
    <3> QED
      BY <1>1, <1>4, <2>1, <3>1, <3>4 DEF Waiting
  <2>5. CASE t \notin Asker(Job)
    <3>1. answer'[t] = answer[t] /\ ~(Job.file = a.file /\ Job.version = a.version)
      BY <1>1, <2>5 DEF Asker
    <3>2. ASSUME InQueue(queue, a, disk[a.file], a.file \in dirty)
          PROVE  InQueue(queue', asked'[t], disk'[asked'[t].file], asked'[t].file \in dirty')
      <4>1. Job.file = a.file => Asker(Job) = {}
        BY <1>3, <2>1, <2>5, OneHolder DEF Asker, MemoryInv
      <4>2. IF Job.file = a.file THEN disk'[a.file] = Job.version \/ a.file \in dirty'
            ELSE disk'[a.file] = disk[a.file] /\ (a.file \in dirty => a.file \in dirty')
        BY <1>1, <1>4, <2>1, <4>1
      <4> QED
        BY <1>1, <2>1, <3>1, <3>2, <4>2, DecidedForAnother
    <3> QED
      BY <2>1, <2>2, <2>3, <3>1, <3>2 DEF Waiting
  <2> QED
    BY <2>4, <2>5
<1> QED
  BY <1>5, <1>6, <1>7 DEF MemoryInv, WaitingExpected

\* Steps of the writer that touch neither a file's content nor the queue.
LEMMA WriterKeepsMemory ==
  ASSUME TypeOK, OrderInv, MemoryInv,
         TakeJob \/ WriteTemp \/ SyncTemp \/ WriterStops \/ SyncDirectory \/ SyncDirectoryFails
  PROVE  MemoryInv'
<1>1. /\ UNCHANGED <<memory, holder, asked, answer, dirty, queue, done, next, disk>>
      /\ step \in {"directory", "reply"} => step' \in {"directory", "reply"}
  BY DEF TakeJob, WriteTemp, SyncTemp, WriterStops, SyncDirectory, SyncDirectoryFails,
         WriterGoes, diskVars, AfterWrite, Drained
<1>2. WaitsWithLock' /\ UnlockedExpected'
  BY <1>1 DEF MemoryInv, WaitsWithLock, UnlockedExpected, Expected
<1>3. ASSUME NEW t \in Tasks, asked'[t] # Nothing PROVE Waiting(t)'
  <2>1. Waiting(t)
    BY <1>1, <1>3 DEF MemoryInv, WaitingExpected
  <2>2. InQueue(queue, asked[t], disk[asked[t].file], asked[t].file \in dirty)
          => InQueue(queue', asked'[t], disk'[asked'[t].file], asked'[t].file \in dirty')
    BY <1>1 DEF InQueue, Expected
  <2>3. BeingDone(asked[t]) => BeingDone(asked[t])'
    BY <1>1 DEF BeingDone
  <2> QED
    BY <1>1, <2>1, <2>2, <2>3 DEF Waiting, BeingDone
<1> QED
  BY <1>2, <1>3 DEF MemoryInv, WaitingExpected

LEMMA ReplyKeepsMemory == ASSUME TypeOK, OrderInv, MemoryInv, Reply PROVE MemoryInv'
<1>1. /\ UNCHANGED <<memory, holder, asked, dirty, queue, next, disk>>
      /\ step = "reply" /\ step' = "idle"
      /\ answer' = [t \in Tasks |-> IF t \in Asker(done) THEN "ok" ELSE answer[t]]
  BY DEF Reply, WriterGoes
<1>2. /\ done \in Jobs /\ done.file \in Files /\ done.version \in Nat /\ done.version # 0
      /\ disk[done.file] = done.version
  BY <1>1 DEF OrderInv, DoneIsOnDisk, Jobs
<1>3. \A t \in Tasks : t \in Asker(done) => asked[t] # Nothing
  BY <1>2 DEF Asker, Nothing
<1>4. WaitsWithLock'
  BY <1>1, <1>3 DEF MemoryInv, WaitsWithLock
<1>5. UnlockedExpected'
  BY <1>1 DEF MemoryInv, UnlockedExpected, Expected
<1>6. ASSUME NEW t \in Tasks, asked'[t] # Nothing PROVE Waiting(t)'
  <2> DEFINE a == asked[t]
  <2>1. /\ asked[t] # Nothing /\ asked'[t] = a /\ Waiting(t)
        /\ a.file \in Files /\ a.version \in Nat
        /\ answer[t] \in {"none", "ok", "error"}
    BY <1>1, <1>6, AskedIs DEF MemoryInv, WaitingExpected, TypeOK
  <2>2. CASE t \in Asker(done)
    <3>1. a.file = done.file /\ a.version = done.version /\ answer'[t] = "ok"
      BY <1>1, <2>2 DEF Asker
    <3>2. ~InQueue(queue, a, disk[a.file], a.file \in dirty)
      <4> SUFFICES ASSUME InQueue(queue, a, disk[a.file], a.file \in dirty) PROVE FALSE
        OBVIOUS
      <4>1. PICK i \in DOMAIN queue : queue[i].file = a.file /\ queue[i].version = a.version
        BY DEF InQueue, Queued
      <4>2. disk[a.file] < a.version
        BY <4>1 DEF OrderInv, QueueIsNewer
      <4> QED
        BY <1>2, <3>1, <4>2
    <3>3. NoneQueued(queue, a.file)
      BY <2>1, <3>2 DEF Waiting, BeingDone
    <3> QED
      BY <1>1, <1>2, <2>1, <3>1, <3>3 DEF Waiting, NoneQueued
  <2>3. CASE t \notin Asker(done)
    <3>1. answer'[t] = answer[t] /\ ~BeingDone(a)
      BY <1>1, <2>3 DEF Asker, BeingDone
    <3>2. InQueue(queue, a, disk[a.file], a.file \in dirty)
            => InQueue(queue', asked'[t], disk'[asked'[t].file], asked'[t].file \in dirty')
      BY <1>1 DEF InQueue, Expected
    <3> QED
      BY <1>1, <2>1, <3>1, <3>2 DEF Waiting, NoneQueued
  <2> QED
    BY <2>2, <2>3
<1> QED
  BY <1>4, <1>5, <1>6 DEF MemoryInv, WaitingExpected

LEMMA ProcessKeepsMemory == ASSUME TypeOK, OrderInv, MemoryInv, Process PROVE MemoryInv'
<1>1. CASE Shutdown
  <2>1. UNCHANGED <<memoryVars, queue, step, done, next, disk>>
    BY <1>1 DEF Shutdown, diskVars
  <2>2. WaitsWithLock' /\ UnlockedExpected'
    BY <2>1 DEF memoryVars, MemoryInv, WaitsWithLock, UnlockedExpected, Expected
  <2>3. ASSUME NEW t \in Tasks, asked'[t] # Nothing PROVE Waiting(t)'
    BY <2>1, <2>3, WaitingSame DEF memoryVars, MemoryInv, WaitingExpected
  <2> QED
    BY <2>2, <2>3 DEF MemoryInv, WaitingExpected
<1>2. CASE Loaded(disk')
  <2>1. /\ memory' = disk' /\ holder' = [f \in Files |-> NoTask]
        /\ asked' = [t \in Tasks |-> Nothing] /\ answer' = [t \in Tasks |-> "none"]
        /\ queue' = <<>> /\ \A i : i \notin DOMAIN queue'
    BY <1>2 DEF Loaded
  <2> QED
    BY <2>1 DEF MemoryInv, WaitsWithLock, UnlockedExpected, Expected, WaitingExpected
<1> QED
  BY <1>1, <1>2, FoundIsWhole DEF OrderInv

LEMMA MemoryStep ==
  ASSUME TypeOK, OrderInv, MemoryInv, [Next]_vars PROVE MemoryInv'
<1>1. CASE UNCHANGED vars
  <2>1. UNCHANGED <<memoryVars, queue, step, done, next, disk>>
    BY <1>1 DEF vars, diskVars
  <2>2. WaitsWithLock' /\ UnlockedExpected'
    BY <2>1 DEF memoryVars, MemoryInv, WaitsWithLock, UnlockedExpected, Expected
  <2>3. ASSUME NEW t \in Tasks, asked'[t] # Nothing PROVE Waiting(t)'
    BY <2>1, <2>3, WaitingSame DEF memoryVars, MemoryInv, WaitingExpected
  <2> QED
    BY <2>2, <2>3 DEF MemoryInv, WaitingExpected
<1>2. ASSUME NEW t \in Tasks, Task(t) PROVE MemoryInv'
  BY <1>2, ChangeKeepsMemory, TaskKeepsMemory DEF Task
<1>3. CASE Writer
  BY <1>3, RenameKeepsMemory, WriteFailsKeepsMemory, WriterKeepsMemory, ReplyKeepsMemory DEF Writer
<1>4. CASE Process
  BY <1>4, ProcessKeepsMemory
<1> QED
  BY <1>1, <1>2, <1>3, <1>4 DEF Next

\* When nobody holds a file's lock and nothing is queued for it, the runtime works
\* with what a restart would load, save for the two exceptions of dirty: save_config
\* and mutate_room take every refused change back to what is on the disk.
THEOREM MemoryFollowsDisk == Spec => []MemoryMatchesDisk
<1>1. Init => TypeOK /\ OrderInv /\ MemoryInv
  <2>1. Init => MemoryInv
    BY DEF Init, MemoryInv, WaitsWithLock, UnlockedExpected, Expected, WaitingExpected
  <2> QED
    BY <2>1, InitType, InitOrder
<1>2. TypeOK /\ OrderInv /\ MemoryInv /\ [Next]_vars => (TypeOK /\ OrderInv /\ MemoryInv)'
  BY StoreStep, MemoryStep
<1>3. MemoryInv => MemoryMatchesDisk
  BY DEF MemoryInv, UnlockedExpected, Expected, Queued, MemoryMatchesDisk
<1> QED
  BY <1>1, <1>2, <1>3, PTL DEF Spec
=============================================================================
