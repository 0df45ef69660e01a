----------------------------- MODULE Persistence -----------------------------
(***************************************************************************)
(* How config.toml and rooms.toml are written: src/persistence.rs and       *)
(* write_atomic of crates/tellm-config/src/lib.rs.                           *)
(*                                                                         *)
(* Tasks change a file's content in memory under that file's lock (the config *)
(* mutex, the room transaction), hand the writer thread a snapshot and wait   *)
(* for its answer with the lock held; a refused change is taken back.  A task *)
(* may be aborted while it waits: its lock goes, its snapshot stays queued.   *)
(* The thread writes one snapshot after the other to a temporary file, syncs   *)
(* it, renames it over the old one and syncs the directory.  The process may   *)
(* be killed, and the machine may lose power, between any two of these steps.  *)
(*                                                                         *)
(* Contents are numbered in the order of the changes.                         *)
(***************************************************************************)
EXTENDS Naturals, Sequences

CONSTANTS
  Files,        \* config.toml and rooms.toml
  Tasks,        \* tasks that change them
  MaxChanges,   \* bound on the changes of each file
  MaxFailures,  \* bound on failed writes and syncs
  MaxCrashes    \* bound on crashes and shutdowns

NoTask == 0

ASSUME PersistenceConstants ==
  /\ {MaxChanges, MaxFailures, MaxCrashes} \subseteq Nat
  /\ NoTask \notin Tasks

Torn == MaxChanges + 1      \* neither a version nor readable

VARIABLES
  memory,       \* content of each file in memory
  holder,       \* task that holds the file's lock
  asked,        \* what each task waits for the writer to write
  answer,       \* the writer's answer to it
  queue,        \* the writer's channel; the head is being written
  step,         \* where the writer is in write_atomic
  done,         \* the write whose directory sync and answer are left
  closing,      \* Shutdown has been sent
  next,         \* newest content of each file
  disk,         \* what a reader of each file finds
  clean,        \* is the data of the temporary file synced?
  synced,       \* was the data of each file synced before it was renamed?
  safe,         \* what survives a loss of power
  told,         \* newest content reported written
  warned,       \* files whose directory could not be synced
  dirty,        \* files whose memory nobody took back after a refused write
  used          \* failures and crashes so far

memoryVars == <<memory, holder, asked, answer, dirty>>
diskVars == <<disk, clean, synced, safe, told, warned>>
vars == <<memoryVars, queue, step, done, closing, next, diskVars, used>>

Kinds == {"change", "purge"}
Jobs == [file : Files, version : Nat]

\* before is what the memory held when the task took the lock.
Nothing == [file |-> NoTask, version |-> 0, before |-> 0, kind |-> "change"]
NoWrite == [file |-> NoTask, version |-> 0]

Steps == {"idle", "write", "sync", "rename", "directory", "reply", "stopped"}

Init ==
  /\ memory = [f \in Files |-> 0]
  /\ holder = [f \in Files |-> NoTask]
  /\ asked = [t \in Tasks |-> Nothing]
  /\ answer = [t \in Tasks |-> "none"]
  /\ queue = <<>>
  /\ step = "idle" /\ done = NoWrite /\ closing = FALSE
  /\ next = [f \in Files |-> 0]
  /\ disk = [f \in Files |-> 0]
  /\ clean = FALSE /\ synced = [f \in Files |-> TRUE]
  /\ safe = [f \in Files |-> 0]
  /\ told = [f \in Files |-> 0]
  /\ warned = {} /\ dirty = {}
  /\ used = [e \in {"failures", "crashes"} |-> 0]

Count(event, bound) ==
  /\ used[event] < bound
  /\ used' = [used EXCEPT ![event] = @ + 1]

-----------------------------------------------------------------------------
(* The tasks: save_config, mutate_room, remove_room.                        *)

Free(t) ==
  /\ holder' = [f \in Files |-> IF holder[f] = t THEN NoTask ELSE holder[f]]
  /\ asked' = [asked EXCEPT ![t] = Nothing]
  /\ answer' = [answer EXCEPT ![t] = "none"]

\* "purge" is remove_room, which does not take a refused change back.
Change(t, f, kind) ==
  /\ ~closing /\ asked[t] = Nothing /\ holder[f] = NoTask
  /\ next[f] < MaxChanges
  /\ holder' = [holder EXCEPT ![f] = t]
  /\ next' = [next EXCEPT ![f] = @ + 1]
  /\ memory' = [memory EXCEPT ![f] = next[f] + 1]
  /\ asked' = [asked EXCEPT ![t] =
       [file |-> f, version |-> next[f] + 1, before |-> memory[f], kind |-> kind]]
  /\ queue' = Append(queue, [file |-> f, version |-> next[f] + 1])
  /\ UNCHANGED <<answer, dirty, step, done, closing, diskVars, used>>

Saved(t) ==
  /\ answer[t] = "ok"
  /\ Free(t)
  /\ UNCHANGED <<memory, dirty, queue, step, done, closing, next, diskVars, used>>

\* Mutant: a refused change stays in memory.
StaysInMemory(t) == memory[asked[t].file]

TakenBack(t) == asked[t].before

Refused(t) ==
  LET f == asked[t].file IN
  /\ answer[t] = "error"
  /\ IF asked[t].kind = "purge"
     THEN dirty' = dirty \cup {f} /\ UNCHANGED memory
     ELSE memory' = [memory EXCEPT ![f] = TakenBack(t)] /\ UNCHANGED dirty
  /\ Free(t)
  /\ UNCHANGED <<queue, step, done, closing, next, diskVars, used>>

Abort(t) ==
  /\ asked[t] # Nothing
  /\ dirty' = IF answer[t] = "error" THEN dirty \cup {asked[t].file} ELSE dirty
  /\ Free(t)
  /\ UNCHANGED <<memory, queue, step, done, closing, next, diskVars, used>>

-----------------------------------------------------------------------------
(* The writer thread.                                                       *)

Job == Head(queue)
WriterGoes(to) == step' = to /\ UNCHANGED <<memory, holder, asked, closing, next>>

TakeJob ==
  /\ step = "idle" /\ queue # <<>>
  /\ WriterGoes("write")
  /\ UNCHANGED <<answer, dirty, queue, done, diskVars, used>>

\* Mutant: the temporary file is renamed without being synced.
ToRename == "rename"

\* The temporary file is created and written; then it is synced.
AfterWrite == "sync"

WriteTemp ==
  /\ step = "write"
  /\ WriterGoes(AfterWrite)
  /\ clean' = FALSE
  /\ UNCHANGED <<answer, dirty, queue, done, disk, synced, safe, told, warned, used>>

SyncTemp ==
  /\ step = "sync"
  /\ WriterGoes("rename")
  /\ clean' = TRUE
  /\ UNCHANGED <<answer, dirty, queue, done, disk, synced, safe, told, warned, used>>

Rename ==
  /\ step = "rename"
  /\ WriterGoes("directory")
  /\ disk' = [disk EXCEPT ![Job.file] = Job.version]
  /\ synced' = [synced EXCEPT ![Job.file] = clean]
  /\ dirty' = dirty \ {Job.file}
  /\ done' = Job /\ queue' = Tail(queue)
  /\ UNCHANGED <<answer, clean, safe, told, warned, used>>

Asker(w) == {t \in Tasks : asked[t].file = w.file /\ asked[t].version = w.version}

\* Creating, writing, syncing or renaming fails; the temporary file is removed.
WriteFails ==
  /\ step \in {"write", "sync", "rename"}
  /\ Count("failures", MaxFailures)
  /\ WriterGoes("idle")
  /\ queue' = Tail(queue)
  /\ answer' = [t \in Tasks |-> IF t \in Asker(Job) THEN "error" ELSE answer[t]]
  /\ dirty' = IF Asker(Job) = {} THEN dirty \cup {Job.file} ELSE dirty
  /\ UNCHANGED <<done, diskVars>>

SyncDirectory ==
  /\ step = "directory"
  /\ WriterGoes("reply")
  /\ safe' = [safe EXCEPT ![done.file] = disk[done.file]]
  /\ warned' = warned \ {done.file}
  /\ UNCHANGED <<answer, dirty, queue, done, disk, clean, synced, told, used>>

\* Mutant: nobody hears of it.
Ignored == warned

WithWarning == warned \cup {done.file}

\* "a durability warning, not a false failed-commit signal"
SyncDirectoryFails ==
  /\ step = "directory"
  /\ Count("failures", MaxFailures)
  /\ WriterGoes("reply")
  /\ warned' = WithWarning
  /\ UNCHANGED <<answer, dirty, queue, done, disk, clean, synced, safe, told>>

Reply ==
  /\ step = "reply"
  /\ WriterGoes("idle")
  /\ told' = [told EXCEPT ![done.file] = done.version]
  /\ answer' = [t \in Tasks |-> IF t \in Asker(done) THEN "ok" ELSE answer[t]]
  /\ done' = NoWrite
  /\ UNCHANGED <<dirty, queue, disk, clean, synced, safe, warned, used>>

\* Shutdown is last in the channel: the writes before it are done first.
Drained == step = "idle" /\ queue = <<>>

WriterStops ==
  /\ closing /\ Drained
  /\ WriterGoes("stopped")
  /\ UNCHANGED <<answer, dirty, queue, done, diskVars, used>>

-----------------------------------------------------------------------------
(* The process.                                                             *)

\* stop_chat_workers has aborted every task before Persistence::shutdown.
Shutdown ==
  /\ ~closing /\ \A t \in Tasks : asked[t] = Nothing
  /\ Count("crashes", MaxCrashes)
  /\ closing' = TRUE
  /\ UNCHANGED <<memoryVars, queue, step, done, next, diskVars>>

\* What the process held is gone; then it is started again, and loads the files.
Loaded(found) ==
  /\ disk' = found /\ memory' = found
  /\ holder' = [f \in Files |-> NoTask]
  /\ asked' = [t \in Tasks |-> Nothing]
  /\ answer' = [t \in Tasks |-> "none"]
  /\ queue' = <<>> /\ step' = "idle" /\ done' = NoWrite /\ closing' = FALSE
  /\ dirty' = {}
  /\ UNCHANGED <<next, clean, synced, safe, told, warned>>

Killed ==
  /\ step # "stopped"
  /\ Count("crashes", MaxCrashes)
  /\ Loaded(disk)

\* A rename whose directory was not synced may be undone; a file that was not
\* synced before it was renamed may be torn.
PowerLoss ==
  /\ step # "stopped"
  /\ Count("crashes", MaxCrashes)
  /\ \E lost \in SUBSET Files :
       Loaded([f \in Files |-> IF f \in lost THEN safe[f]
                               ELSE IF synced[f] THEN disk[f] ELSE Torn])

StartAgain == step = "stopped" /\ Loaded(disk) /\ UNCHANGED used

Task(t) == (\E f \in Files, k \in Kinds : Change(t, f, k)) \/ Saved(t) \/ Refused(t) \/ Abort(t)

Writer ==
  \/ TakeJob \/ WriteTemp \/ SyncTemp \/ Rename \/ WriteFails
  \/ SyncDirectory \/ SyncDirectoryFails \/ Reply \/ WriterStops

Process == Shutdown \/ Killed \/ PowerLoss \/ StartAgain

Next == (\E t \in Tasks : Task(t)) \/ Writer \/ Process

Spec == Init /\ [][Next]_vars

-----------------------------------------------------------------------------
TypeOK ==
  /\ memory \in [Files -> Nat]
  /\ holder \in [Files -> Tasks \cup {NoTask}]
  /\ asked \in [Tasks -> [file : Files, version : Nat, before : Nat, kind : Kinds]
                         \cup {Nothing}]
  /\ answer \in [Tasks -> {"none", "ok", "error"}]
  /\ queue \in Seq(Jobs)
  /\ step \in Steps
  /\ done \in Jobs \cup {NoWrite}
  /\ closing \in BOOLEAN
  /\ next \in [Files -> Nat]
  /\ disk \in [Files -> Nat] /\ clean \in BOOLEAN /\ synced \in [Files -> BOOLEAN]
  /\ safe \in [Files -> Nat] /\ told \in [Files -> Nat]
  /\ warned \subseteq Files /\ dirty \subseteq Files
  /\ used \in [{"failures", "crashes"} -> Nat]

\* DESIGN.md: "a crash or concurrent writer cannot expose a partial file", and
\* "an aborted worker cannot detach an older write that lands after /deny":
\* the code keeps the promises of DurableStore.
Store == INSTANCE DurableStore WITH
  pending <- queue, file <- disk, open <- step # "stopped"

Implements == Store!Spec

\* What was reported saved is in the file, whatever crashed since, or the file
\* has something newer; only a directory that could not be synced excuses it.
ReportedSurvives == \A f \in Files : told[f] <= disk[f] \/ f \in warned

\* When nobody is changing a file and nothing is queued for it, the runtime
\* works with what a restart would load: a refused change was taken back.  The
\* exceptions are a denied room whose removal could not be written, and the
\* refused change of a task that was aborted before it could take it back.
MemoryMatchesDisk ==
  \A f \in Files :
    \/ memory[f] = disk[f] \/ f \in dirty
    \/ holder[f] # NoTask \/ \E i \in DOMAIN queue : queue[i].file = f
=============================================================================
