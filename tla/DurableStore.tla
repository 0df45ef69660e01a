---------------------------- MODULE DurableStore ----------------------------
(***************************************************************************)
(* What the config directory promises the runtime, without saying how: a    *)
(* store of whole file versions.  Versions are written in the order in which *)
(* they were asked for; a write either happens entirely or not at all; what  *)
(* was reported written is still there after a crash, and after a loss of    *)
(* power too unless the directory could not be synced; and a store that is   *)
(* closed has nothing left to write.                                         *)
(***************************************************************************)
EXTENDS Naturals, Sequences

CONSTANT Files

VARIABLES
  pending,    \* writes asked for and not decided, oldest first
  next,       \* number of the newest version of each file
  file,       \* version that a reader of each file finds
  safe,       \* version that survives a loss of power
  told,       \* newest version reported written
  warned,     \* files whose directory could not be synced after a write
  open        \* the store takes writes

storeVars == <<pending, next, file, safe, told, warned, open>>

Write == [file : Files, version : Nat]

Init ==
  /\ pending = <<>>
  /\ next = [f \in Files |-> 0]
  /\ file = [f \in Files |-> 0]
  /\ safe = [f \in Files |-> 0]
  /\ told = [f \in Files |-> 0]
  /\ warned = {}
  /\ open = TRUE

Ask(f) ==
  /\ open
  /\ next' = [next EXCEPT ![f] = @ + 1]
  /\ pending' = Append(pending, [file |-> f, version |-> next[f] + 1])
  /\ UNCHANGED <<file, safe, told, warned, open>>

Commit ==
  /\ pending # <<>>
  /\ file' = [file EXCEPT ![Head(pending).file] = Head(pending).version]
  /\ pending' = Tail(pending)
  /\ UNCHANGED <<next, safe, told, warned, open>>

Refuse ==
  /\ pending # <<>>
  /\ pending' = Tail(pending)
  /\ UNCHANGED <<next, file, safe, told, warned, open>>

Secure(f) ==
  /\ safe' = [safe EXCEPT ![f] = file[f]]
  /\ warned' = warned \ {f}
  /\ UNCHANGED <<pending, next, file, told, open>>

Warn(f) ==
  /\ warned' = warned \cup {f}
  /\ UNCHANGED <<pending, next, file, safe, told, open>>

Report(f) ==
  /\ safe[f] = file[f] \/ f \in warned
  /\ told' = [told EXCEPT ![f] = file[f]]
  /\ UNCHANGED <<pending, next, file, safe, warned, open>>

Close ==
  /\ pending = <<>>
  /\ open' = FALSE
  /\ UNCHANGED <<pending, next, file, safe, told, warned>>

\* The process is killed, or the machine loses power.
Crash ==
  /\ pending' = <<>>
  /\ \E lost \in SUBSET Files :
       file' = [f \in Files |-> IF f \in lost THEN safe[f] ELSE file[f]]
  /\ UNCHANGED <<next, safe, told, warned, open>>

Reopen ==
  /\ open' = TRUE
  /\ UNCHANGED <<pending, next, file, safe, told, warned>>

Next ==
  \/ \E f \in Files : Ask(f) \/ Secure(f) \/ Warn(f) \/ Report(f)
  \/ Commit \/ Refuse \/ Close \/ Crash \/ Reopen

Spec == Init /\ [][Next]_storeVars
=============================================================================
