---------------------------- MODULE SecretStore ----------------------------
(***************************************************************************)
(* Where a secret is kept (crates/tellm-config/src/lib.rs, mod secrets):   *)
(* the OS keychain, or credentials.toml with a marker that makes the file   *)
(* outrank a keychain whose value has become stale.  A write goes through   *)
(* several steps, each of which may fail; a read looks at the file first    *)
(* and at the keychain later, on another thread than the writer.            *)
(*                                                                         *)
(* Values are numbered as they are entered; 1 is the one that the history   *)
(* begins with, 0 is no value.  One write is under way at a time: a process  *)
(* has one terminal prompt, and DESIGN.md forbids two processes to write the *)
(* same directory at once.  A process killed during a write leaves what some  *)
(* failure of that write leaves.                                             *)
(***************************************************************************)
EXTENDS Naturals, FiniteSets

CONSTANTS
  Names,        \* secret names
  Readers,      \* lookups of a secret
  MaxValues     \* bound on the values entered

ASSUME SecretStoreConstants == MaxValues \in Nat

None == 0
Old == 1
Values == 1 .. MaxValues + 1

VARIABLES
  keychain,     \* value of each name in the OS keychain
  file,         \* value of each name in credentials.toml
  prefer,       \* names whose preference marker is in the file
  write,        \* the write under way
  entered,      \* for each value entered, the name it was entered for
  begun,        \* values whose write has begun
  gone,         \* values of each name that a write reported a success replaced
  read          \* what each reader has seen and got

stored == <<keychain, file, prefer>>
storeVars == <<stored, write, entered, begun, gone, read>>

NoWrite == [step |-> "none", name |-> None, value |-> None]
NoRead == [step |-> "none", name |-> None, value |-> None, gone |-> {}, blind |-> FALSE]

StoreInit ==
  /\ \E k, f \in {None, Old} :
       /\ None \in {k, f}
       /\ keychain = [n \in Names |-> k]
       /\ file = [n \in Names |-> f]
  /\ prefer = {}
  /\ write = NoWrite
  /\ entered = <<>>
  /\ begun = {Old}
  /\ gone = [n \in Names |-> {}]
  /\ read = [r \in Readers |-> NoRead]

NextValue == Cardinality(DOMAIN entered) + 2
Enter(n) == entered' = [v \in (2 .. NextValue) |-> IF v = NextValue THEN n ELSE entered[v]]

WriteStep(step) == write' = [write EXCEPT !.step = step]
WriteFails == write' = NoWrite /\ UNCHANGED gone
WriteDone ==
  /\ write' = NoWrite
  /\ gone' = [gone EXCEPT ![write.name] =
                @ \cup {v \in begun \ {write.value} : v = Old \/ entered[v] = write.name}]

-----------------------------------------------------------------------------
(* set_with_backends                                                       *)

BeginWrite(n, v) ==
  /\ write' = [step |-> "keychain", name |-> n, value |-> v]
  /\ begun' = begun \cup {v}

PutInKeychain == keychain' = [keychain EXCEPT ![write.name] = write.value]

KeychainSet ==
  /\ write.step = "keychain"
  /\ \/ PutInKeychain /\ WriteStep("remove")
     \/ (UNCHANGED keychain \/ PutInKeychain) /\ WriteStep("check")
  /\ UNCHANGED <<file, prefer, entered, begun, gone, read>>

\* The readback after a failed write: only the requested value counts.
KeychainCheck ==
  /\ write.step = "check"
  /\ \/ keychain[write.name] = write.value /\ WriteStep("remove")
     \/ WriteStep("file")      \* another value, none, or an error
  /\ UNCHANGED <<stored, entered, begun, gone, read>>

\* Mutant: the fallback is written without its marker.
PutInFileUnmarked ==
  /\ file' = [file EXCEPT ![write.name] = write.value]
  /\ UNCHANGED prefer

PutInFile ==
  /\ file' = [file EXCEPT ![write.name] = write.value]
  /\ prefer' = prefer \cup {write.name}

\* The rename may have happened when an error is reported.
FileSet ==
  /\ write.step = "file"
  /\ \/ PutInFile /\ WriteDone
     \/ (PutInFile \/ UNCHANGED <<file, prefer>>) /\ WriteFails
  /\ UNCHANGED <<keychain, entered, begun, read>>

DropFromFile ==
  /\ file' = [file EXCEPT ![write.name] = None]
  /\ prefer' = prefer \ {write.name}

\* It may fail before the file is replaced, or report an error after.
FileRemove ==
  /\ write.step = "remove"
  /\ \/ DropFromFile /\ WriteDone
     \/ (DropFromFile \/ UNCHANGED <<file, prefer>>) /\ WriteFails
  /\ UNCHANGED <<keychain, entered, begun, read>>

SetStep == KeychainSet \/ KeychainCheck \/ FileSet \/ FileRemove

-----------------------------------------------------------------------------
(* get                                                                     *)

Result(r, v) ==
  read' = [read EXCEPT ![r] = [read[r] EXCEPT !.step = "none", !.value = v]]

\* The file is read first; what cannot be read is taken for no file.
ReadFile(r, n) ==
  /\ read[r] = NoRead
  /\ \E readable \in BOOLEAN :
       read' = [read EXCEPT ![r] =
         [step |-> IF readable /\ n \in prefer THEN "none" ELSE "keychain", name |-> n,
          value |-> IF readable THEN file[n] ELSE None, gone |-> gone[n], blind |-> ~readable]]
  /\ UNCHANGED <<stored, write, entered, begun, gone>>

\* The keychain outranks a file value without a marker, if it answers.
ReadKeychain(r) ==
  /\ read[r].step = "keychain"
  /\ \/ keychain[read[r].name] # None /\ Result(r, keychain[read[r].name])
     \/ Result(r, read[r].value)
  /\ UNCHANGED <<stored, write, entered, begun, gone>>

ReadStep(r) == (\E n \in Names : ReadFile(r, n)) \/ ReadKeychain(r)

-----------------------------------------------------------------------------
Reads == [step : {"none", "keychain"}, name : Names \cup {None}, value : Values \cup {None},
          gone : SUBSET Values, blind : BOOLEAN]

StoreTypeOK ==
  /\ keychain \in [Names -> Values \cup {None}]
  /\ file \in [Names -> Values \cup {None}]
  /\ prefer \subseteq Names
  /\ write \in [step : {"keychain", "check", "file", "remove"}, name : Names, value : Values]
               \cup {NoWrite}
  /\ DOMAIN entered \subseteq Values /\ entered \in [DOMAIN entered -> Names]
  /\ begun \subseteq Values /\ gone \in [Names -> SUBSET Values]
  /\ read \in [Readers -> Reads]

\* A key that was reported stored is the one that is used: a read that begins
\* after the report never gives a value that the write replaced, whichever of
\* the two stores was down when it was written and is up when it is read.  It
\* may find nothing; and it may find a replaced one if credentials.toml cannot
\* be read, because the marker is in that file.
NoOldKey ==
  \A r \in Readers :
    read[r].step = "none" => read[r].value \notin read[r].gone \/ read[r].blind
=============================================================================
