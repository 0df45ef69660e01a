------------------------ MODULE TerminalPromptProofs ------------------------
(***************************************************************************)
(* Proofs about TerminalPrompt and the SecretStore it writes to, for every   *)
(* set of chats, secrets and readers and every bound: where a typed key is    *)
(* stored, when a prompt is cut short, and which key a later read finds.       *)
(***************************************************************************)
EXTENDS TerminalPrompt, FiniteSetTheorems, SequenceTheorems, TLAPS

-----------------------------------------------------------------------------
(* The inductive invariant: prompts.                                        *)

\* Prompts are numbered in the order of their opening; the thread has a line exactly when
\* it has the prompt that the line is for.
PromptsInOrder ==
  /\ open \subseteq DOMAIN nameOf
  /\ \A c \in Chats : prompt[c] # None <=> at[c] # "idle"
  /\ \A c \in Chats : prompt[c] # None => prompt[c] \in open
  /\ hand.prompt # None => hand.prompt \in DOMAIN nameOf
  /\ hand.prompt = None => hand.line = Empty

\* The slot holds a prompt whose receiver is alive.
SlotIsOpen == slot # None => slot \in open

\* An open prompt has left the slot only when a late line for a prompt of that name
\* cleared it, or the input ended.
SlotOrLate == stdin => \A p \in open : p = slot \/ nameOf[p] \in late

-----------------------------------------------------------------------------
(* The inductive invariant: keys on their way.                              *)

\* Values are numbered in the order in which they are typed.
EnteredInOrder == \E n \in 0 .. MaxValues : DOMAIN entered = 2 .. n + 1

\* A key in the thread's hand or in a channel was typed for the prompt it goes to, and no
\* write of it has begun.
OnItsWay(v, p) == v \in DOMAIN entered /\ v \notin begun /\ entered[v] = nameOf[p]
Carried ==
  /\ hand.line \in Values => OnItsWay(hand.line, hand.prompt)
  /\ \A p \in Prompts : \A i \in DOMAIN lines[p] :
       lines[p][i] \in Values => p \in open /\ OnItsWay(lines[p][i], p)

\* A key is in one place only.
CarriedOnce ==
  /\ \A p \in Prompts : \A i \in DOMAIN lines[p] :
       lines[p][i] \in Values => lines[p][i] # hand.line
  /\ \A p, q \in Prompts : \A i \in DOMAIN lines[p], j \in DOMAIN lines[q] :
       lines[p][i] \in Values /\ lines[p][i] = lines[q][j] => p = q /\ i = j

\* Writes are of keys that were typed for their names, and only they put a value anywhere.
BegunIsEntered ==
  /\ begun \subseteq {Old} \cup DOMAIN entered
  /\ \A n \in Names : {keychain[n], file[n]} \subseteq begun \cup {None}
  /\ write # NoWrite => write.value \in begun \ {Old} /\ entered[write.value] = write.name

-----------------------------------------------------------------------------
(* The inductive invariant: the two stores.                                 *)

\* What a read would find was not replaced: the marked value in the file, or else the
\* value in the keychain and the one in the file.
StoresAreNew ==
  /\ \A n \in Names : gone[n] \subseteq begun
  /\ \A n \in Names : file[n] \notin gone[n]
  /\ \A n \in Names \ prefer : keychain[n] \notin gone[n]

\* The value being written was not replaced; it is in the keychain before the file's copy
\* is removed.
WriteIsNew ==
  write # NoWrite =>
    /\ write.value \notin gone[write.name]
    /\ write.step = "remove" => keychain[write.name] = write.value

\* A read that has yet to look at the keychain will find nothing there that was replaced
\* when it began, whatever is written meanwhile, unless it could not read the file.
ReadsAreNew ==
  \A r \in Readers :
    /\ read[r].value \notin read[r].gone \/ read[r].blind
    /\ read[r].gone \subseteq begun
    /\ read[r].step = "keychain" =>
         /\ read[r].name \in Names
         /\ \/ read[r].blind
            \/ /\ keychain[read[r].name] \notin read[r].gone
               /\ write # NoWrite /\ write.name = read[r].name => write.value \notin read[r].gone

PromptInv == PromptsInOrder /\ SlotIsOpen /\ SlotOrLate
KeyInv == EnteredInOrder /\ Carried /\ CarriedOnce /\ BegunIsEntered
StoreInv == StoresAreNew /\ WriteIsNew /\ ReadsAreNew
IInv ==
  /\ TypeOK
  /\ PromptInv
  /\ CutShortOnlyByNamesake
  /\ KeyInv
  /\ KeyGoesWhereItWasAskedFor
  /\ StoreInv

-----------------------------------------------------------------------------
(* Operators.                                                               *)

LEMMA ValuesAreNumbers ==
  /\ MaxValues \in Nat /\ MaxPrompts \in Nat /\ Values \subseteq Nat /\ Prompts \subseteq Nat
  /\ None \notin Values /\ None \notin Prompts /\ Old \in Values
  /\ Empty \notin Values /\ Word \notin Values /\ Empty # Word
BY SecretStoreConstants, TerminalPromptConstants DEF Values, Prompts, None, Old, Empty, Word

\* The next value is new.
LEMMA NextIs ==
  ASSUME EnteredInOrder, NextValue \in Values
  PROVE  /\ NextValue \notin DOMAIN entered /\ NextValue # Old
         /\ DOMAIN entered \cup {NextValue} = 2 .. NextValue
         /\ \E n \in 0 .. MaxValues : 2 .. NextValue = 2 .. n + 1
<1>1. PICK n \in 0 .. MaxValues : DOMAIN entered = 2 .. n + 1
  BY DEF EnteredInOrder
<1>2. n \in Nat /\ MaxValues \in Nat
  BY <1>1, SecretStoreConstants
<1>3. Cardinality(2 .. n + 1) = IF 2 > n + 1 THEN 0 ELSE n + 1 - 2 + 1
  BY <1>2, FS_Interval
<1>4. NextValue = n + 2
  BY <1>1, <1>2, <1>3 DEF NextValue
<1>5. n + 1 <= MaxValues
  BY <1>2, <1>4 DEF Values
<1> QED
  BY <1>1, <1>2, <1>4, <1>5 DEF Old

LEMMA EnterIs ==
  ASSUME TypeOK, EnteredInOrder, NextValue \in Values, NEW n \in Names, Enter(n)
  PROVE  /\ entered' \in [DOMAIN entered' -> Names]
         /\ DOMAIN entered' = DOMAIN entered \cup {NextValue}
         /\ DOMAIN entered' \subseteq Values
         /\ EnteredInOrder'
         /\ entered'[NextValue] = n
         /\ \A v \in DOMAIN entered : entered'[v] = entered[v]
<1>1. entered' = [v \in 2 .. NextValue |-> IF v = NextValue THEN n ELSE entered[v]]
  BY DEF Enter
<1>2. DOMAIN entered' = DOMAIN entered \cup {NextValue}
  BY <1>1, NextIs
<1>3. entered \in [DOMAIN entered -> Names] /\ DOMAIN entered \subseteq Values
  BY DEF TypeOK, StoreTypeOK
<1>4. /\ entered'[NextValue] = n
      /\ \A v \in DOMAIN entered : entered'[v] = entered[v]
  BY <1>1, <1>2, NextIs
<1>5. entered' \in [DOMAIN entered' -> Names]
  BY <1>1, <1>2, <1>3, NextIs
<1>6. EnteredInOrder'
  BY <1>1, NextIs DEF EnteredInOrder
<1> QED
  BY <1>2, <1>3, <1>4, <1>5, <1>6

\* Only the name of the write under way is touched, and its value is all that is put anywhere.
LEMMA SetIs ==
  ASSUME TypeOK, SetStep
  PROVE  /\ write # NoWrite
         /\ write.name \in Names /\ write.value \in Values
         /\ keychain' \in {keychain, [keychain EXCEPT ![write.name] = write.value]}
         /\ file' \in {file, [file EXCEPT ![write.name] = write.value], [file EXCEPT ![write.name] = None]}
         /\ \/ write' = NoWrite
            \/ \E step \in {"check", "file", "remove"} :
                 write' = [step |-> step, name |-> write.name, value |-> write.value]
         /\ UNCHANGED <<entered, begun, read>>
<1>1. write # NoWrite
  BY DEF SetStep, KeychainSet, KeychainCheck, FileSet, FileRemove, NoWrite
<1>2. write \in [step : {"keychain", "check", "file", "remove"}, name : Names, value : Values]
  BY <1>1 DEF TypeOK, StoreTypeOK
<1>3. write.name \in Names /\ write.value \in Values
  BY <1>2
<1>4. \A step : WriteStep(step) => write' = [step |-> step, name |-> write.name, value |-> write.value]
  BY <1>2 DEF WriteStep
<1>5. CASE KeychainSet
  BY <1>1, <1>3, <1>4, <1>5 DEF KeychainSet, PutInKeychain
<1>6. CASE KeychainCheck
  BY <1>1, <1>3, <1>4, <1>6 DEF KeychainCheck, stored
<1>7. CASE FileSet
  BY <1>1, <1>3, <1>7 DEF FileSet, PutInFile, WriteDone, WriteFails
<1>8. CASE FileRemove
  BY <1>1, <1>3, <1>8 DEF FileRemove, DropFromFile, WriteDone, WriteFails
<1> QED
  BY <1>5, <1>6, <1>7, <1>8 DEF SetStep

-----------------------------------------------------------------------------
(* The two stores.                                                          *)

\* What a write that succeeds adds to the values replaced.
LEMMA GoneIs ==
  ASSUME TypeOK, BegunIsEntered, StoresAreNew, SetStep
  PROVE  \/ gone' = gone
         \/ /\ write' = NoWrite
            /\ \A n \in Names \ {write.name} : gone'[n] = gone[n]
            /\ gone'[write.name] \subseteq begun
            /\ write.value \notin gone[write.name] => write.value \notin gone'[write.name]
            /\ gone' \in [Names -> SUBSET Values]
<1>1. CASE WriteDone
  <2>1. write.name \in Names /\ write' = NoWrite
    BY <1>1, SetIs DEF WriteDone
  <2>2. gone' = [gone EXCEPT ![write.name] =
                   @ \cup {v \in begun \ {write.value} : v = Old \/ entered[v] = write.name}]
    BY <1>1 DEF WriteDone
  <2>3. begun \subseteq Values /\ gone \in [Names -> SUBSET Values]
    BY DEF TypeOK, StoreTypeOK
  <2>4. gone'[write.name] = gone[write.name]
          \cup {v \in begun \ {write.value} : v = Old \/ entered[v] = write.name}
    BY <2>1, <2>2, <2>3
  <2>5. gone[write.name] \subseteq begun
    BY <2>1 DEF StoresAreNew
  <2>6. gone' \in [Names -> SUBSET Values]
    BY <2>1, <2>2, <2>3, <2>4, <2>5
  <2> QED
    BY <2>1, <2>2, <2>3, <2>4, <2>5, <2>6
<1>2. CASE WriteFails
  BY <1>2 DEF WriteFails
<1>3. CASE ~WriteDone /\ ~WriteFails
  BY <1>3 DEF SetStep, KeychainSet, KeychainCheck, FileSet, FileRemove
<1> QED
  BY <1>1, <1>2, <1>3

LEMMA SetKeepsStores ==
  ASSUME TypeOK, BegunIsEntered, StoresAreNew, WriteIsNew, SetStep
  PROVE  StoresAreNew' /\ WriteIsNew'
<1> DEFINE n == write.name
           v == write.value
<1>1. /\ write # NoWrite /\ n \in Names /\ v \in Values /\ UNCHANGED <<begun, entered>>
      /\ keychain \in [Names -> Values \cup {None}] /\ file \in [Names -> Values \cup {None}]
      /\ gone \in [Names -> SUBSET Values] /\ prefer \subseteq Names
      /\ None \notin Values
  BY SetIs, ValuesAreNumbers DEF TypeOK, StoreTypeOK
<1>2. /\ \A m \in Names : gone[m] \subseteq begun /\ file[m] \notin gone[m]
      /\ \A m \in Names \ prefer : keychain[m] \notin gone[m]
      /\ v \notin gone[n]
      /\ write.step = "remove" => keychain[n] = v
  BY <1>1 DEF StoresAreNew, WriteIsNew
<1>3. CASE KeychainSet
  <2>1. /\ UNCHANGED <<file, prefer, gone>>
        /\ \/ keychain' = [keychain EXCEPT ![n] = v] /\ write' = [write EXCEPT !.step = "remove"]
           \/ /\ keychain' \in {keychain, [keychain EXCEPT ![n] = v]}
              /\ write' = [write EXCEPT !.step = "check"]
    BY <1>3 DEF KeychainSet, PutInKeychain, WriteStep
  <2>2. write'.name = n /\ write'.value = v
    BY <1>1, <2>1 DEF TypeOK, StoreTypeOK
  <2>3. write'.step = "remove" => keychain'[n] = v
    BY <1>1, <2>1 DEF TypeOK, StoreTypeOK
  <2>4. \A m \in Names : keychain'[m] = keychain[m] \/ (m = n /\ keychain'[m] = v)
    BY <1>1, <2>1
  <2>5. StoresAreNew'
    BY <1>1, <1>2, <2>1, <2>4 DEF StoresAreNew
  <2> QED
    BY <1>2, <2>1, <2>2, <2>3, <2>5 DEF WriteIsNew
<1>4. CASE KeychainCheck
  <2>1. /\ UNCHANGED <<keychain, file, prefer, gone>>
        /\ \/ keychain[n] = v /\ write' = [write EXCEPT !.step = "remove"]
           \/ write' = [write EXCEPT !.step = "file"]
    BY <1>4 DEF KeychainCheck, WriteStep, stored
  <2>2. write'.name = n /\ write'.value = v
    BY <1>1, <2>1 DEF TypeOK, StoreTypeOK
  <2>3. write'.step = "remove" => keychain'[n] = v
    BY <1>1, <2>1 DEF TypeOK, StoreTypeOK
  <2>4. StoresAreNew'
    BY <1>1, <1>2, <2>1 DEF StoresAreNew
  <2> QED
    BY <1>2, <2>1, <2>2, <2>3, <2>4 DEF WriteIsNew
<1>5. CASE FileSet \/ FileRemove
  <2>1. write' = NoWrite /\ keychain' = keychain
    BY <1>5 DEF FileSet, FileRemove, WriteDone, WriteFails
  <2>2. \A m \in Names \ {n} : gone'[m] = gone[m] /\ file'[m] = file[m] /\ (m \in prefer' <=> m \in prefer)
    BY <1>1, <1>5, GoneIs DEF FileSet, FileRemove, PutInFile, DropFromFile
  <2>3. gone'[n] \subseteq begun /\ v \notin gone'[n] /\ None \notin gone'[n]
    BY <1>1, <1>2, GoneIs
  <2>4. file'[n] \notin gone'[n] /\ (n \in prefer' \/ keychain'[n] \notin gone'[n])
    <3>1. CASE FileRemove
      <4>1. keychain[n] = v
        BY <1>2, <3>1 DEF FileRemove
      <4>2. CASE DropFromFile
        BY <1>1, <2>1, <2>3, <4>1, <4>2 DEF DropFromFile
      <4>3. CASE WriteFails /\ UNCHANGED <<file, prefer>>
        BY <1>1, <1>2, <2>1, <2>3, <4>1, <4>3 DEF WriteFails
      <4> QED
        BY <3>1, <4>2, <4>3 DEF FileRemove
    <3>2. CASE FileSet
      <4>1. CASE PutInFile
        BY <1>1, <2>3, <4>1 DEF PutInFile
      <4>2. CASE WriteFails /\ UNCHANGED <<file, prefer>>
        BY <1>1, <1>2, <2>1, <4>2 DEF WriteFails
      <4> QED
        BY <3>2, <4>1, <4>2 DEF FileSet
    <3> QED
      BY <1>5, <3>1, <3>2
  <2>5. StoresAreNew'
    BY <1>1, <1>2, <2>1, <2>2, <2>3, <2>4 DEF StoresAreNew
  <2> QED
    BY <2>1, <2>5 DEF WriteIsNew
<1> QED
  BY <1>3, <1>4, <1>5 DEF SetStep

\* No write puts a value into the keychain that a read in progress must not find.
LEMMA SetKeepsReads ==
  ASSUME TypeOK, BegunIsEntered, StoresAreNew, WriteIsNew, ReadsAreNew, SetStep
  PROVE  ReadsAreNew'
<1>1. /\ write # NoWrite /\ UNCHANGED <<begun, entered, read>>
      /\ keychain' \in {keychain, [keychain EXCEPT ![write.name] = write.value]}
      /\ \/ write' = NoWrite
         \/ write' # NoWrite /\ write'.name = write.name /\ write'.value = write.value
  BY SetIs DEF NoWrite
<1>2. ASSUME NEW r \in Readers, read[r].step = "keychain", ~read[r].blind,
             keychain[read[r].name] \notin read[r].gone, read[r].name \in Names,
             write.name = read[r].name => write.value \notin read[r].gone
      PROVE  /\ keychain'[read[r].name] \notin read[r].gone
             /\ write' # NoWrite /\ write'.name = read[r].name => write'.value \notin read[r].gone
  BY <1>1, <1>2 DEF TypeOK, StoreTypeOK
<1> QED
  BY <1>1, <1>2 DEF ReadsAreNew

\* A new key was never written, so it is no read's and no write's old value.
LEMMA BeginKeepsStores ==
  ASSUME TypeOK, BegunIsEntered, StoreInv, write = NoWrite,
         NEW n \in Names, NEW v \in Values \ begun, BeginWrite(n, v),
         UNCHANGED <<stored, entered, gone, read>>
  PROVE  StoreInv'
<1>1. /\ write' = [step |-> "keychain", name |-> n, value |-> v] /\ begun' = begun \cup {v}
      /\ UNCHANGED <<keychain, file, prefer, entered, gone, read>>
  BY DEF BeginWrite, stored
<1>2. StoresAreNew'
  BY <1>1 DEF StoreInv, StoresAreNew
<1>3. WriteIsNew'
  BY <1>1 DEF StoreInv, StoresAreNew, WriteIsNew
<1>4. ReadsAreNew'
  <2> SUFFICES ASSUME NEW r \in Readers
               PROVE  /\ read[r].value \notin read[r].gone \/ read[r].blind
                      /\ read[r].gone \subseteq begun'
                      /\ read[r].step = "keychain" =>
                           /\ read[r].name \in Names
                           /\ \/ read[r].blind
                              \/ keychain[read[r].name] \notin read[r].gone /\ v \notin read[r].gone
    BY <1>1 DEF ReadsAreNew
  <2> QED
    BY <1>1 DEF StoreInv, ReadsAreNew
<1> QED
  BY <1>2, <1>3, <1>4 DEF StoreInv

\* What one reader gets is what the invariant must be shown of.
LEMMA ReadBecomes ==
  ASSUME TypeOK, StoreInv, NEW r \in Readers, NEW s \in Reads,
         read' = [read EXCEPT ![r] = s],
         UNCHANGED <<keychain, write, begun>>,
         s.value \notin s.gone \/ s.blind, s.gone \subseteq begun,
         s.step = "keychain" =>
           /\ s.name \in Names
           /\ \/ s.blind
              \/ /\ keychain[s.name] \notin s.gone
                 /\ write # NoWrite /\ write.name = s.name => write.value \notin s.gone
  PROVE  ReadsAreNew' /\ read' \in [Readers -> Reads]
<1>1. read \in [Readers -> Reads]
  BY DEF TypeOK, StoreTypeOK
<1>2. read' \in [Readers -> Reads]
  BY <1>1
<1>3. read'[r] = s /\ \A q \in Readers \ {r} : read'[q] = read[q]
  BY <1>1
<1>4. ASSUME NEW q \in Readers
      PROVE  /\ read'[q].value \notin read'[q].gone \/ read'[q].blind
             /\ read'[q].gone \subseteq begun
             /\ read'[q].step = "keychain" =>
                  /\ read'[q].name \in Names
                  /\ \/ read'[q].blind
                     \/ /\ keychain[read'[q].name] \notin read'[q].gone
                        /\ write # NoWrite /\ write.name = read'[q].name
                             => write.value \notin read'[q].gone
  <2>1. CASE q = r
    BY <1>3, <2>1
  <2>2. CASE q # r
    BY <1>3, <2>2 DEF StoreInv, ReadsAreNew
  <2> QED
    BY <2>1, <2>2
<1> QED
  BY <1>2, <1>4 DEF ReadsAreNew

LEMMA ReadKeepsStores ==
  ASSUME TypeOK, StoreInv, NEW r \in Readers, ReadStep(r)
  PROVE  StoreInv' /\ read' \in [Readers -> Reads]
<1>1. UNCHANGED <<keychain, file, prefer, write, entered, begun, gone>>
  BY DEF ReadStep, ReadFile, ReadKeychain, stored
<1>2. StoresAreNew' /\ WriteIsNew'
  BY <1>1 DEF StoreInv, StoresAreNew, WriteIsNew
<1>3. ASSUME NEW n \in Names, ReadFile(r, n)
      PROVE  ReadsAreNew' /\ read' \in [Readers -> Reads]
  <2>1. PICK readable \in BOOLEAN :
          read' = [read EXCEPT ![r] =
            [step |-> IF readable /\ n \in prefer THEN "none" ELSE "keychain", name |-> n,
             value |-> IF readable THEN file[n] ELSE None, gone |-> gone[n], blind |-> ~readable]]
    BY <1>3 DEF ReadFile
  <2>2. /\ file[n] \in Values \cup {None} /\ gone[n] \in SUBSET Values
        /\ gone[n] \subseteq begun /\ file[n] \notin gone[n]
        /\ n \notin prefer => keychain[n] \notin gone[n]
        /\ write # NoWrite /\ write.name = n => write.value \notin gone[n]
    BY DEF StoreInv, StoresAreNew, WriteIsNew, TypeOK, StoreTypeOK
  <2>3. PICK step \in {"none", "keychain"}, value \in Values \cup {None} :
          /\ step = IF readable /\ n \in prefer THEN "none" ELSE "keychain"
          /\ value = IF readable THEN file[n] ELSE None
    BY <2>2
  <2> DEFINE s == [step |-> step, name |-> n, value |-> value, gone |-> gone[n], blind |-> ~readable]
  <2>4. s \in Reads /\ read' = [read EXCEPT ![r] = s]
    BY <2>1, <2>2, <2>3 DEF Reads
  <2>5. s.step = step /\ s.name = n /\ s.value = value /\ s.gone = gone[n] /\ (s.blind <=> ~readable)
    OBVIOUS
  <2>6. s.value \notin s.gone \/ s.blind
    BY <2>2, <2>3, <2>5
  <2>7. s.step = "keychain" => s.blind \/ keychain[s.name] \notin s.gone
    BY <2>2, <2>3, <2>5
  <2>8. /\ s.name \in Names /\ s.gone \subseteq begun
        /\ write # NoWrite /\ write.name = s.name => write.value \notin s.gone
    BY <2>2, <2>5
  <2> HIDE DEF s
  <2> QED
    BY <1>1, <2>4, <2>6, <2>7, <2>8, ReadBecomes
<1>4. CASE ReadKeychain(r)
  <2>1. PICK v \in {keychain[read[r].name], read[r].value} :
          /\ read' = [read EXCEPT ![r] = [read[r] EXCEPT !.step = "none", !.value = v]]
          /\ v = None => v = read[r].value
    BY <1>4 DEF ReadKeychain, Result
  <2> DEFINE s == [read[r] EXCEPT !.step = "none", !.value = v]
  <2>2. read[r] \in Reads
    BY DEF TypeOK, StoreTypeOK
  <2>3. /\ read[r].step = "keychain" /\ read[r].name \in Names /\ read[r].gone \subseteq begun
        /\ v \in Values \cup {None}
        /\ v \notin read[r].gone \/ read[r].blind
    <3>1. read[r].step = "keychain"
      BY <1>4 DEF ReadKeychain
    <3>2. /\ read[r].name \in Names /\ read[r].gone \subseteq begun
          /\ keychain[read[r].name] \notin read[r].gone \/ read[r].blind
          /\ read[r].value \notin read[r].gone \/ read[r].blind
      BY <3>1 DEF StoreInv, ReadsAreNew
    <3> QED
      BY <2>1, <2>2, <3>1, <3>2 DEF TypeOK, StoreTypeOK, Reads
  <2>4. /\ s.step = "none" /\ s.value = v /\ s.gone = read[r].gone /\ s.blind = read[r].blind
        /\ s \in Reads
    BY <2>2, <2>3 DEF Reads
  <2>5. read' = [read EXCEPT ![r] = s]
    BY <2>1
  <2>6. (s.value \notin s.gone \/ s.blind) /\ s.gone \subseteq begun /\ s.step # "keychain"
    BY <2>3, <2>4
  <2> HIDE DEF s
  <2> QED
    BY <1>1, <1>2, <2>4, <2>5, <2>6, ReadBecomes DEF StoreInv
<1> QED
  BY <1>2, <1>3, <1>4 DEF ReadStep, StoreInv

-----------------------------------------------------------------------------
(* Steps that leave the stores alone.                                       *)

LEMMA StoreStays ==
  ASSUME StoreTypeOK, StoreInv, KeyGoesWhereItWasAskedFor, UNCHANGED storeVars
  PROVE  StoreTypeOK' /\ StoreInv' /\ KeyGoesWhereItWasAskedFor'
<1>1. UNCHANGED <<keychain, file, prefer, write, entered, begun, gone, read>>
  BY DEF storeVars, stored
<1>2. StoreTypeOK'
  BY <1>1 DEF StoreTypeOK
<1>3. StoresAreNew' /\ WriteIsNew'
  BY <1>1 DEF StoreInv, StoresAreNew, WriteIsNew
<1>4. ReadsAreNew'
  BY <1>1 DEF StoreInv, ReadsAreNew
<1>5. KeyGoesWhereItWasAskedFor'
  BY <1>1 DEF KeyGoesWhereItWasAskedFor
<1> QED
  BY <1>2, <1>3, <1>4, <1>5 DEF StoreInv

\* What the keys on their way depend on: the stores alone, channels and hand unchanged or
\* emptied, and the name of no open prompt changed.
LEMMA BegunStays ==
  ASSUME EnteredInOrder, BegunIsEntered, UNCHANGED storeVars
  PROVE  EnteredInOrder' /\ BegunIsEntered'
<1>1. UNCHANGED <<keychain, file, write, entered, begun>>
  BY DEF storeVars, stored
<1>2. EnteredInOrder'
  BY <1>1 DEF EnteredInOrder
<1>3. BegunIsEntered'
  BY <1>1 DEF BegunIsEntered
<1> QED
  BY <1>2, <1>3

\* A task that has a prompt has an open one.
LEMMA PromptIs ==
  ASSUME TypeOK, PromptsInOrder, NEW c \in Chats, at[c] # "idle"
  PROVE  /\ prompt[c] \in Prompts /\ prompt[c] \in open /\ prompt[c] \in DOMAIN nameOf
         /\ nameOf[prompt[c]] \in Names
<1>1. prompt[c] # None /\ prompt[c] \in open /\ prompt[c] \in DOMAIN nameOf
  BY DEF PromptsInOrder
<1>2. prompt[c] \in Prompts /\ nameOf \in Seq(Names)
  BY <1>1 DEF TypeOK
<1> QED
  BY <1>1, <1>2, ElementOfSeq, LenProperties

\* Only the prompt's own name is cleared.
LEMMA ClearedIs ==
  ASSUME NEW n
  PROVE  \/ Cleared(n) = slot /\ (slot # None => nameOf[slot] # n)
         \/ Cleared(n) = None /\ slot # None /\ nameOf[slot] = n
BY DEF Cleared

-----------------------------------------------------------------------------
(* The task of /model add.                                                  *)

LEMMA AskKeeps ==
  ASSUME IInv, NEW c \in Chats, NEW n \in Names, Ask(c, n)
  PROVE  IInv'
<1> DEFINE p == Len(nameOf) + 1
<1>1. /\ at[c] = "idle" /\ slot = None /\ Len(nameOf) < MaxPrompts
      /\ nameOf' = Append(nameOf, n) /\ slot' = Len(nameOf') /\ open' = open \cup {slot'}
      /\ prompt' = [prompt EXCEPT ![c] = slot'] /\ at' = [at EXCEPT ![c] = "notice"]
      /\ UNCHANGED storeVars
      /\ UNCHANGED <<lines, hand, stdin, cutShort, late, typed>>
  BY DEF Ask, Reserve, termVars
<1>2. /\ StoreTypeOK /\ nameOf \in Seq(Names)
      /\ open \subseteq Prompts /\ prompt \in [Chats -> Prompts \cup {None}]
      /\ at \in [Chats -> {"idle", "notice", "wait", "store"}]
  BY DEF IInv, TypeOK
<1>3. /\ Len(nameOf) \in Nat /\ DOMAIN nameOf = 1 .. Len(nameOf)
      /\ nameOf' \in Seq(Names) /\ Len(nameOf') = p
      /\ nameOf'[p] = n
      /\ \A q \in DOMAIN nameOf : nameOf'[q] = nameOf[q]
  BY <1>1, <1>2, LenProperties, AppendProperties
<1>4. /\ DOMAIN nameOf' = 1 .. p /\ DOMAIN nameOf \subseteq DOMAIN nameOf'
      /\ p \in DOMAIN nameOf' /\ p \notin DOMAIN nameOf
      /\ p \in Prompts /\ p # None /\ p <= MaxPrompts
  BY <1>1, <1>3, LenProperties, ValuesAreNumbers DEF Prompts, None
<1>5. slot' = p
  BY <1>1, <1>3
<1>6. /\ open \subseteq DOMAIN nameOf
      /\ \A d \in Chats : (prompt[d] # None <=> at[d] # "idle")
                            /\ (prompt[d] # None => prompt[d] \in open)
      /\ hand.prompt # None => hand.prompt \in DOMAIN nameOf
      /\ hand.prompt = None => hand.line = Empty
  BY DEF IInv, PromptInv, PromptsInOrder
<1>7. \A d \in Chats : d # c => prompt'[d] = prompt[d] /\ prompt[d] # p /\ at'[d] = at[d]
  BY <1>1, <1>2, <1>4, <1>6
<1>8. prompt'[c] = p /\ at'[c] = "notice"
  BY <1>1, <1>2, <1>5
<1>9. StoreTypeOK' /\ StoreInv' /\ KeyGoesWhereItWasAskedFor' /\ EnteredInOrder' /\ BegunIsEntered'
  BY <1>1, <1>2, StoreStays, BegunStays DEF IInv, KeyInv
<1>10. TypeOK'
  <2>1. \A d, e \in Chats : prompt'[d] = prompt'[e] => d = e \/ prompt'[d] = None
    BY <1>7, <1>8 DEF IInv, TypeOK
  <2>2. /\ prompt' \in [Chats -> Prompts \cup {None}] /\ open' \subseteq Prompts
        /\ at' \in [Chats -> {"idle", "notice", "wait", "store"}]
        /\ slot' \in Prompts \cup {None}
    BY <1>1, <1>2, <1>4, <1>5
  <2> QED
    BY <1>1, <1>3, <1>4, <1>9, <2>1, <2>2 DEF IInv, TypeOK
<1>11. PromptsInOrder' /\ SlotIsOpen'
  <2>1. open' = open \cup {p} /\ UNCHANGED hand
    BY <1>1, <1>5
  <2>2. open' \subseteq DOMAIN nameOf' /\ slot' \in open'
    BY <1>4, <1>5, <1>6, <2>1
  <2>3. ASSUME NEW d \in Chats
        PROVE  (prompt'[d] # None <=> at'[d] # "idle") /\ (prompt'[d] # None => prompt'[d] \in open')
    BY <1>4, <1>6, <1>7, <1>8, <2>1
  <2>4. hand'.prompt # None => hand'.prompt \in DOMAIN nameOf'
    BY <1>4, <1>6, <2>1
  <2>5. hand'.prompt = None => hand'.line = Empty
    BY <1>6, <2>1
  <2> QED
    BY <2>2, <2>3, <2>4, <2>5 DEF PromptsInOrder, SlotIsOpen
<1>12. SlotOrLate'
  <2>1. stdin' => stdin
    BY <1>1
  <2>2. late' = late /\ open' = open \cup {p}
    BY <1>1, <1>5
  <2>3. ASSUME stdin, NEW q \in open
        PROVE  nameOf'[q] \in late
    <3>1. q \in DOMAIN nameOf
      BY <1>6
    <3>2. q # slot
      BY <1>1, <1>2, ValuesAreNumbers
    <3>3. nameOf[q] \in late
      BY <2>3, <3>2 DEF IInv, PromptInv, SlotOrLate
    <3> QED
      BY <1>3, <3>1, <3>3
  <2> QED
    BY <1>5, <2>1, <2>2, <2>3 DEF SlotOrLate
<1>13. Carried'
  <2>1. UNCHANGED <<entered, begun>>
    BY <1>1 DEF storeVars
  <2>2. hand.line \in Values => hand.prompt \in DOMAIN nameOf
    BY <1>6, ValuesAreNumbers
  <2> QED
    BY <1>1, <1>3, <1>6, <2>1, <2>2 DEF IInv, KeyInv, Carried, OnItsWay
<1>14. CarriedOnce'
  BY <1>1 DEF IInv, KeyInv, CarriedOnce
<1> QED
  BY <1>1, <1>9, <1>10, <1>11, <1>12, <1>13, <1>14
     DEF IInv, PromptInv, KeyInv, CutShortOnlyByNamesake

LEMMA NoticeKeeps ==
  ASSUME IInv, NEW c \in Chats, NoticeSent(c)
  PROVE  IInv'
<1>1. /\ at[c] = "notice" /\ at' = [at EXCEPT ![c] = "wait"] /\ UNCHANGED storeVars
      /\ UNCHANGED <<slot, nameOf, lines, open, prompt, hand, stdin, cutShort, late, typed>>
  BY DEF NoticeSent, termVars
<1>2. StoreTypeOK' /\ StoreInv' /\ KeyGoesWhereItWasAskedFor' /\ EnteredInOrder' /\ BegunIsEntered'
  BY <1>1, StoreStays, BegunStays DEF IInv, TypeOK, KeyInv
<1>3. TypeOK'
  BY <1>1, <1>2 DEF IInv, TypeOK
<1>4. PromptsInOrder'
  <2>1. at \in [Chats -> {"idle", "notice", "wait", "store"}]
    BY DEF IInv, TypeOK
  <2>2. \A d \in Chats : at'[d] # "idle" <=> at[d] # "idle"
    BY <1>1, <2>1
  <2> QED
    BY <1>1, <2>2 DEF IInv, PromptInv, PromptsInOrder
<1>5. SlotIsOpen' /\ SlotOrLate' /\ CutShortOnlyByNamesake'
  BY <1>1 DEF IInv, PromptInv, SlotIsOpen, SlotOrLate, CutShortOnlyByNamesake
<1>6. Carried' /\ CarriedOnce'
  BY <1>1 DEF IInv, KeyInv, Carried, CarriedOnce, OnItsWay, storeVars
<1> QED
  BY <1>2, <1>3, <1>4, <1>5, <1>6 DEF IInv, PromptInv, KeyInv

\* The prompt is over: its channel is emptied, and the slot cleared if it has its name.
LEMMA DropKeeps ==
  ASSUME IInv, NEW c \in Chats, at[c] # "idle", DropPrompt(c),
         UNCHANGED storeVars, UNCHANGED <<hand, stdin, late, typed>>,
         cutShort' \subseteq late
  PROVE  IInv'
<1> DEFINE p == prompt[c]
<1>1. /\ slot' = Cleared(nameOf[p]) /\ open' = open \ {p} /\ lines' = [lines EXCEPT ![p] = <<>>]
      /\ prompt' = [prompt EXCEPT ![c] = None] /\ at' = [at EXCEPT ![c] = "idle"]
      /\ UNCHANGED <<nameOf, entered, begun>>
  BY DEF DropPrompt, SlotAfterDrop, storeVars
<1>2. /\ StoreTypeOK /\ slot \in Prompts \cup {None}
      /\ open \subseteq Prompts /\ prompt \in [Chats -> Prompts \cup {None}]
      /\ at \in [Chats -> {"idle", "notice", "wait", "store"}]
      /\ lines \in [Prompts -> Seq(Lines)]
      /\ late \subseteq Names
  BY DEF IInv, TypeOK
<1>3. p \in Prompts /\ p \in open /\ p \in DOMAIN nameOf
  BY PromptIs DEF IInv, PromptInv
<1>4. \/ slot' = slot /\ (slot # None => nameOf[slot] # nameOf[p])
      \/ slot' = None /\ slot # None /\ nameOf[slot] = nameOf[p]
  BY <1>1, ClearedIs
<1>5. StoreTypeOK' /\ StoreInv' /\ KeyGoesWhereItWasAskedFor' /\ EnteredInOrder' /\ BegunIsEntered'
  BY <1>2, StoreStays, BegunStays DEF IInv, KeyInv
<1>6. /\ \A q \in Prompts \ {p} : lines'[q] = lines[q]
      /\ lines'[p] = <<>> /\ DOMAIN lines'[p] = {}
      /\ lines' \in [Prompts -> Seq(Lines)]
  BY <1>1, <1>2, <1>3
<1>7. /\ \A d \in Chats : d # c => prompt'[d] = prompt[d] /\ at'[d] = at[d]
      /\ prompt'[c] = None /\ at'[c] = "idle"
  BY <1>1, <1>2
<1>8. TypeOK'
  <2>1. \A d, e \in Chats : prompt'[d] = prompt'[e] => d = e \/ prompt'[d] = None
    BY <1>7 DEF IInv, TypeOK
  <2>2. /\ prompt' \in [Chats -> Prompts \cup {None}] /\ open' \subseteq Prompts
        /\ at' \in [Chats -> {"idle", "notice", "wait", "store"}]
        /\ slot' \in Prompts \cup {None} /\ cutShort' \subseteq Names
    BY <1>1, <1>2, <1>4
  <2> QED
    BY <1>1, <1>5, <1>6, <2>1, <2>2 DEF IInv, TypeOK
<1>9. \A d \in Chats : d # c => prompt[d] # p \/ prompt[d] = None
  BY DEF IInv, TypeOK
<1>10. PromptsInOrder'
  <2>1. /\ open \subseteq DOMAIN nameOf
        /\ \A d \in Chats : (prompt[d] # None <=> at[d] # "idle")
                              /\ (prompt[d] # None => prompt[d] \in open)
        /\ hand.prompt # None => hand.prompt \in DOMAIN nameOf
        /\ hand.prompt = None => hand.line = Empty
    BY DEF IInv, PromptInv, PromptsInOrder
  <2>2. ASSUME NEW d \in Chats
        PROVE  (prompt'[d] # None <=> at'[d] # "idle") /\ (prompt'[d] # None => prompt'[d] \in open')
    BY <1>1, <1>7, <1>9, <2>1
  <2>3. open' \subseteq DOMAIN nameOf'
    BY <1>1, <2>1
  <2> QED
    BY <1>1, <2>1, <2>2, <2>3 DEF PromptsInOrder
<1>11. SlotIsOpen'
  BY <1>1, <1>4 DEF IInv, PromptInv, SlotIsOpen
<1>12. SlotOrLate'
  <2>1. ASSUME stdin, NEW q \in open \ {p}
        PROVE  q = slot' \/ nameOf[q] \in late
    <3>1. CASE q # slot
      BY <2>1, <3>1 DEF IInv, PromptInv, SlotOrLate
    <3>2. CASE q = slot /\ slot' # slot
      <4>1. p # slot /\ nameOf[q] = nameOf[p]
        BY <1>4, <2>1, <3>2
      <4>2. nameOf[p] \in late
        BY <1>3, <2>1, <4>1 DEF IInv, PromptInv, SlotOrLate
      <4> QED
        BY <4>1, <4>2
    <3> QED
      BY <3>1, <3>2
  <2> QED
    BY <1>1, <2>1 DEF SlotOrLate
<1>13. Carried'
  <2>1. hand'.line \in Values => OnItsWay(hand.line, hand.prompt)'
    BY <1>1 DEF IInv, KeyInv, Carried, OnItsWay
  <2>2. ASSUME NEW q \in Prompts, NEW i \in DOMAIN lines'[q], lines'[q][i] \in Values
        PROVE  q \in open' /\ OnItsWay(lines[q][i], q)'
    <3>1. q # p
      BY <1>6
    <3>2. lines'[q] = lines[q]
      BY <1>6, <3>1
    <3>3. q \in open /\ OnItsWay(lines[q][i], q)
      BY <2>2, <3>2 DEF IInv, KeyInv, Carried
    <3> QED
      BY <1>1, <3>1, <3>2, <3>3 DEF OnItsWay
  <2> QED
    BY <2>1, <2>2 DEF Carried
<1>14. CarriedOnce'
  <2>1. \A q \in Prompts : DOMAIN lines'[q] # {} => lines'[q] = lines[q]
    BY <1>6
  <2> QED
    BY <2>1 DEF IInv, KeyInv, CarriedOnce
<1> QED
  BY <1>5, <1>8, <1>10, <1>11, <1>12, <1>13, <1>14
     DEF IInv, PromptInv, KeyInv, CutShortOnlyByNamesake

LEMMA GiveUpKeeps ==
  ASSUME IInv, NEW c \in Chats, GiveUp(c)
  PROVE  IInv'
<1>1. at[c] # "idle" /\ DropPrompt(c) /\ UNCHANGED storeVars
      /\ UNCHANGED <<hand, stdin, cutShort, late, typed>>
  BY DEF GiveUp, termVars
<1> QED
  BY <1>1, DropKeeps DEF IInv, CutShortOnlyByNamesake

\* A prompt whose channel is closed before the end of the input has lost the slot to a late
\* line for its name.
LEMMA ClosedKeeps ==
  ASSUME IInv, NEW c \in Chats, Closed(c)
  PROVE  IInv'
<1>1. /\ at[c] # "idle" /\ DropPrompt(c) /\ UNCHANGED storeVars /\ prompt[c] # slot
      /\ UNCHANGED <<hand, stdin, late, typed>>
      /\ cutShort' = IF stdin THEN cutShort \cup {nameOf[prompt[c]]} ELSE cutShort
  BY DEF Closed, termVars
<1>2. prompt[c] \in open
  BY <1>1, PromptIs DEF IInv, PromptInv
<1>3. stdin => nameOf[prompt[c]] \in late
  BY <1>1, <1>2 DEF IInv, PromptInv, SlotOrLate
<1>4. cutShort' \subseteq late
  BY <1>1, <1>3 DEF IInv, CutShortOnlyByNamesake
<1> QED
  BY <1>1, <1>4, DropKeeps

LEMMA StoreReturnsKeeps ==
  ASSUME IInv, NEW c \in Chats, StoreReturns(c)
  PROVE  IInv'
<1>1. at[c] # "idle" /\ DropPrompt(c) /\ UNCHANGED storeVars
      /\ UNCHANGED <<hand, stdin, cutShort, late, typed>>
  BY DEF StoreReturns, termVars
<1> QED
  BY <1>1, DropKeeps DEF IInv, CutShortOnlyByNamesake

\* The channel without its first line.
LEMMA TailIs ==
  ASSUME NEW s \in Seq(Lines), s # <<>>
  PROVE  /\ 1 \in DOMAIN s /\ Head(s) = s[1] /\ Head(s) \in Lines
         /\ Tail(s) \in Seq(Lines)
         /\ \A i \in DOMAIN Tail(s) : i \in Nat /\ i + 1 \in DOMAIN s /\ i + 1 # 1
                                        /\ Tail(s)[i] = s[i + 1]
<1>1. /\ Head(s) \in Lines /\ Tail(s) \in Seq(Lines) /\ Len(Tail(s)) = Len(s) - 1
      /\ \A i \in 1 .. Len(Tail(s)) : Tail(s)[i] = s[i + 1]
  BY HeadTailProperties
<1>2. Len(s) \in Nat /\ Len(s) # 0 /\ DOMAIN s = 1 .. Len(s)
  BY LenProperties, EmptySeq
<1>3. DOMAIN Tail(s) = 1 .. Len(Tail(s))
  BY <1>1, LenProperties
<1>4. Head(s) = s[1]
  OBVIOUS
<1> QED
  BY <1>1, <1>2, <1>3, <1>4

\* What is left in the channels was there before, and is not the line taken.
LEMMA TakenIs ==
  ASSUME TypeOK, KeyInv, NEW p \in Prompts, lines[p] # <<>>,
         lines' = [lines EXCEPT ![p] = Tail(@)], UNCHANGED hand
  PROVE  /\ Head(lines[p]) = lines[p][1] /\ 1 \in DOMAIN lines[p]
         /\ lines' \in [Prompts -> Seq(Lines)]
         /\ \A q \in Prompts : \A i \in DOMAIN lines'[q] :
              lines'[q][i] \in Values =>
                /\ q \in open /\ OnItsWay(lines'[q][i], q)
                /\ lines'[q][i] # lines[p][1]
         /\ CarriedOnce'
<1>1. lines \in [Prompts -> Seq(Lines)] /\ lines[p] \in Seq(Lines)
  BY DEF TypeOK
<1>2. /\ 1 \in DOMAIN lines[p] /\ Head(lines[p]) = lines[p][1] /\ Tail(lines[p]) \in Seq(Lines)
      /\ \A i \in DOMAIN Tail(lines[p]) : i \in Nat /\ i + 1 \in DOMAIN lines[p] /\ i + 1 # 1
                                            /\ Tail(lines[p])[i] = lines[p][i + 1]
  BY <1>1, TailIs
<1>3. lines'[p] = Tail(lines[p]) /\ \A q \in Prompts \ {p} : lines'[q] = lines[q]
  BY <1>1
<1>4. lines' \in [Prompts -> Seq(Lines)]
  BY <1>1, <1>2
<1> DEFINE was(q, i) == IF q = p THEN i + 1 ELSE i
<1>5. ASSUME NEW q \in Prompts, NEW i \in DOMAIN lines'[q]
      PROVE  /\ was(q, i) \in DOMAIN lines[q] /\ lines'[q][i] = lines[q][was(q, i)]
             /\ q = p => i \in Nat /\ was(q, i) # 1
  BY <1>2, <1>3
<1>6. ASSUME NEW q \in Prompts, NEW i \in DOMAIN lines'[q],
             NEW q2 \in Prompts, NEW j \in DOMAIN lines'[q2], q = q2, was(q, i) = was(q2, j)
      PROVE  i = j
  BY <1>5, <1>6
<1> HIDE DEF was
<1>7. /\ \A q \in Prompts : \A i \in DOMAIN lines[q] :
           lines[q][i] \in Values => q \in open /\ OnItsWay(lines[q][i], q) /\ lines[q][i] # hand.line
      /\ \A q, q2 \in Prompts : \A i \in DOMAIN lines[q], j \in DOMAIN lines[q2] :
           lines[q][i] \in Values /\ lines[q][i] = lines[q2][j] => q = q2 /\ i = j
  BY DEF KeyInv, Carried, CarriedOnce
<1>8. ASSUME NEW q \in Prompts, NEW i \in DOMAIN lines'[q], lines'[q][i] \in Values
      PROVE  /\ q \in open /\ OnItsWay(lines'[q][i], q)
             /\ lines'[q][i] # lines[p][1] /\ lines'[q][i] # hand.line
  <2>1. was(q, i) \in DOMAIN lines[q] /\ lines'[q][i] = lines[q][was(q, i)]
    BY <1>5
  <2>2. lines'[q][i] # lines[p][1]
    <3> SUFFICES ASSUME lines[q][was(q, i)] = lines[p][1]
                 PROVE  FALSE
      BY <2>1
    <3>1. q = p /\ was(q, i) = 1
      BY <1>2, <1>7, <1>8, <2>1
    <3> QED
      BY <1>5, <3>1
  <2> QED
    BY <1>7, <1>8, <2>1, <2>2
<1>9. ASSUME NEW q \in Prompts, NEW q2 \in Prompts,
             NEW i \in DOMAIN lines'[q], NEW j \in DOMAIN lines'[q2],
             lines'[q][i] \in Values, lines'[q][i] = lines'[q2][j]
      PROVE  q = q2 /\ i = j
  <2>1. /\ was(q, i) \in DOMAIN lines[q] /\ lines'[q][i] = lines[q][was(q, i)]
        /\ was(q2, j) \in DOMAIN lines[q2] /\ lines'[q2][j] = lines[q2][was(q2, j)]
    BY <1>5
  <2>2. q = q2 /\ was(q, i) = was(q2, j)
    BY <1>7, <1>9, <2>1
  <2> QED
    BY <1>6, <2>2
<1>10. CarriedOnce'
  BY <1>8, <1>9 DEF CarriedOnce
<1> QED
  BY <1>2, <1>4, <1>8, <1>10

\* The write of a key begins when it leaves the channel of its prompt.
LEMMA TakeLineKeeps ==
  ASSUME IInv, NEW c \in Chats, TakeLine(c)
  PROVE  IInv'
<1> DEFINE p == prompt[c]
           v == Head(lines[p])
<1>1. /\ at[c] = "wait" /\ lines[p] # <<>>
      /\ UNCHANGED <<keychain, file, prefer, entered, gone, read>>
      /\ UNCHANGED <<hand, stdin, cutShort, late, typed>>
  BY DEF TakeLine, stored, termVars
<1>2. p \in Prompts /\ p \in open /\ p \in DOMAIN nameOf /\ nameOf[p] \in Names
  BY <1>1, PromptIs DEF IInv, PromptInv
<1>3. CASE DropPrompt(c) /\ UNCHANGED <<write, begun>>
  <2>1. UNCHANGED storeVars
    BY <1>1, <1>3 DEF storeVars, stored
  <2> QED
    BY <1>1, <1>3, <2>1, DropKeeps DEF IInv, CutShortOnlyByNamesake
<1>4. ASSUME lines' = [lines EXCEPT ![p] = Tail(@)], UNCHANGED <<slot, nameOf, open, prompt>>
      PROVE  /\ v = lines[p][1] /\ 1 \in DOMAIN lines[p]
             /\ lines' \in [Prompts -> Seq(Lines)] /\ CarriedOnce'
             /\ SlotIsOpen' /\ SlotOrLate' /\ CutShortOnlyByNamesake'
             /\ \A q \in Prompts : \A i \in DOMAIN lines'[q] :
                  lines'[q][i] \in Values =>
                    q \in open /\ OnItsWay(lines'[q][i], q) /\ lines'[q][i] # lines[p][1]
  <2>1. /\ v = lines[p][1] /\ 1 \in DOMAIN lines[p]
        /\ lines' \in [Prompts -> Seq(Lines)] /\ CarriedOnce'
        /\ \A q \in Prompts : \A i \in DOMAIN lines'[q] :
             lines'[q][i] \in Values =>
               q \in open /\ OnItsWay(lines'[q][i], q) /\ lines'[q][i] # lines[p][1]
    BY <1>1, <1>2, <1>4, TakenIs DEF IInv
  <2>2. SlotIsOpen' /\ SlotOrLate' /\ CutShortOnlyByNamesake'
    BY <1>1, <1>4 DEF IInv, PromptInv, SlotIsOpen, SlotOrLate, CutShortOnlyByNamesake
  <2> QED
    BY <2>1, <2>2
<1>5. CASE /\ lines' = [lines EXCEPT ![p] = Tail(@)]
           /\ UNCHANGED <<slot, nameOf, open, prompt, at, write, begun>>
  <2>1. UNCHANGED storeVars
    BY <1>1, <1>5 DEF storeVars, stored
  <2>2. StoreTypeOK' /\ StoreInv' /\ KeyGoesWhereItWasAskedFor' /\ EnteredInOrder' /\ BegunIsEntered'
    BY <2>1, StoreStays, BegunStays DEF IInv, TypeOK, KeyInv
  <2>3. TypeOK'
    BY <1>1, <1>4, <1>5, <2>2 DEF IInv, TypeOK
  <2>4. PromptsInOrder'
    BY <1>1, <1>5 DEF IInv, PromptInv, PromptsInOrder
  <2>5. Carried'
    <3>1. hand.line \in Values => OnItsWay(hand.line, hand.prompt)
      BY DEF IInv, KeyInv, Carried
    <3> QED
      BY <1>1, <1>4, <1>5, <3>1 DEF Carried, OnItsWay
  <2> QED
    BY <1>4, <1>5, <2>2, <2>3, <2>4, <2>5 DEF IInv, PromptInv, KeyInv
<1>6. CASE /\ v \in Values /\ write = NoWrite /\ BeginWrite(nameOf[p], v)
           /\ lines' = [lines EXCEPT ![p] = Tail(@)] /\ at' = [at EXCEPT ![c] = "store"]
           /\ UNCHANGED <<slot, nameOf, open, prompt>>
  <2>1. /\ v = lines[p][1] /\ 1 \in DOMAIN lines[p]
        /\ lines' \in [Prompts -> Seq(Lines)] /\ CarriedOnce'
        /\ SlotIsOpen' /\ SlotOrLate' /\ CutShortOnlyByNamesake'
    BY <1>4, <1>6
  <2>2. OnItsWay(v, p)
    BY <1>2, <1>6, <2>1 DEF IInv, KeyInv, Carried
  <2>3. v # hand.line
    BY <1>2, <1>6, <2>1 DEF IInv, KeyInv, CarriedOnce
  <2>4. v \in DOMAIN entered /\ v \notin begun /\ entered[v] = nameOf[p] /\ v # Old
    <3>1. v # Old
      BY <2>2, SecretStoreConstants DEF OnItsWay, IInv, KeyInv, EnteredInOrder, Old
    <3> QED
      BY <2>2, <3>1 DEF OnItsWay
  <2> HIDE DEF v
  <2>5. /\ write' = [step |-> "keychain", name |-> nameOf[p], value |-> v]
        /\ begun' = begun \cup {v}
    BY <1>6 DEF BeginWrite
  <2>6. StoreInv'
    BY <1>1, <1>2, <1>6, <2>4, BeginKeepsStores DEF IInv, KeyInv, stored
  <2>7. TypeOK'
    <3>1. StoreTypeOK'
      BY <1>1, <1>2, <1>6, <2>5 DEF IInv, TypeOK, StoreTypeOK
    <3> QED
      BY <1>1, <1>6, <2>1, <3>1 DEF IInv, TypeOK
  <2>8. PromptsInOrder'
    <3>1. at \in [Chats -> {"idle", "notice", "wait", "store"}]
      BY DEF IInv, TypeOK
    <3>2. \A d \in Chats : at'[d] # "idle" <=> at[d] # "idle"
      BY <1>1, <1>6, <3>1
    <3> QED
      BY <1>1, <1>6, <3>2 DEF IInv, PromptInv, PromptsInOrder
  <2>9. Carried'
    <3>1. hand.line \in Values => OnItsWay(hand.line, hand.prompt)
      BY DEF IInv, KeyInv, Carried
    <3>2. \A q \in Prompts : \A i \in DOMAIN lines'[q] :
            lines'[q][i] \in Values =>
              q \in open /\ OnItsWay(lines'[q][i], q) /\ lines'[q][i] # v
      BY <1>4, <1>6, <2>1
    <3> QED
      BY <1>1, <1>6, <2>3, <2>5, <3>1, <3>2 DEF Carried, OnItsWay
  <2>10. BegunIsEntered'
    <3>1. /\ begun \subseteq {Old} \cup DOMAIN entered
          /\ \A n \in Names : {keychain[n], file[n]} \subseteq begun \cup {None}
      BY DEF IInv, KeyInv, BegunIsEntered
    <3>2. write'.value = v /\ write'.name = nameOf[p]
      BY <2>5
    <3> QED
      BY <1>1, <2>4, <2>5, <3>1, <3>2 DEF BegunIsEntered
  <2>11. EnteredInOrder' /\ KeyGoesWhereItWasAskedFor'
    BY <1>1 DEF IInv, KeyInv, EnteredInOrder, KeyGoesWhereItWasAskedFor
  <2> QED
    BY <2>1, <2>6, <2>7, <2>8, <2>9, <2>10, <2>11 DEF IInv, PromptInv, KeyInv
<1> QED
  BY <1>3, <1>5, <1>6 DEF TakeLine, IsKey

-----------------------------------------------------------------------------
(* Steps of the stores.                                                     *)

\* A key is put only under the name that its write is for.
LEMMA StoreKeeps ==
  ASSUME IInv, StoreStep
  PROVE  IInv'
<1>1. /\ SetStep /\ UNCHANGED <<slot, nameOf, lines, open, prompt, at>>
      /\ UNCHANGED <<hand, stdin, cutShort, late, typed>>
  BY DEF StoreStep, promptVars, termVars
<1>2. /\ write # NoWrite /\ write.name \in Names /\ write.value \in Values
      /\ keychain' \in {keychain, [keychain EXCEPT ![write.name] = write.value]}
      /\ file' \in {file, [file EXCEPT ![write.name] = write.value], [file EXCEPT ![write.name] = None]}
      /\ \/ write' = NoWrite
         \/ \E step \in {"check", "file", "remove"} :
              write' = [step |-> step, name |-> write.name, value |-> write.value]
      /\ UNCHANGED <<entered, begun, read>>
  BY <1>1, SetIs DEF IInv
<1>3. /\ begun \subseteq {Old} \cup DOMAIN entered
      /\ \A n \in Names : {keychain[n], file[n]} \subseteq begun \cup {None}
      /\ write.value \in begun \ {Old} /\ entered[write.value] = write.name
  BY <1>2 DEF IInv, KeyInv, BegunIsEntered
<1>4. /\ keychain \in [Names -> Values \cup {None}] /\ file \in [Names -> Values \cup {None}]
      /\ gone \in [Names -> SUBSET Values] /\ prefer \subseteq Names
  BY DEF IInv, TypeOK, StoreTypeOK
<1>5. ASSUME NEW n \in Names
      PROVE  /\ keychain'[n] = keychain[n] \/ (n = write.name /\ keychain'[n] = write.value)
             /\ \/ file'[n] \in {file[n], None}
                \/ n = write.name /\ file'[n] = write.value
  BY <1>2, <1>4
<1>6. StoreInv'
  BY <1>1, SetKeepsStores, SetKeepsReads DEF IInv, KeyInv, StoreInv
<1>7. TypeOK'
  <2>1. keychain' \in [Names -> Values \cup {None}] /\ file' \in [Names -> Values \cup {None}]
    BY <1>2, <1>4
  <2>2. prefer' \subseteq Names
    BY <1>1, <1>2, <1>4
       DEF SetStep, KeychainSet, KeychainCheck, FileSet, FileRemove, PutInFile, DropFromFile, stored
  <2>3. gone' \in [Names -> SUBSET Values]
    BY <1>1, <1>4, GoneIs DEF IInv, KeyInv, StoreInv
  <2>4. write' \in [step : {"keychain", "check", "file", "remove"}, name : Names, value : Values]
                     \cup {NoWrite}
    BY <1>2
  <2>5. StoreTypeOK'
    BY <1>2, <2>1, <2>2, <2>3, <2>4 DEF IInv, TypeOK, StoreTypeOK
  <2> QED
    BY <1>1, <2>5 DEF IInv, TypeOK
<1>8. PromptInv' /\ CutShortOnlyByNamesake'
  BY <1>1 DEF IInv, PromptInv, PromptsInOrder, SlotIsOpen, SlotOrLate, CutShortOnlyByNamesake
<1>9. EnteredInOrder' /\ Carried' /\ CarriedOnce'
  BY <1>1, <1>2 DEF IInv, KeyInv, EnteredInOrder, Carried, CarriedOnce, OnItsWay
<1>10. BegunIsEntered'
  <2>1. \A n \in Names : {keychain'[n], file'[n]} \subseteq begun \cup {None}
    BY <1>3, <1>5
  <2>2. write' # NoWrite => write'.value = write.value /\ write'.name = write.name
    BY <1>2
  <2> QED
    BY <1>2, <1>3, <2>1, <2>2 DEF BegunIsEntered
<1>11. KeyGoesWhereItWasAskedFor'
  <2>1. None \notin DOMAIN entered
    BY ValuesAreNumbers DEF IInv, TypeOK, StoreTypeOK
  <2> QED
    BY <1>2, <1>3, <1>5, <2>1 DEF IInv, KeyGoesWhereItWasAskedFor
<1> QED
  BY <1>6, <1>7, <1>8, <1>9, <1>10, <1>11 DEF IInv, KeyInv

LEMMA LookKeeps ==
  ASSUME IInv, NEW r \in Readers, LookStep(r)
  PROVE  IInv'
<1>1. /\ ReadStep(r) /\ UNCHANGED <<slot, nameOf, lines, open, prompt, at>>
      /\ UNCHANGED <<hand, stdin, cutShort, late, typed>>
  BY DEF LookStep, promptVars, termVars
<1>2. UNCHANGED <<keychain, file, prefer, write, entered, begun, gone>>
  BY <1>1 DEF ReadStep, ReadFile, ReadKeychain, stored
<1>3. StoreInv' /\ read' \in [Readers -> Reads]
  BY <1>1, ReadKeepsStores DEF IInv
<1>4. TypeOK'
  <2>1. StoreTypeOK'
    BY <1>2, <1>3 DEF IInv, TypeOK, StoreTypeOK, Reads
  <2> QED
    BY <1>1, <2>1 DEF IInv, TypeOK
<1>5. PromptInv' /\ CutShortOnlyByNamesake'
  BY <1>1 DEF IInv, PromptInv, PromptsInOrder, SlotIsOpen, SlotOrLate, CutShortOnlyByNamesake
<1>6. EnteredInOrder' /\ Carried' /\ CarriedOnce' /\ BegunIsEntered' /\ KeyGoesWhereItWasAskedFor'
  BY <1>1, <1>2
     DEF IInv, KeyInv, EnteredInOrder, Carried, CarriedOnce, OnItsWay, BegunIsEntered,
         KeyGoesWhereItWasAskedFor
<1> QED
  BY <1>3, <1>4, <1>5, <1>6 DEF IInv, KeyInv

-----------------------------------------------------------------------------
(* The terminal thread.                                                     *)

\* A key is new, and is for the name of the prompt in the slot.
LEMMA ReadLineKeeps ==
  ASSUME IInv, ReadLine
  PROVE  IInv'
<1>1. /\ stdin /\ hand = NoHand /\ typed < MaxLines /\ typed' = typed + 1
      /\ UNCHANGED <<keychain, file, prefer, write, begun, gone, read>>
      /\ UNCHANGED <<slot, nameOf, lines, open, prompt, at>>
      /\ UNCHANGED <<stdin, cutShort, late>>
  BY DEF ReadLine, stored, promptVars
<1>2. /\ StoreTypeOK /\ nameOf \in Seq(Names) /\ typed' \in 0 .. MaxLines
      /\ open \subseteq DOMAIN nameOf /\ slot \in Prompts \cup {None}
      /\ slot # None => slot \in DOMAIN nameOf /\ nameOf[slot] \in Names
  <2>1. slot # None => slot \in DOMAIN nameOf
    BY DEF IInv, PromptInv, PromptsInOrder, SlotIsOpen
  <2>2. typed' \in 0 .. MaxLines
    BY <1>1, TerminalPromptConstants DEF IInv, TypeOK
  <2> QED
    BY <2>1, <2>2, ElementOfSeq, LenProperties DEF IInv, TypeOK, PromptInv, PromptsInOrder
<1>3. StoresAreNew' /\ WriteIsNew' /\ ReadsAreNew'
  BY <1>1 DEF IInv, StoreInv, StoresAreNew, WriteIsNew, ReadsAreNew
<1>4. SlotIsOpen' /\ SlotOrLate' /\ CutShortOnlyByNamesake'
  BY <1>1 DEF IInv, PromptInv, SlotIsOpen, SlotOrLate, CutShortOnlyByNamesake
<1>5. ASSUME slot # None, NEW line \in Lines, hand' = [line |-> line, prompt |-> slot]
      PROVE  /\ PromptsInOrder'
             /\ hand' \in [line : Lines, prompt : Prompts \cup {None}]
  <2>1. hand'.line = line /\ hand'.prompt = slot
    BY <1>5
  <2>2. hand' \in [line : Lines, prompt : Prompts \cup {None}]
    BY <1>2, <1>5
  <2> QED
    BY <1>1, <1>2, <1>5, <2>1, <2>2 DEF IInv, PromptInv, PromptsInOrder
<1>6. CASE /\ slot # None /\ NextValue \in Values
           /\ Enter(nameOf[slot])
           /\ hand' = [line |-> NextValue, prompt |-> slot]
  <2>1. /\ entered' \in [DOMAIN entered' -> Names]
        /\ DOMAIN entered' = DOMAIN entered \cup {NextValue}
        /\ DOMAIN entered' \subseteq Values
        /\ EnteredInOrder'
        /\ entered'[NextValue] = nameOf[slot]
        /\ \A v \in DOMAIN entered : entered'[v] = entered[v]
    BY <1>2, <1>6, EnterIs DEF IInv, KeyInv
  <2>2. NextValue \notin DOMAIN entered /\ NextValue # Old /\ NextValue # None
    BY <1>6, NextIs, ValuesAreNumbers DEF IInv, KeyInv
  <2>3. hand'.line = NextValue /\ hand'.prompt = slot
    BY <1>6
  <2>4. PromptsInOrder' /\ hand' \in [line : Lines, prompt : Prompts \cup {None}]
    BY <1>5, <1>6 DEF Lines
  <2>5. TypeOK'
    <3>1. StoreTypeOK'
      BY <1>1, <1>2, <2>1 DEF StoreTypeOK, Reads
    <3> QED
      BY <1>1, <1>2, <2>4, <3>1 DEF IInv, TypeOK
  <2>6. /\ begun \subseteq {Old} \cup DOMAIN entered
        /\ \A n \in Names : {keychain[n], file[n]} \subseteq begun \cup {None}
        /\ write # NoWrite => write.value \in begun \ {Old} /\ entered[write.value] = write.name
    BY DEF IInv, KeyInv, BegunIsEntered
  <2>7. BegunIsEntered'
    BY <1>1, <2>1, <2>6 DEF BegunIsEntered
  <2>8. \A p \in Prompts : \A i \in DOMAIN lines[p] :
          lines[p][i] \in Values => p \in open /\ OnItsWay(lines[p][i], p)
    BY DEF IInv, KeyInv, Carried
  <2>9. Carried'
    BY <1>1, <2>1, <2>2, <2>3, <2>6, <2>8 DEF Carried, OnItsWay
  <2>10. CarriedOnce'
    BY <1>1, <2>2, <2>3, <2>8 DEF IInv, KeyInv, CarriedOnce, OnItsWay
  <2>11. KeyGoesWhereItWasAskedFor'
    <3>1. \A n \in Names : NextValue \notin {keychain[n], file[n]}
      BY <2>2, <2>6
    <3> QED
      BY <1>1, <2>1, <3>1 DEF IInv, KeyGoesWhereItWasAskedFor
  <2> QED
    BY <1>3, <1>4, <2>1, <2>4, <2>5, <2>7, <2>9, <2>10, <2>11 DEF IInv, PromptInv, KeyInv, StoreInv
<1>7. CASE /\ UNCHANGED entered
           /\ \/ slot # None /\ \E line \in {Empty, Word} : hand' = [line |-> line, prompt |-> slot]
              \/ UNCHANGED hand
  <2>1. /\ PromptsInOrder' /\ hand' \in [line : Lines, prompt : Prompts \cup {None}]
        /\ hand'.line \notin Values
    <3>1. CASE UNCHANGED hand
      BY <1>1, <3>1, ValuesAreNumbers DEF IInv, TypeOK, PromptInv, PromptsInOrder, NoHand
    <3>2. ASSUME slot # None, NEW line \in {Empty, Word}, hand' = [line |-> line, prompt |-> slot]
          PROVE  /\ PromptsInOrder' /\ hand' \in [line : Lines, prompt : Prompts \cup {None}]
                 /\ hand'.line \notin Values
      BY <1>5, <3>2, ValuesAreNumbers DEF Lines
    <3> QED
      BY <1>7, <3>1, <3>2
  <2>2. StoreTypeOK' /\ KeyGoesWhereItWasAskedFor' /\ EnteredInOrder' /\ BegunIsEntered'
    BY <1>1, <1>2, <1>7
       DEF IInv, StoreTypeOK, Reads, KeyGoesWhereItWasAskedFor, KeyInv, EnteredInOrder, BegunIsEntered
  <2>3. TypeOK'
    BY <1>1, <1>2, <2>1, <2>2 DEF IInv, TypeOK
  <2>4. Carried' /\ CarriedOnce'
    BY <1>1, <1>7, <2>1 DEF IInv, KeyInv, Carried, CarriedOnce, OnItsWay
  <2> QED
    BY <1>3, <1>4, <2>1, <2>2, <2>3, <2>4 DEF IInv, PromptInv, KeyInv, StoreInv
<1> QED
  BY <1>6, <1>7 DEF ReadLine

\* The line goes to the prompt that was in the slot when it was read, or to nobody.
LEMMA DeliverKeeps ==
  ASSUME IInv, Deliver
  PROVE  IInv'
<1> DEFINE p == hand.prompt
<1>1. /\ hand # NoHand /\ hand' = NoHand /\ UNCHANGED storeVars
      /\ UNCHANGED <<nameOf, open, prompt, at, stdin, cutShort, typed>>
      /\ UNCHANGED <<entered, begun>>
  BY DEF Deliver, storeVars
<1>2. /\ hand \in [line : Lines, prompt : Prompts \cup {None}]
      /\ lines \in [Prompts -> Seq(Lines)] /\ nameOf \in Seq(Names)
      /\ slot \in Prompts \cup {None} /\ late \subseteq Names
      /\ open \subseteq Prompts
  BY DEF IInv, TypeOK
<1>3. p \in Prompts /\ p \in DOMAIN nameOf /\ nameOf[p] \in Names
  <2>1. p # None
    BY <1>1, <1>2 DEF IInv, PromptInv, PromptsInOrder, NoHand
  <2> QED
    BY <1>2, <2>1, ElementOfSeq, LenProperties DEF IInv, PromptInv, PromptsInOrder
<1>4. hand'.line = Empty /\ hand'.prompt = None /\ Empty \notin Values
      /\ hand' \in [line : Lines, prompt : Prompts \cup {None}]
  BY <1>1, ValuesAreNumbers DEF NoHand, Lines
<1>5. StoreTypeOK' /\ StoreInv' /\ KeyGoesWhereItWasAskedFor' /\ EnteredInOrder' /\ BegunIsEntered'
  BY <1>1, StoreStays, BegunStays DEF IInv, TypeOK, KeyInv
<1>6. PromptsInOrder'
  BY <1>1, <1>4 DEF IInv, PromptInv, PromptsInOrder
<1>7. CASE p \in open
  <2>1. lines' = [lines EXCEPT ![p] = Append(@, hand.line)] /\ UNCHANGED <<slot, late>>
    BY <1>7 DEF Deliver, Addressee
  <2>2. /\ lines'[p] = Append(lines[p], hand.line) /\ lines[p] \in Seq(Lines) /\ hand.line \in Lines
        /\ \A q \in Prompts \ {p} : lines'[q] = lines[q]
    BY <1>2, <1>3, <2>1
  <2>3. /\ lines'[p] \in Seq(Lines)
        /\ \A i \in DOMAIN lines'[p] : \/ i \in DOMAIN lines[p] /\ lines'[p][i] = lines[p][i]
                                       \/ i = Len(lines[p]) + 1 /\ lines'[p][i] = hand.line
    <3>1. /\ lines'[p] \in Seq(Lines) /\ Len(lines'[p]) = Len(lines[p]) + 1
          /\ \A i \in 1 .. Len(lines[p]) : lines'[p][i] = lines[p][i]
          /\ lines'[p][Len(lines[p]) + 1] = hand.line
      BY <2>2, AppendProperties
    <3>2. /\ Len(lines[p]) \in Nat /\ DOMAIN lines[p] = 1 .. Len(lines[p])
          /\ DOMAIN lines'[p] = 1 .. Len(lines'[p])
      BY <2>2, <3>1, LenProperties
    <3> QED
      BY <3>1, <3>2
  <2>4. lines' \in [Prompts -> Seq(Lines)]
    BY <1>2, <1>3, <2>1, <2>2, <2>3
  <2>5. /\ hand.line \in Values => OnItsWay(hand.line, p)
        /\ \A q \in Prompts : \A i \in DOMAIN lines[q] :
             lines[q][i] \in Values =>
               q \in open /\ OnItsWay(lines[q][i], q) /\ lines[q][i] # hand.line
        /\ \A q, q2 \in Prompts : \A i \in DOMAIN lines[q], j \in DOMAIN lines[q2] :
             lines[q][i] \in Values /\ lines[q][i] = lines[q2][j] => q = q2 /\ i = j
    BY DEF IInv, KeyInv, Carried, CarriedOnce
  <2>6. ASSUME NEW q \in Prompts, NEW i \in DOMAIN lines'[q]
        PROVE  \/ i \in DOMAIN lines[q] /\ lines'[q][i] = lines[q][i]
               \/ q = p /\ i = Len(lines[p]) + 1 /\ lines'[q][i] = hand.line
    BY <2>2, <2>3
  <2>7. Carried'
    <3>1. ASSUME NEW q \in Prompts, NEW i \in DOMAIN lines'[q], lines'[q][i] \in Values
          PROVE  q \in open /\ OnItsWay(lines'[q][i], q)
      BY <1>7, <2>5, <2>6, <3>1
    <3> QED
      BY <1>1, <1>4, <3>1 DEF Carried, OnItsWay
  <2>8. CarriedOnce'
    <3>1. ASSUME NEW q \in Prompts, NEW q2 \in Prompts,
                 NEW i \in DOMAIN lines'[q], NEW j \in DOMAIN lines'[q2],
                 lines'[q][i] \in Values, lines'[q][i] = lines'[q2][j]
          PROVE  q = q2 /\ i = j
      BY <2>5, <2>6, <3>1
    <3> QED
      BY <1>4, <3>1 DEF CarriedOnce
  <2>9. TypeOK'
    BY <1>1, <1>4, <1>5, <2>1, <2>4 DEF IInv, TypeOK
  <2>10. SlotIsOpen' /\ SlotOrLate' /\ CutShortOnlyByNamesake'
    BY <1>1, <2>1 DEF IInv, PromptInv, SlotIsOpen, SlotOrLate, CutShortOnlyByNamesake
  <2> QED
    BY <1>5, <1>6, <2>7, <2>8, <2>9, <2>10 DEF IInv, PromptInv, KeyInv
<1>8. CASE p \notin open
  <2>1. slot' = Cleared(nameOf[p]) /\ late' = late \cup {nameOf[p]} /\ lines' = lines
    BY <1>8 DEF Deliver, Addressee
  <2>2. \/ slot' = slot
        \/ slot' = None /\ slot # None /\ nameOf[slot] = nameOf[p]
    BY <2>1, ClearedIs
  <2>3. TypeOK'
    BY <1>1, <1>2, <1>3, <1>4, <1>5, <2>1, <2>2 DEF IInv, TypeOK
  <2>4. SlotIsOpen' /\ SlotOrLate' /\ CutShortOnlyByNamesake'
    BY <1>1, <2>1, <2>2 DEF IInv, PromptInv, SlotIsOpen, SlotOrLate, CutShortOnlyByNamesake
  <2>5. Carried' /\ CarriedOnce'
    BY <1>1, <1>4, <2>1 DEF IInv, KeyInv, Carried, CarriedOnce, OnItsWay
  <2> QED
    BY <1>5, <1>6, <2>3, <2>4, <2>5 DEF IInv, PromptInv, KeyInv
<1> QED
  BY <1>7, <1>8

LEMMA EndOfInputKeeps ==
  ASSUME IInv, EndOfInput
  PROVE  IInv'
<1>1. /\ stdin' = FALSE /\ slot' = None /\ UNCHANGED storeVars
      /\ UNCHANGED <<nameOf, lines, open, prompt, at, hand, cutShort, late, typed>>
      /\ UNCHANGED <<entered, begun>>
  BY DEF EndOfInput, storeVars
<1>2. StoreTypeOK' /\ StoreInv' /\ KeyGoesWhereItWasAskedFor' /\ EnteredInOrder' /\ BegunIsEntered'
  BY <1>1, StoreStays, BegunStays DEF IInv, TypeOK, KeyInv
<1>3. TypeOK'
  BY <1>1, <1>2 DEF IInv, TypeOK
<1>4. PromptInv' /\ CutShortOnlyByNamesake'
  BY <1>1 DEF IInv, PromptInv, PromptsInOrder, SlotIsOpen, SlotOrLate, CutShortOnlyByNamesake
<1>5. Carried' /\ CarriedOnce'
  BY <1>1 DEF IInv, KeyInv, Carried, CarriedOnce, OnItsWay
<1> QED
  BY <1>2, <1>3, <1>4, <1>5 DEF IInv, KeyInv

-----------------------------------------------------------------------------
(* The invariant is inductive.                                              *)

LEMMA IInvInit == Init => IInv
<1> SUFFICES ASSUME Init
             PROVE  IInv
  OBVIOUS
<1>1. /\ slot = None /\ nameOf = <<>> /\ lines = [p \in Prompts |-> <<>>] /\ open = {}
      /\ prompt = [c \in Chats |-> None] /\ at = [c \in Chats |-> "idle"]
      /\ hand = NoHand /\ stdin = TRUE /\ cutShort = {} /\ late = {} /\ typed = 0
  BY DEF Init
<1>2. PICK k \in {None, Old}, f \in {None, Old} :
        keychain = [n \in Names |-> k] /\ file = [n \in Names |-> f]
  BY DEF Init, StoreInit
<1>3. /\ prefer = {} /\ write = NoWrite /\ entered = <<>> /\ begun = {Old}
      /\ gone = [n \in Names |-> {}] /\ read = [r \in Readers |-> NoRead]
  BY DEF Init, StoreInit
<1>4. DOMAIN entered = {} /\ entered \in [{} -> Names] /\ DOMAIN nameOf = {}
      /\ nameOf \in Seq(Names) /\ Len(nameOf) = 0
  BY <1>1, <1>3, EmptySeq, LenProperties
<1>5. NoRead \in Reads
  BY DEF NoRead, Reads, None
<1>6. StoreTypeOK
  BY <1>2, <1>3, <1>4, <1>5, ValuesAreNumbers DEF StoreTypeOK
<1>7. NoHand \in [line : Lines, prompt : Prompts \cup {None}]
  BY DEF NoHand, Lines
<1>8. TypeOK
  <2>1. 0 \in 0 .. MaxLines /\ 0 <= MaxPrompts
    BY TerminalPromptConstants
  <2>2. lines \in [Prompts -> Seq(Lines)]
    BY <1>1, EmptySeq
  <2> QED
    BY <1>1, <1>4, <1>6, <1>7, <2>1, <2>2 DEF TypeOK
<1>9. PromptInv /\ CutShortOnlyByNamesake
  BY <1>1, <1>4
     DEF PromptInv, PromptsInOrder, SlotIsOpen, SlotOrLate, CutShortOnlyByNamesake, NoHand
<1>10. EnteredInOrder
  <2>1. 0 \in 0 .. MaxValues /\ 2 .. 0 + 1 = {}
    BY SecretStoreConstants
  <2> QED
    BY <1>4, <2>1 DEF EnteredInOrder
<1>11. Carried /\ CarriedOnce
  <2>1. \A p \in Prompts : DOMAIN lines[p] = {}
    BY <1>1, EmptySeq
  <2>2. hand.line \notin Values
    BY <1>1, ValuesAreNumbers DEF NoHand
  <2> QED
    BY <2>1, <2>2 DEF Carried, CarriedOnce
<1>12. BegunIsEntered /\ KeyGoesWhereItWasAskedFor
  BY <1>2, <1>3, <1>4 DEF BegunIsEntered, KeyGoesWhereItWasAskedFor
<1>13. StoreInv
  BY <1>2, <1>3 DEF StoreInv, StoresAreNew, WriteIsNew, ReadsAreNew, NoRead
<1> QED
  BY <1>8, <1>9, <1>10, <1>11, <1>12, <1>13 DEF IInv, KeyInv

LEMMA IInvStep == IInv /\ [Next]_vars => IInv'
<1> SUFFICES ASSUME IInv, [Next]_vars
             PROVE  IInv'
  OBVIOUS
<1>1. ASSUME NEW c \in Chats, NEW n \in Names, Ask(c, n)
      PROVE  IInv'
  BY <1>1, AskKeeps
<1>2. ASSUME NEW c \in Chats, PromptStep(c)
      PROVE  IInv'
  BY <1>2, NoticeKeeps, GiveUpKeeps, ClosedKeeps, TakeLineKeeps, StoreReturnsKeeps DEF PromptStep
<1>3. CASE StoreStep
  BY <1>3, StoreKeeps
<1>4. ASSUME NEW r \in Readers, LookStep(r)
      PROVE  IInv'
  BY <1>4, LookKeeps
<1>5. CASE ReadLine
  BY <1>5, ReadLineKeeps
<1>6. CASE Deliver
  BY <1>6, DeliverKeeps
<1>7. CASE EndOfInput
  BY <1>7, EndOfInputKeeps
<1>8. CASE UNCHANGED vars
  <2>1. /\ UNCHANGED storeVars /\ UNCHANGED <<slot, nameOf, lines, open, prompt, at>>
        /\ UNCHANGED <<hand, stdin, cutShort, late, typed>> /\ UNCHANGED <<entered, begun>>
    BY <1>8 DEF vars, storeVars, promptVars, termVars
  <2>2. StoreTypeOK' /\ StoreInv' /\ KeyGoesWhereItWasAskedFor' /\ EnteredInOrder' /\ BegunIsEntered'
    BY <2>1, StoreStays, BegunStays DEF IInv, TypeOK, KeyInv
  <2>3. TypeOK'
    BY <2>1, <2>2 DEF IInv, TypeOK
  <2>4. PromptInv' /\ CutShortOnlyByNamesake'
    BY <2>1 DEF IInv, PromptInv, PromptsInOrder, SlotIsOpen, SlotOrLate, CutShortOnlyByNamesake
  <2>5. Carried' /\ CarriedOnce'
    BY <2>1 DEF IInv, KeyInv, Carried, CarriedOnce, OnItsWay
  <2> QED
    BY <2>2, <2>3, <2>4, <2>5 DEF IInv, KeyInv
<1> QED
  BY <1>1, <1>2, <1>3, <1>4, <1>5, <1>6, <1>7, <1>8 DEF Next

-----------------------------------------------------------------------------
(* What holds of every run.                                                 *)

\* Every reachable state is in the inductive invariant.
THEOREM TerminalPromptInvariant == Spec => []IInv
<1> QED
  BY IInvInit, IInvStep, PTL DEF Spec

\* The variables of the terminal, its prompts and the two stores keep their types.
THEOREM TerminalPromptTypeCorrect == Spec => []TypeOK
<1>1. IInv => TypeOK
  BY DEF IInv
<1> QED
  BY TerminalPromptInvariant, <1>1, PTL

\* A typed key is only ever stored under the name that the prompt in the slot asked for
\* when the line was read.
THEOREM KeysAreFiledRight == Spec => []KeyGoesWhereItWasAskedFor
<1>1. IInv => KeyGoesWhereItWasAskedFor
  BY DEF IInv
<1> QED
  BY TerminalPromptInvariant, <1>1, PTL

\* Before the end of the input, a prompt's channel is closed only after a late line for a
\* prompt of the same secret.
THEOREM PromptsEndForAReason == Spec => []CutShortOnlyByNamesake
<1>1. IInv => CutShortOnlyByNamesake
  BY DEF IInv
<1> QED
  BY TerminalPromptInvariant, <1>1, PTL

\* A read that begins after a write has reported a success does not find what that write
\* replaced, whichever of the two stores failed in between, if it could read the file.
THEOREM ReplacedKeysStayGone == Spec => []NoOldKey
<1>1. IInv => NoOldKey
  BY DEF IInv, StoreInv, ReadsAreNew, NoOldKey
<1> QED
  BY TerminalPromptInvariant, <1>1, PTL
=============================================================================
