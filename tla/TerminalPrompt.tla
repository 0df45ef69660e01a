--------------------------- MODULE TerminalPrompt ---------------------------
(***************************************************************************)
(* The terminal (src/runtime.rs): one thread reads lines and gives each to  *)
(* the secret prompt that waits, if there is one, or takes it for a command. *)
(* A prompt is opened by /model add, in the task of its chat, when the key   *)
(* of the model cannot be found; it ends with a value, an empty line, five   *)
(* minutes without a line, the end of the input, or the end of its task.     *)
(*                                                                         *)
(* The thread copies the prompt out of the slot and sends the line later,   *)
(* when that prompt may be gone and another may be in the slot.             *)
(***************************************************************************)
EXTENDS SecretStore, Sequences

CONSTANTS
  Chats,        \* chats whose owner sends /model add
  MaxPrompts,   \* bound on prompts opened
  MaxLines      \* bound on lines typed

ASSUME TerminalPromptConstants == {MaxPrompts, MaxLines} \subseteq Nat

Prompts == 1 .. MaxPrompts
Empty == None                 \* an empty line
Word == MaxValues + 2         \* the name of a terminal command
Lines == Values \cup {Empty, Word}

VARIABLES
  slot,         \* the pending prompt, as the terminal thread sees it
  nameOf,       \* secret that each prompt asks for
  lines,        \* lines in the channel of each prompt
  open,         \* prompts whose receiver is alive
  prompt,       \* the prompt of each chat's task
  at,           \* where that task is
  hand,         \* the line the thread holds, and the prompt it goes to
  stdin,        \* the terminal is open
  cutShort,     \* secrets whose prompt saw its channel closed before the end of input
  late,         \* secrets that a line was sent for when its prompt was gone
  typed         \* lines typed

promptVars == <<slot, nameOf, lines, open, prompt, at>>
termVars == <<hand, stdin>>
vars == <<storeVars, promptVars, termVars, cutShort, late, typed>>

NoHand == [line |-> Empty, prompt |-> None]

Init ==
  /\ StoreInit
  /\ slot = None
  /\ nameOf = <<>>
  /\ lines = [p \in Prompts |-> <<>>]
  /\ open = {}
  /\ prompt = [c \in Chats |-> None]
  /\ at = [c \in Chats |-> "idle"]
  /\ hand = NoHand
  /\ stdin = TRUE
  /\ cutShort = {} /\ late = {}
  /\ typed = 0

-----------------------------------------------------------------------------
(* The task of /model add.                                                 *)

\* Mutant: whatever is pending is cleared.
TakenFromSlot(n) == None

\* clear_terminal_secret_prompt: the slot is cleared by name.
Cleared(n) == IF slot # None /\ nameOf[slot] = n THEN None ELSE slot

\* reserve_terminal_secret_prompt: the slot must be empty; if another prompt
\* waits, the answer is that it has to be completed first.
Reserve(n) ==
  /\ slot = None
  /\ Len(nameOf) < MaxPrompts
  /\ nameOf' = Append(nameOf, n)
  /\ slot' = Len(nameOf')
  /\ open' = open \cup {slot'}

\* secrets::get gives nothing: there is no key, or the stores do not answer.
Ask(c, n) ==
  /\ at[c] = "idle"
  /\ Reserve(n)
  /\ prompt' = [prompt EXCEPT ![c] = slot']
  /\ at' = [at EXCEPT ![c] = "notice"]
  /\ UNCHANGED <<storeVars, lines, termVars, cutShort, late, typed>>

NoticeSent(c) ==
  /\ at[c] = "notice"
  /\ at' = [at EXCEPT ![c] = "wait"]
  /\ UNCHANGED <<storeVars, slot, nameOf, lines, open, prompt, termVars, cutShort, late,
                 typed>>

\* Mutant: no guard; the receiver goes alone.
NoGuard(c) == slot

\* The guard clears the slot, then the receiver goes with what is left in it.
SlotAfterDrop(c) == Cleared(nameOf[prompt[c]])

DropPrompt(c) ==
  /\ slot' = SlotAfterDrop(c)
  /\ open' = open \ {prompt[c]}
  /\ lines' = [lines EXCEPT ![prompt[c]] = <<>>]
  /\ prompt' = [prompt EXCEPT ![c] = None]
  /\ at' = [at EXCEPT ![c] = "idle"]
  /\ UNCHANGED nameOf

\* The notice cannot be sent, the prompt expires, or the task is aborted.
GiveUp(c) ==
  /\ at[c] \in {"notice", "wait"}
  /\ DropPrompt(c)
  /\ UNCHANGED <<storeVars, termVars, cutShort, late, typed>>

\* recv gives None: nobody holds a sender of this channel.
Closed(c) ==
  /\ at[c] = "wait" /\ lines[prompt[c]] = <<>>
  /\ prompt[c] \notin {slot, hand.prompt}
  /\ DropPrompt(c)
  /\ cutShort' = IF stdin THEN cutShort \cup {nameOf[prompt[c]]} ELSE cutShort
  /\ UNCHANGED <<storeVars, termVars, late, typed>>

\* store_prompted_secret refuses the names of terminal commands.
IsKey(line) == line \in Values

TakeLine(c) ==
  LET p == prompt[c] IN
  /\ at[c] = "wait" /\ lines[p] # <<>>
  /\ \/ /\ Head(lines[p]) = Empty            \* skipped
        /\ DropPrompt(c)
        /\ UNCHANGED <<write, begun>>
     \/ /\ Head(lines[p]) = Word             \* refused; asks again
        /\ lines' = [lines EXCEPT ![p] = Tail(@)]
        /\ UNCHANGED <<slot, nameOf, open, prompt, at, write, begun>>
     \/ /\ IsKey(Head(lines[p]))             \* set_nonempty
        /\ write = NoWrite
        /\ BeginWrite(nameOf[p], Head(lines[p]))
        /\ lines' = [lines EXCEPT ![p] = Tail(@)]
        /\ at' = [at EXCEPT ![c] = "store"]
        /\ UNCHANGED <<slot, nameOf, open, prompt>>
  /\ UNCHANGED <<stored, entered, gone, read, termVars, cutShort, late, typed>>

StoreReturns(c) ==
  /\ at[c] = "store" /\ write = NoWrite
  /\ DropPrompt(c)
  /\ UNCHANGED <<storeVars, termVars, cutShort, late, typed>>

-----------------------------------------------------------------------------
(* The terminal thread.                                                    *)

ReadLine ==
  /\ stdin /\ hand = NoHand
  /\ typed < MaxLines
  /\ typed' = typed + 1
  /\ \/ /\ slot # None /\ NextValue \in Values
        /\ Enter(nameOf[slot])
        /\ hand' = [line |-> NextValue, prompt |-> slot]
     \/ /\ slot # None
        /\ \E line \in {Empty, Word} : hand' = [line |-> line, prompt |-> slot]
        /\ UNCHANGED entered
     \/ /\ slot = None                       \* a command of the terminal
        /\ UNCHANGED <<entered, hand>>
  /\ UNCHANGED <<stored, write, begun, gone, read, promptVars, stdin, cutShort, late>>

\* Mutant: the thread looks at the slot again when it sends.
SlotNow == IF slot = None THEN hand.prompt ELSE slot

\* The prompt copied out when the line was read.
Addressee == hand.prompt

Deliver ==
  /\ hand # NoHand
  /\ hand' = NoHand
  /\ IF Addressee \in open
     THEN /\ lines' = [lines EXCEPT ![Addressee] = Append(@, hand.line)]
          /\ UNCHANGED <<slot, late>>
     ELSE /\ slot' = Cleared(nameOf[Addressee])
          /\ late' = late \cup {nameOf[Addressee]}
          /\ UNCHANGED lines
  /\ UNCHANGED <<storeVars, nameOf, open, prompt, at, stdin, cutShort, typed>>

EndOfInput ==
  /\ stdin /\ hand = NoHand
  /\ stdin' = FALSE
  /\ slot' = None
  /\ UNCHANGED <<storeVars, nameOf, lines, open, prompt, at, hand, cutShort,
                 late, typed>>

-----------------------------------------------------------------------------
PromptStep(c) == NoticeSent(c) \/ GiveUp(c) \/ Closed(c) \/ TakeLine(c) \/ StoreReturns(c)
StoreStep == SetStep /\ UNCHANGED <<promptVars, termVars, cutShort, late, typed>>
LookStep(r) == ReadStep(r) /\ UNCHANGED <<promptVars, termVars, cutShort, late, typed>>

Next ==
  \/ \E c \in Chats : (\E n \in Names : Ask(c, n)) \/ PromptStep(c)
  \/ StoreStep
  \/ \E r \in Readers : LookStep(r)
  \/ ReadLine \/ Deliver \/ EndOfInput

Spec == Init /\ [][Next]_vars

\* Tasks and threads run, and a prompt's timer fires; nobody has to type.
FairSpec ==
  /\ Spec
  /\ \A c \in Chats : WF_vars(PromptStep(c))
  /\ WF_vars(StoreStep) /\ WF_vars(Deliver)

-----------------------------------------------------------------------------
TypeOK ==
  /\ StoreTypeOK
  /\ slot \in Prompts \cup {None}
  /\ nameOf \in Seq(Names) /\ Len(nameOf) <= MaxPrompts
  /\ lines \in [Prompts -> Seq(Lines)]
  /\ open \subseteq Prompts
  /\ prompt \in [Chats -> Prompts \cup {None}]
  /\ at \in [Chats -> {"idle", "notice", "wait", "store"}]
  /\ hand \in [line : Lines, prompt : Prompts \cup {None}]
  /\ stdin \in BOOLEAN
  /\ cutShort \subseteq Names /\ late \subseteq Names
  /\ typed \in 0 .. MaxLines
  /\ \A c, d \in Chats : prompt[c] = prompt[d] => c = d \/ prompt[c] = None

\* A key is only ever stored under the name that the terminal was asking for
\* when the thread took up the line, however late it sends the line on and
\* whatever prompt has taken the slot since.
KeyGoesWhereItWasAskedFor ==
  \A n \in Names : \A v \in {keychain[n], file[n]} :
    v \in DOMAIN entered => entered[v] = n

\* A prompt is told that the terminal is closed only when it is, or when a line
\* meant for an earlier prompt of the same secret came after that had ended.
CutShortOnlyByNamesake == cutShort \subseteq late

\* DESIGN.md: "the prompt expires after five minutes so it cannot block later
\* prompts indefinitely"; also when its task is aborted or the terminal closes.
SlotIsFreed == slot # None ~> slot = None
=============================================================================
