---------------------------- MODULE MCChatTurns ----------------------------
(* Small instances of ChatTurns for TLC. *)
EXTENDS ChatTurns, TLC

CONSTANTS m1, m2, wA, wB, role, a, b, s, d

TwoFormats == (m1 :> wA) @@ (m2 :> wB)
OneFormat == (m1 :> wA) @@ (m2 :> wA)

Pin == [op : {"pin"}, model : {m2}]
Message == [op : {"mode"}, mode : {"message"}]
Deny(targets) == [op : {"deny"}, chat : targets]

ForAll(commands) == [c \in Chats |-> commands]

ResetCommands ==
  ForAll([op : {"new", "unpin"}] \cup [op : {"mode"}, mode : Modes]
    \cup [op : {"model"}, model : {m2}] \cup [op : {"role"}, role : Roles] \cup Pin)
LockCommands == ForAll([op : {"new"}] \cup Message \cup Pin \cup Deny({a, b}))
RecreateCommands == ForAll([op : {"allow", "deny"}, chat : {b}])

\* a pins, unpins and may deny itself; b allows and denies a; s occupies the room
\* transactions.
AccessCommands ==
  (a :> Pin \cup [op : {"unpin"}] \cup Deny({a}))
    @@ (b :> [op : {"allow", "deny"}, chat : {a}]) @@ (s :> Message)

\* a pins, b denies a, s occupies the room transactions, d denies b and, in the last,
\* allows a again.
PinAndDeny == (a :> Pin \cup [op : {"unpin"}]) @@ (b :> Deny({a})) @@ (s :> Message)
DenyChain == (a :> {}) @@ (b :> Deny({a})) @@ (s :> Message) @@ (d :> Deny({b}))
DenyAllow ==
  (a :> Pin) @@ (b :> Deny({a})) @@ (s :> Message)
    @@ (d :> Deny({b}) \cup [op : {"allow"}, chat : {a}])

\* b and s allow a, d denies it.
LateSetup == (a :> {}) @@ (b :> [op : {"allow"}, chat : {a}])
               @@ (s :> [op : {"allow"}, chat : {a}]) @@ (d :> Deny({a}))
=============================================================================
