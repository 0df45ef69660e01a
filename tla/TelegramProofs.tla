---------------------------- MODULE TelegramProofs ----------------------------
(***************************************************************************)
(* Proofs about the two modules that talk to Telegram.  The first part is      *)
(* about Restart, for every set of chats, models and messages and every bound: *)
(* where updates go between Telegram and the workers, which configs reach the   *)
(* disk, and who may change them.  The second is about Delivery, for every       *)
(* message, answer, size of a piece and limit: what the provider is asked        *)
(* about, and what the user is shown.                                          *)
(***************************************************************************)
EXTENDS Restart, Delivery, SequenceTheorems, WellFoundedInduction, TLAPS

-----------------------------------------------------------------------------
(* The inductive invariant.                                                 *)

\* Updates up to this one have been handed to a process.
Passed == Max({seen, confirmed})

\* The batch is the updates that follow, in their order.
BatchFollows ==
  /\ Passed + Len(batch) <= Len(sent)
  /\ \A i \in DOMAIN batch : batch[i] = Passed + i

\* What was handed over is somewhere.
Accounted == \A id \in 1 .. Passed : id \in InHand \cup executed \cup dropped \cup lost

\* The process looks at updates in their order.
GivenInOrder ==
  /\ \A i \in DOMAIN given : given[i] <= seen
  /\ \A i, j \in DOMAIN given : i < j => given[i] < given[j]

\* A key without an entry lists no chat.
PinsOfModels(cfg) == \A k \in Keys \ cfg.models, c \in Chats : cfg.pins[k][c] = 0

\* Every config that is used, written or taken back to is valid.
ConfigsAreValid ==
  /\ Valid(config) /\ PinsOfModels(config)
  /\ Valid(cfgFile) /\ PinsOfModels(cfgFile)
  /\ work # NoWork => Valid(work.config) /\ PinsOfModels(work.config)

\* The change that a process makes has all its fields, and makes nobody less than an owner.
WorkIsWhole ==
  work # NoWork =>
    /\ up
    /\ work = [id |-> work.id, todo |-> work.todo, action |-> work.action, config |-> work.config,
               rooms |-> work.rooms]
    /\ work.config.owners \subseteq config.owners

\* The actions of owners, and of the poll loop.
Privileged == {"pin", "unpin", "add", "allow", "deny", "unload", "shutdown", "join", "paired"}

\* A worker that is to carry out such an action has taken it from an owner while it was
\* fresh; and what it is to carry out can be done with the config that is used, and with the
\* one that a refused save brings back.
HandsFollow ==
  \A c \in Chats : hand[c] # NoHand =>
    /\ up
    /\ hand[c].access = "allowed" => FromFreshOwner(hand[c])
    /\ hand[c].action.op \in Privileged => hand[c].access = "allowed"
    /\ work # NoWork => ActionOK(hand[c].action, work.config.models)

IInv ==
  /\ TypeOK
  /\ WorkIsWhole
  /\ HandsFollow
  /\ BatchFollows
  /\ Accounted
  /\ GivenInOrder
  /\ ConfigsAreValid

-----------------------------------------------------------------------------
(* Operators.                                                               *)

LEMMA MaxIs ==
  ASSUME NEW a \in Nat, NEW b \in Nat
  PROVE  /\ Max({a, b}) \in Nat /\ Max({a, b}) \in {a, b}
         /\ Max({a, b}) >= a /\ Max({a, b}) >= b
<1> DEFINE m == IF a >= b THEN a ELSE b
<1>1. m \in {a, b} /\ \A y \in {a, b} : m >= y
  OBVIOUS
<1>2. Max({a, b}) \in {a, b} /\ \A y \in {a, b} : Max({a, b}) >= y
  BY <1>1 DEF Max
<1> QED
  BY <1>2

LEMMA RangeOfTail ==
  ASSUME NEW S, NEW s \in Seq(S), s # <<>>
  PROVE  /\ Range(s) = {Head(s)} \cup Range(Tail(s)) /\ Head(s) \in S
         /\ Tail(s) \in Seq(S) /\ Len(Tail(s)) = Len(s) - 1 /\ 1 \in DOMAIN s /\ Head(s) = s[1]
         /\ \A i \in DOMAIN Tail(s) : Tail(s)[i] = s[i + 1] /\ i + 1 \in DOMAIN s
<1>1. /\ Head(s) \in S /\ Tail(s) \in Seq(S) /\ Len(Tail(s)) = Len(s) - 1
      /\ \A i \in 1 .. Len(Tail(s)) : Tail(s)[i] = s[i + 1]
  BY HeadTailProperties
<1>2. Len(s) \in Nat /\ Len(s) # 0 /\ DOMAIN s = 1 .. Len(s)
  BY LenProperties, EmptySeq
<1>3. DOMAIN Tail(s) = 1 .. Len(Tail(s)) /\ Head(s) = s[1]
  BY <1>1, LenProperties
<1>4. 1 \in DOMAIN s /\ \A i \in DOMAIN Tail(s) : Tail(s)[i] = s[i + 1] /\ i + 1 \in DOMAIN s
  BY <1>1, <1>2, <1>3
<1>5. ASSUME NEW x \in Range(s)
      PROVE  x \in {Head(s)} \cup Range(Tail(s))
  <2>1. PICK i \in DOMAIN s : x = s[i]
    BY DEF Range
  <2>2. CASE i = 1
    BY <1>3, <2>1, <2>2
  <2>3. CASE i # 1
    <3>1. i - 1 \in DOMAIN Tail(s) /\ i - 1 + 1 = i
      BY <1>1, <1>2, <1>3, <2>1, <2>3
    <3>2. Tail(s)[i - 1] = x
      BY <1>4, <2>1, <3>1
    <3> QED
      BY <3>1, <3>2 DEF Range
  <2> QED
    BY <2>2, <2>3
<1>6. {Head(s)} \cup Range(Tail(s)) \subseteq Range(s)
  BY <1>3, <1>4 DEF Range
<1> QED
  BY <1>1, <1>3, <1>4, <1>5, <1>6

LEMMA RangeOfAppend ==
  ASSUME NEW S, NEW s \in Seq(S), NEW x \in S
  PROVE  Range(Append(s, x)) = Range(s) \cup {x}
<1>1. /\ Append(s, x) \in Seq(S) /\ Len(Append(s, x)) = Len(s) + 1
      /\ \A i \in 1 .. Len(s) : Append(s, x)[i] = s[i]
      /\ Append(s, x)[Len(s) + 1] = x
  BY AppendProperties
<1>2. Len(s) \in Nat /\ DOMAIN s = 1 .. Len(s) /\ DOMAIN Append(s, x) = 1 .. Len(s) + 1
  BY <1>1, LenProperties
<1> QED
  BY <1>1, <1>2 DEF Range

LEMMA TailOfLong ==
  ASSUME NEW S, NEW s \in Seq(S), Len(s) > 1
  PROVE  Tail(s) \in Seq(S) /\ Tail(s) # <<>>
<1>1. Len(s) \in Nat /\ s # <<>>
  BY LenProperties, EmptySeq
<1>2. Tail(s) \in Seq(S) /\ Len(Tail(s)) = Len(s) - 1
  BY <1>1, HeadTailProperties
<1>3. Len(Tail(s)) # 0
  BY <1>1, <1>2
<1> QED
  BY <1>2, <1>3, EmptySeq

LEMMA RangeIn ==
  ASSUME NEW S, NEW s \in Seq(S)
  PROVE  Range(s) \subseteq S /\ Range(<<>>) = {}
BY ElementOfSeq, LenProperties, EmptySeq DEF Range

-----------------------------------------------------------------------------
(* What a command does to the config.                                       *)

LEMMA UnpinnedIs ==
  ASSUME NEW cfg \in Configs, NEW c
  PROVE  /\ Unpinned(cfg, c) \in Configs
         /\ Unpinned(cfg, c).models = cfg.models /\ Unpinned(cfg, c).allowed = cfg.allowed
         /\ Unpinned(cfg, c).owners = cfg.owners
         /\ \A k \in Keys, d \in Chats :
              Unpinned(cfg, c).pins[k][d] = IF d = c THEN 0 ELSE cfg.pins[k][d]
<1>1. /\ cfg.pins \in [Keys -> [Chats -> Nat]] /\ cfg.models \subseteq Keys /\ cfg.allowed \subseteq Chats
      /\ cfg.owners \in SUBSET STRING
      /\ cfg = [models |-> cfg.models, pins |-> cfg.pins, allowed |-> cfg.allowed,
                owners |-> cfg.owners]
  BY DEF Configs
<1> DEFINE pins == [k \in Keys |-> [cfg.pins[k] EXCEPT ![c] = 0]]
<1>2. Unpinned(cfg, c) = [models |-> cfg.models, pins |-> pins, allowed |-> cfg.allowed,
                          owners |-> cfg.owners]
  BY <1>1, SMTT(30) DEF Unpinned
<1>3. /\ pins \in [Keys -> [Chats -> Nat]]
      /\ \A k \in Keys, d \in Chats : pins[k][d] = IF d = c THEN 0 ELSE cfg.pins[k][d]
  BY <1>1
<1> HIDE DEF pins
<1> QED
  BY <1>1, <1>2, <1>3 DEF Configs

LEMMA PinMovedIs ==
  ASSUME NEW cfg \in Configs, NEW c \in Chats, NEW key \in Keys
  PROVE  /\ PinMoved(cfg, c, key) \in Configs
         /\ PinMoved(cfg, c, key).models = cfg.models
         /\ PinMoved(cfg, c, key).allowed = cfg.allowed
         /\ PinMoved(cfg, c, key).owners = cfg.owners
         /\ \A k \in Keys, d \in Chats :
              PinMoved(cfg, c, key).pins[k][d] =
                IF d = c THEN (IF k = key THEN 1 ELSE 0) ELSE cfg.pins[k][d]
<1> DEFINE u == Unpinned(cfg, c)
           pins == [u.pins EXCEPT ![key] = [u.pins[key] EXCEPT ![c] = u.pins[key][c] + 1]]
<1>1. /\ u \in Configs /\ u.models = cfg.models /\ u.allowed = cfg.allowed /\ u.owners = cfg.owners
      /\ \A k \in Keys, d \in Chats : u.pins[k][d] = IF d = c THEN 0 ELSE cfg.pins[k][d]
  BY UnpinnedIs
<1> HIDE DEF u
<1>2. /\ u.pins \in [Keys -> [Chats -> Nat]] /\ u.models \subseteq Keys /\ u.allowed \subseteq Chats
      /\ u.owners \in SUBSET STRING
      /\ u = [models |-> u.models, pins |-> u.pins, allowed |-> u.allowed, owners |-> u.owners]
  BY <1>1 DEF Configs
<1>3. PinMoved(cfg, c, key) = [models |-> u.models, pins |-> pins, allowed |-> u.allowed,
                               owners |-> u.owners]
  <2>1. PinMoved(cfg, c, key) = [u EXCEPT !.pins[key][c] = @ + 1]
    BY DEF PinMoved, u
  <2>2. [u EXCEPT !.pins[key][c] = @ + 1] = [u EXCEPT !.pins = pins]
    BY <1>2
  <2> QED
    BY <1>2, <2>1, <2>2
<1>4. pins \in [Keys -> [Chats -> Nat]]
  BY <1>2
<1>5. ASSUME NEW k \in Keys, NEW d \in Chats
      PROVE  pins[k][d] = IF d = c THEN (IF k = key THEN 1 ELSE 0) ELSE cfg.pins[k][d]
  BY <1>1, <1>2
<1> HIDE DEF pins
<1> QED
  BY <1>1, <1>2, <1>3, <1>4, <1>5 DEF Configs

-----------------------------------------------------------------------------
(* What a text asks for.                                                    *)

Verdicts == {"allowed", "notOwner", "stale"}

\* An action is well formed, and an owner's only if its sender passed the gate.
ActionIs(a, context) ==
  /\ ActionOK(a, context.keys)
  /\ a.op \in Privileged => context.access = "allowed"

LEMMA PlainIs ==
  ASSUME NEW context
  PROVE  /\ ActionIs(Show, context)
         /\ \A why : ActionIs(Reject(why), context)
         /\ ActionIs([op |-> "reset"], context)
         /\ \A code : ActionIs([op |-> "pair", code |-> code], context)
         /\ ActionIs([op |-> "turn"], context)
BY DEF ActionIs, ActionOK, Show, Reject, Privileged

LEMMA GatedIs ==
  ASSUME NEW context, context.access \in Verdicts, NEW action, ActionOK(action, context.keys)
  PROVE  ActionIs(Gated(context, action), context)
<1>1. CASE context.access = "allowed"
  BY <1>1 DEF Gated, ActionIs
<1>2. CASE context.access = "notOwner"
  <2>1. Gated(context, action) = Reject("OwnerNotAllowed")
    BY <1>2 DEF Gated
  <2> QED
    BY <2>1, PlainIs
<1>3. CASE context.access = "stale"
  <2>1. Gated(context, action) = Reject("OwnerStale")
    BY <1>3 DEF Gated
  <2> QED
    BY <2>1, PlainIs
<1> QED
  BY <1>1, <1>2, <1>3 DEF Verdicts

LEMMA GateIs ==
  ASSUME NEW feature \in Features, NEW enabled \in BOOLEAN, NEW context
  PROVE  ActionIs(Gate(feature, enabled, context), context)
<1>1. CASE enabled /\ feature \notin context.can
  BY <1>1, PlainIs DEF Gate
<1>2. CASE ~(enabled /\ feature \notin context.can)
  <2>1. Gate(feature, enabled, context) = [op |-> "setFeature", feature |-> feature, enabled |-> enabled]
    BY <1>2 DEF Gate
  <2> QED
    BY <2>1 DEF ActionIs, ActionOK, Privileged
<1> QED
  BY <1>1, <1>2

LEMMA RouteFeatureIs ==
  ASSUME NEW feature \in Features, NEW args, NEW context
  PROVE  ActionIs(RouteFeature(feature, args, context), context)
<1>1. (feature \notin context.settings.features) \in BOOLEAN /\ (Head(args) \in On) \in BOOLEAN
  OBVIOUS
<1> QED
  BY <1>1, GateIs, PlainIs DEF RouteFeature

LEMMA RouteModelIs ==
  ASSUME NEW args, NEW context, context.access \in Verdicts
  PROVE  ActionIs(RouteModel(args, context), context)
<1>1. ActionIs(RoutePin(args, context), context)
  <2> DEFINE key == IF Len(args) > 1 THEN args[2] ELSE Effective(context)
  <2>1. CASE key \in context.keys
    <3>1. RoutePin(args, context) = Gated(context, [op |-> "pin", key |-> key])
      BY <2>1 DEF RoutePin
    <3>2. ActionOK([op |-> "pin", key |-> key], context.keys)
      BY <2>1 DEF ActionOK
    <3> QED
      BY <3>1, <3>2, GatedIs
  <2>2. CASE key \notin context.keys
    <3>1. RoutePin(args, context) = Gated(context, Reject("UnknownModel"))
      BY <2>2 DEF RoutePin
    <3>2. ActionOK(Reject("UnknownModel"), context.keys)
      BY PlainIs DEF ActionIs
    <3> QED
      BY <3>1, <3>2, GatedIs
  <2> QED
    BY <2>1, <2>2
<1>2. ActionIs(Gated(context, [op |-> "unpin"]), context)
  <2>1. ActionOK([op |-> "unpin"], context.keys)
    BY DEF ActionOK
  <2> QED
    BY <2>1, GatedIs
<1>3. ActionIs(RouteAdd(args, context), context)
  <2>1. ActionOK([op |-> "add", key |-> args[2]], context.keys)
    BY DEF ActionOK
  <2>2. ActionOK(Show, context.keys)
    BY PlainIs DEF ActionIs
  <2>3. CASE Len(args) > 1
    BY <2>1, <2>3, GatedIs DEF RouteAdd
  <2>4. CASE ~(Len(args) > 1)
    BY <2>2, <2>4, GatedIs DEF RouteAdd
  <2> QED
    BY <2>3, <2>4
<1>4. ActionIs(RouteSelect(Head(args), context), context)
  <2>1. CASE context.pinned = NoName /\ Head(args) \in context.keys
    <3>1. RouteSelect(Head(args), context) = [op |-> "setModel", key |-> Head(args)]
      BY <2>1 DEF RouteSelect
    <3> QED
      BY <2>1, <3>1 DEF ActionIs, ActionOK, Privileged
  <2>2. CASE context.pinned # NoName
    BY <2>2, PlainIs DEF RouteSelect
  <2>3. CASE context.pinned = NoName /\ Head(args) \notin context.keys
    BY <2>3, PlainIs DEF RouteSelect
  <2> QED
    BY <2>1, <2>2, <2>3
<1> QED
  BY <1>1, <1>2, <1>3, <1>4, PlainIs DEF RouteModel

LEMMA SettingsAre ==
  ASSUME NEW args \in Seq(STRING), NEW context
  PROVE  /\ ActionIs(RouteMode(args), context)
         /\ ActionIs(RouteRole(args), context)
         /\ ActionIs(RouteReasoning(args), context)
<1>1. ActionIs(RouteMode(args), context)
  <2>1. Head(args) \in Modes => ActionIs([op |-> "setMode", mode |-> Head(args)], context)
    BY DEF ActionIs, ActionOK, Privileged
  <2> QED
    BY <2>1, PlainIs DEF RouteMode
<1>2. ActionIs(RouteRole(args), context)
  <2>1. \A role \in Seq(STRING) : ActionIs([op |-> "setRole", role |-> role], context)
    BY DEF ActionIs, ActionOK, Privileged
  <2>2. NoRole \in Seq(STRING)
    BY EmptySeq DEF NoRole
  <2> QED
    BY <2>1, <2>2, PlainIs DEF RouteRole
<1>3. ActionIs(RouteReasoning(args), context)
  <2>1. \A level \in Levels \cup {NoName} : ActionIs([op |-> "setThinking", level |-> level], context)
    BY DEF ActionIs, ActionOK, Privileged
  <2> QED
    BY <2>1, PlainIs DEF RouteReasoning
<1> QED
  BY <1>1, <1>2, <1>3

LEMMA OwnersAre ==
  ASSUME NEW args, NEW context, context.access \in Verdicts
  PROVE  /\ \A command \in {"allow", "deny"} : ActionIs(RouteApproval(command, args, context), context)
         /\ ActionIs(RouteOllama(args, context), context)
         /\ ActionIs(Gated(context, [op |-> "shutdown"]), context)
<1>1. ASSUME NEW command \in {"allow", "deny"}
      PROVE  ActionIs(RouteApproval(command, args, context), context)
  <2>1. \A why : ActionOK(Reject(why), context.keys)
    BY PlainIs DEF ActionIs
  <2>2. CASE args # <<>> /\ Head(args) \in Chats
    <3>1. RouteApproval(command, args, context) = Gated(context, [op |-> command, chat |-> Head(args)])
      BY <2>2 DEF RouteApproval
    <3>2. ActionOK([op |-> command, chat |-> Head(args)], context.keys)
      BY <2>2 DEF ActionOK
    <3> QED
      BY <3>1, <3>2, GatedIs
  <2>3. CASE args = <<>>
    <3>1. RouteApproval(command, args, context) = Gated(context, Reject("MissingChatId"))
      BY <2>3 DEF RouteApproval
    <3> QED
      BY <2>1, <3>1, GatedIs
  <2>4. CASE args # <<>> /\ Head(args) \notin Chats
    <3>1. RouteApproval(command, args, context) = Gated(context, Reject("InvalidChatId"))
      BY <2>4 DEF RouteApproval
    <3> QED
      BY <2>1, <3>1, GatedIs
  <2> QED
    BY <2>2, <2>3, <2>4
<1>2. ActionIs(RouteOllama(args, context), context)
  <2>1. ActionOK([op |-> "unload"], context.keys) /\ ActionOK(Reject("UnknownOllamaAction"), context.keys)
    BY PlainIs DEF ActionIs, ActionOK
  <2> QED
    BY <2>1, GatedIs DEF RouteOllama
<1>3. ActionIs(Gated(context, [op |-> "shutdown"]), context)
  <2>1. ActionOK([op |-> "shutdown"], context.keys)
    BY DEF ActionOK
  <2> QED
    BY <2>1, GatedIs
<1> QED
  BY <1>1, <1>2, <1>3

LEMMA ResolveIs ==
  ASSUME NEW command \in KnownCommands, NEW args \in Seq(STRING),
         NEW context, context.access \in Verdicts
  PROVE  ActionIs(Resolve(command, args, context), context)
<1>1. "web" \in Features /\ "images" \in Features
  BY DEF Features
<1>2. ActionIs(RoutePair(args), context)
  BY PlainIs DEF RoutePair
<1> HIDE DEF ActionIs
<1>3. /\ ActionIs([op |-> "reset"], context) /\ ActionIs(Show, context)
      /\ ActionIs(RouteMode(args), context) /\ ActionIs(RouteModel(args, context), context)
      /\ ActionIs(RouteRole(args), context) /\ ActionIs(RouteReasoning(args), context)
      /\ ActionIs(RouteFeature("web", args, context), context)
      /\ ActionIs(RouteFeature("images", args, context), context)
      /\ ActionIs(RouteApproval("allow", args, context), context)
      /\ ActionIs(RouteApproval("deny", args, context), context)
      /\ ActionIs(RouteOllama(args, context), context)
      /\ ActionIs(Gated(context, [op |-> "shutdown"]), context)
  BY <1>1, PlainIs, RouteModelIs, SettingsAre, RouteFeatureIs, OwnersAre
<1> QED
  BY <1>2, <1>3 DEF Resolve, KnownCommands

LEMMA ActionOfIs ==
  ASSUME NEW u, u.text \in Texts, NEW access \in Verdicts, NEW cfg, NEW rs
  PROVE  /\ ActionOK(ActionOf(u, access, cfg, rs), cfg.models)
         /\ ActionOf(u, access, cfg, rs).op \in Privileged => access = "allowed"
<1> DEFINE context == Context(u.chat, access, cfg, rs[u.chat])
<1>1. context.keys = cfg.models /\ context.access = access
  BY DEF Context
<1> HIDE DEF context
<1>2. CASE IsCommand(u.text)
  <2>1. ActionOf(u, access, cfg, rs) = Resolve(u.text.name, u.text.args, context)
    BY <1>2 DEF ActionOf, context
  <2>2. u.text.name \in KnownCommands /\ u.text.args \in Seq(STRING)
    BY <1>2 DEF IsCommand, Texts
  <2>3. ActionIs(Resolve(u.text.name, u.text.args, context), context)
    BY <1>1, <2>2, ResolveIs
  <2> QED
    BY <1>1, <2>1, <2>3 DEF ActionIs
<1>3. CASE ~IsCommand(u.text)
  <2>1. ActionOf(u, access, cfg, rs) = [op |-> "turn"]
    BY <1>3 DEF ActionOf
  <2> QED
    BY <1>1, <2>1, PlainIs DEF ActionIs
<1> QED
  BY <1>2, <1>3

LEMMA VerdictIs ==
  ASSUME NEW sender, NEW date
  PROVE  /\ CheckPrivileged(sender, date) \in Verdicts
         /\ CheckPrivileged(sender, date) = "allowed" => sender \in Owners /\ ~(clock > date + StaleAfter)
BY DEF CheckPrivileged, Verdicts

-----------------------------------------------------------------------------
(* Commands keep configs valid.                                             *)

ConfigOK(cfg) == cfg \in Configs /\ Valid(cfg) /\ PinsOfModels(cfg)

LEMMA UnpinKeeps ==
  ASSUME NEW cfg, ConfigOK(cfg), NEW c, NEW chats \in SUBSET Chats
  PROVE  ConfigOK([Unpinned(cfg, c) EXCEPT !.allowed = chats])
<1> DEFINE new == [Unpinned(cfg, c) EXCEPT !.allowed = chats]
<1>1. /\ Unpinned(cfg, c) \in Configs /\ Unpinned(cfg, c).models = cfg.models
      /\ \A k \in Keys, d \in Chats :
           Unpinned(cfg, c).pins[k][d] = IF d = c THEN 0 ELSE cfg.pins[k][d]
  BY UnpinnedIs DEF ConfigOK
<1>2. new \in Configs /\ new.models = cfg.models /\ new.pins = Unpinned(cfg, c).pins
  BY <1>1 DEF Configs
<1> HIDE DEF new
<1>3. \A k \in Keys, d \in Chats : new.pins[k][d] = 0 \/ new.pins[k][d] = cfg.pins[k][d]
  BY <1>1, <1>2
<1>4. cfg.models \subseteq Keys
  BY DEF ConfigOK, Configs
<1>5. Valid(new)
  <2>1. \A d \in Chats : PinnedTo(new, d) \subseteq PinnedTo(cfg, d)
    BY <1>2, <1>3, <1>4 DEF PinnedTo
  <2>2. \A k \in cfg.models, d \in Chats : new.pins[k][d] <= 1
    BY <1>3, <1>4 DEF ConfigOK, Valid
  <2> QED
    BY <1>2, <2>1, <2>2 DEF ConfigOK, Valid
<1>6. PinsOfModels(new)
  BY <1>2, <1>3 DEF ConfigOK, PinsOfModels
<1> QED
  BY <1>2, <1>5, <1>6 DEF ConfigOK, new

LEMMA PinKeeps ==
  ASSUME NEW cfg, ConfigOK(cfg), NEW c \in Chats, NEW key \in cfg.models
  PROVE  ConfigOK(PinMoved(cfg, c, key))
<1> DEFINE new == PinMoved(cfg, c, key)
<1>1. key \in Keys /\ cfg.models \subseteq Keys
  BY DEF ConfigOK, Configs
<1>2. /\ new \in Configs /\ new.models = cfg.models
      /\ \A k \in Keys, d \in Chats :
           new.pins[k][d] = IF d = c THEN (IF k = key THEN 1 ELSE 0) ELSE cfg.pins[k][d]
  BY <1>1, PinMovedIs DEF ConfigOK
<1> HIDE DEF new
<1>3. \A d \in Chats : \A k, l \in PinnedTo(new, d) : k = l
  <2>1. ASSUME NEW d \in Chats, NEW k \in PinnedTo(new, d), NEW l \in PinnedTo(new, d)
        PROVE  k = l
    <3>1. CASE d = c
      BY <1>1, <1>2, <2>1, <3>1 DEF PinnedTo
    <3>2. CASE d # c
      <4>1. k \in PinnedTo(cfg, d) /\ l \in PinnedTo(cfg, d)
        BY <1>1, <1>2, <2>1, <3>2 DEF PinnedTo
      <4> QED
        BY <4>1 DEF ConfigOK, Valid
    <3> QED
      BY <3>1, <3>2
  <2> QED
    BY <2>1
<1>4. \A k \in cfg.models, d \in Chats : new.pins[k][d] <= 1
  BY <1>1, <1>2 DEF ConfigOK, Valid
<1>5. Valid(new)
  BY <1>2, <1>3, <1>4 DEF ConfigOK, Valid
<1>6. PinsOfModels(new)
  BY <1>2 DEF ConfigOK, PinsOfModels
<1> QED
  BY <1>2, <1>5, <1>6 DEF ConfigOK, new

LEMMA AddKeeps ==
  ASSUME NEW cfg, ConfigOK(cfg), NEW key \in Presets
  PROVE  ConfigOK([cfg EXCEPT !.models = @ \cup {key}])
<1> DEFINE new == [cfg EXCEPT !.models = @ \cup {key}]
<1>1. key \in Keys /\ EntryValid(Entry[key])
  BY RestartConstants
<1>2. /\ new \in Configs /\ new.models = cfg.models \cup {key} /\ new.pins = cfg.pins
      /\ cfg.models \subseteq Keys /\ cfg.pins \in [Keys -> [Chats -> Nat]]
  BY <1>1 DEF ConfigOK, Configs
<1> HIDE DEF new
<1>3. \A k \in Keys \ cfg.models, d \in Chats : cfg.pins[k][d] = 0
  BY DEF ConfigOK, PinsOfModels
<1>4. \A d \in Chats : PinnedTo(new, d) \subseteq PinnedTo(cfg, d)
  BY <1>1, <1>2, <1>3 DEF PinnedTo
<1>5. \A k \in new.models, d \in Chats : new.pins[k][d] <= 1
  BY <1>1, <1>2, <1>3 DEF ConfigOK, Valid
<1>6. Valid(new)
  BY <1>1, <1>2, <1>4, <1>5 DEF ConfigOK, Valid
<1>7. PinsOfModels(new)
  BY <1>2, <1>3 DEF PinsOfModels
<1> QED
  BY <1>2, <1>6, <1>7 DEF ConfigOK, new

LEMMA AllowKeeps ==
  ASSUME NEW cfg, ConfigOK(cfg), NEW chats \in SUBSET Chats
  PROVE  ConfigOK([cfg EXCEPT !.allowed = chats])
<1> DEFINE new == [cfg EXCEPT !.allowed = chats]
<1>1. new \in Configs /\ new.models = cfg.models /\ new.pins = cfg.pins
  BY DEF ConfigOK, Configs
<1> HIDE DEF new
<1>2. Valid(new) /\ PinsOfModels(new)
  BY <1>1 DEF ConfigOK, Valid, PinsOfModels, PinnedTo
<1> QED
  BY <1>1, <1>2 DEF ConfigOK, new

LEMMA PairKeeps ==
  ASSUME NEW cfg, ConfigOK(cfg), NEW chats \in SUBSET Chats, NEW users \in SUBSET STRING
  PROVE  ConfigOK([cfg EXCEPT !.allowed = chats, !.owners = users])
<1> DEFINE new == [cfg EXCEPT !.allowed = chats, !.owners = users]
<1>1. new \in Configs /\ new.models = cfg.models /\ new.pins = cfg.pins
  BY DEF ConfigOK, Configs
<1> HIDE DEF new
<1>2. Valid(new) /\ PinsOfModels(new)
  BY <1>1 DEF ConfigOK, Valid, PinsOfModels, PinnedTo
<1> QED
  BY <1>1, <1>2 DEF ConfigOK, new

LEMMA NewConfigIs ==
  ASSUME NEW cfg, ConfigOK(cfg), NEW c \in Chats, NEW a, ActionOK(a, cfg.models)
  PROVE  /\ ConfigOK(NewConfig(a, c, cfg))
         /\ NewConfig(a, c, cfg) # cfg => a.op \in Privileged
<1>1. cfg.allowed \subseteq Chats /\ Unpinned(cfg, a.chat).allowed = cfg.allowed
      /\ Unpinned(cfg, c).allowed = cfg.allowed
  BY UnpinnedIs DEF ConfigOK, Configs
<1>2. CASE a.op = "pin"
  <2>1. NewConfig(a, c, cfg) = PinMoved(cfg, c, a.key) /\ a.key \in cfg.models
    BY <1>2 DEF NewConfig, ActionOK
  <2> QED
    BY <1>2, <2>1, PinKeeps DEF Privileged
<1>3. CASE a.op = "unpin" /\ PinOf(cfg, c) # NoName
  <2>1. NewConfig(a, c, cfg) = [Unpinned(cfg, c) EXCEPT !.allowed = @ \cup {c}]
    BY <1>3 DEF NewConfig
  <2>2. [Unpinned(cfg, c) EXCEPT !.allowed = @ \cup {c}]
          = [Unpinned(cfg, c) EXCEPT !.allowed = cfg.allowed \cup {c}]
    BY <1>1
  <2>3. cfg.allowed \cup {c} \in SUBSET Chats
    BY <1>1
  <2> QED
    BY <1>3, <2>1, <2>2, <2>3, UnpinKeeps DEF Privileged
<1>4. CASE a.op = "add" /\ a.key \in Presets
  <2>1. NewConfig(a, c, cfg) = [cfg EXCEPT !.models = @ \cup {a.key}]
    BY <1>4 DEF NewConfig
  <2> QED
    BY <1>4, <2>1, AddKeeps DEF Privileged
<1>5. CASE a.op \in {"allow", "join"}
  <2>1. NewConfig(a, c, cfg) = [cfg EXCEPT !.allowed = cfg.allowed \cup {a.chat}]
    BY <1>5 DEF NewConfig
  <2>2. cfg.allowed \cup {a.chat} \in SUBSET Chats
    BY <1>1, <1>5 DEF ActionOK
  <2> QED
    BY <1>5, <2>1, <2>2, AllowKeeps DEF Privileged
<1>8. CASE a.op = "paired"
  <2> DEFINE chats == cfg.allowed \cup {a.chat}
             users == cfg.owners \cup ({a.user} \ {NoName})
  <2>1. NewConfig(a, c, cfg) = [cfg EXCEPT !.allowed = chats, !.owners = users]
    BY <1>8 DEF NewConfig
  <2>2. chats \in SUBSET Chats
    BY <1>1, <1>8 DEF ActionOK
  <2>3. users \in SUBSET STRING
    BY <1>8 DEF ActionOK, ConfigOK, Configs
  <2> HIDE DEF chats, users
  <2> QED
    <3>1. ConfigOK([cfg EXCEPT !.allowed = chats, !.owners = users])
      BY <2>2, <2>3, PairKeeps, Zenon
    <3> QED
      BY <1>8, <2>1, <3>1 DEF Privileged
<1>6. CASE a.op = "deny"
  <2>1. NewConfig(a, c, cfg) = [Unpinned(cfg, a.chat) EXCEPT !.allowed = @ \ {a.chat}]
    BY <1>6 DEF NewConfig
  <2>2. [Unpinned(cfg, a.chat) EXCEPT !.allowed = @ \ {a.chat}]
          = [Unpinned(cfg, a.chat) EXCEPT !.allowed = cfg.allowed \ {a.chat}]
    BY <1>1
  <2>3. cfg.allowed \ {a.chat} \in SUBSET Chats
    BY <1>1
  <2> QED
    BY <1>6, <2>1, <2>2, <2>3, UnpinKeeps DEF Privileged
<1>7. CASE /\ a.op \notin {"pin", "allow", "join", "paired", "deny"}
           /\ ~(a.op = "unpin" /\ PinOf(cfg, c) # NoName)
           /\ ~(a.op = "add" /\ a.key \in Presets)
  <2>1. NewConfig(a, c, cfg) = cfg
    BY <1>7 DEF NewConfig
  <2> QED
    BY <2>1
<1> QED
  BY <1>2, <1>3, <1>4, <1>5, <1>6, <1>7, <1>8

\* No command takes a model or an owner out of the config.
LEMMA ModelsStay ==
  ASSUME NEW cfg \in Configs, NEW c \in Chats, NEW a, ActionOK(a, cfg.models)
  PROVE  /\ cfg.models \subseteq NewConfig(a, c, cfg).models
         /\ cfg.owners \subseteq NewConfig(a, c, cfg).owners
<1>1. /\ Unpinned(cfg, c) \in Configs /\ Unpinned(cfg, c).models = cfg.models
      /\ Unpinned(cfg, a.chat) \in Configs /\ Unpinned(cfg, a.chat).models = cfg.models
      /\ Unpinned(cfg, c).owners = cfg.owners /\ Unpinned(cfg, a.chat).owners = cfg.owners
  BY UnpinnedIs
<1>3. CASE a.op = "pin"
  BY <1>3, PinMovedIs DEF NewConfig, ActionOK, Configs
<1>4. CASE a.op = "unpin" /\ PinOf(cfg, c) # NoName
  BY <1>1, <1>4 DEF NewConfig, Configs
<1>5. CASE a.op = "add" /\ a.key \in Presets
  BY <1>5 DEF NewConfig, Configs
<1>6. CASE a.op \in {"allow", "join", "paired"}
  BY <1>6 DEF NewConfig, Configs
<1>7. CASE a.op = "deny"
  BY <1>1, <1>7 DEF NewConfig, Configs
<1>8. CASE /\ a.op \notin {"pin", "allow", "join", "paired", "deny"}
           /\ ~(a.op = "unpin" /\ PinOf(cfg, c) # NoName)
           /\ ~(a.op = "add" /\ a.key \in Presets)
  BY <1>8 DEF NewConfig
<1> QED
  BY <1>3, <1>4, <1>5, <1>6, <1>7, <1>8

-----------------------------------------------------------------------------
(* Commands keep rooms well formed.                                         *)

\* A room with one setting replaced is a room.
LEMMA RoomChanges ==
  ASSUME NEW room \in RoomSettings, NEW new,
         \/ \E k \in Keys \cup {NoName} : new = [room EXCEPT !.model = k]
         \/ \E mode \in Modes : new = [room EXCEPT !.mode = mode]
         \/ \E role \in Seq(STRING) : new = [room EXCEPT !.role = role]
         \/ \E level \in Levels \cup {NoName} : new = [room EXCEPT !.thinking = level]
         \/ \E on \in SUBSET Features : new = [room EXCEPT !.features = on]
  PROVE  new \in RoomSettings
<1> DEFINE Roles == Seq(STRING)
<1>1. RoomSettings = [model : Keys \cup {NoName}, mode : Modes, role : Roles,
                      thinking : Levels \cup {NoName}, features : SUBSET Features]
  BY DEF RoomSettings
<1> HIDE DEF Roles
<1> QED
  BY <1>1 DEF Roles

LEMMA NewRoomIs ==
  ASSUME NEW room \in RoomSettings, NEW keys \in SUBSET Keys, NEW a, ActionOK(a, keys)
  PROVE  /\ ResetRoomModelContext(room) \in RoomSettings
         /\ a.op \in {"setMode", "setModel"} => ModeOrModelSet(a, room) \in RoomSettings
         /\ a.op \in {"setRole", "setThinking", "setFeature"} => SettingSet(a, room) \in RoomSettings
         /\ DefaultSettings \in RoomSettings
<1>1. ASSUME NEW r \in RoomSettings
      PROVE  ResetRoomModelContext(r) \in RoomSettings
  <2>1. \E level \in Levels \cup {NoName} : ResetRoomModelContext(r) = [r EXCEPT !.thinking = level]
    BY DEF ResetRoomModelContext
  <2> HIDE DEF RoomSettings, ResetRoomModelContext
  <2> QED
    BY <2>1, RoomChanges
<1>2. DefaultSettings \in RoomSettings
  BY EmptySeq DEF DefaultSettings, RoomSettings, Modes, NoRole
<1>3. CASE a.op = "setMode"
  <2>1. \E mode \in Modes : ModeOrModelSet(a, room) = [room EXCEPT !.mode = mode]
    BY <1>3 DEF ActionOK, ModeOrModelSet
  <2> QED
    BY <1>1, <1>2, <1>3, <2>1, RoomChanges
<1>4. CASE a.op = "setModel"
  <2>1. PICK r : r = [room EXCEPT !.model = a.key]
    OBVIOUS
  <2>2. \E k \in Keys \cup {NoName} : r = [room EXCEPT !.model = k]
    BY <1>4, <2>1 DEF ActionOK
  <2>3. r \in RoomSettings
    BY <2>2, RoomChanges
  <2>4. ModeOrModelSet(a, room) = ResetRoomModelContext(r)
    BY <1>4, <2>1 DEF ModeOrModelSet
  <2> QED
    BY <1>1, <1>2, <1>4, <2>3, <2>4
<1>5. CASE a.op = "setRole"
  <2>1. \E role \in Seq(STRING) : SettingSet(a, room) = [room EXCEPT !.role = role]
    BY <1>5 DEF ActionOK, SettingSet
  <2> QED
    BY <1>1, <1>2, <1>5, <2>1, RoomChanges
<1>6. CASE a.op = "setThinking"
  <2>1. \E level \in Levels \cup {NoName} : SettingSet(a, room) = [room EXCEPT !.thinking = level]
    BY <1>6 DEF ActionOK, SettingSet
  <2> QED
    BY <1>1, <1>2, <1>6, <2>1, RoomChanges
<1>7. CASE a.op = "setFeature"
  <2>1. SettingSet(a, room) = [room EXCEPT !.features =
          IF a.enabled THEN room.features \cup {a.feature} ELSE room.features \ {a.feature}]
    BY <1>7 DEF SettingSet
  <2>2. room.features \cup {a.feature} \in SUBSET Features /\ room.features \ {a.feature} \in SUBSET Features
    BY <1>7 DEF ActionOK, RoomSettings
  <2>3. \E on \in SUBSET Features : SettingSet(a, room) = [room EXCEPT !.features = on]
    BY <2>1, <2>2
  <2> QED
    BY <1>1, <1>2, <1>7, <2>3, RoomChanges
<1> QED
  BY <1>1, <1>2, <1>3, <1>4, <1>5, <1>6, <1>7

LEMMA NewRoomsIs ==
  ASSUME NEW rs \in [Chats -> RoomSettings], NEW cfg \in Configs, NEW c \in Chats,
         NEW a, ActionOK(a, cfg.models)
  PROVE  NewRooms(a, c, cfg, rs) \in [Chats -> RoomSettings]
<1>1. /\ cfg.models \in SUBSET Keys /\ rs[c] \in RoomSettings
      /\ DefaultSettings \in RoomSettings
  BY NewRoomIs DEF Configs
<1>2. CASE a.op \in {"setMode", "setModel"}
  BY <1>1, <1>2, NewRoomIs DEF NewRooms
<1>3. CASE a.op \in {"setRole", "setThinking", "setFeature"}
  BY <1>1, <1>3, NewRoomIs DEF NewRooms
<1>4. CASE a.op = "pin" \/ (a.op = "unpin" /\ PinOf(cfg, c) # NoName)
  BY <1>1, <1>4, NewRoomIs DEF NewRooms
<1>5. CASE a.op = "deny"
  BY <1>1, <1>5 DEF NewRooms
<1>6. CASE /\ a.op \notin {"setMode", "setModel", "setRole", "setThinking", "setFeature", "pin", "deny"}
           /\ ~(a.op = "unpin" /\ PinOf(cfg, c) # NoName)
  BY <1>6 DEF NewRooms
<1> QED
  BY <1>2, <1>3, <1>4, <1>5, <1>6

-----------------------------------------------------------------------------
(* Where updates are.                                                       *)

Somewhere == InHand \cup executed \cup dropped \cup lost

LEMMA PassedIs ==
  ASSUME TypeOK
  PROVE  Passed \in Nat /\ Passed \in {seen, confirmed} /\ seen <= Passed /\ confirmed <= Passed
BY MaxIs DEF TypeOK, Passed

LEMMA AccountedStays ==
  ASSUME Accounted, Passed' = Passed, Somewhere \subseteq Somewhere'
  PROVE  Accounted'
BY DEF Accounted, Somewhere

\* Update x is with a worker, or done with.
Kept(x) ==
  \/ x \in executed \cup dropped \cup lost \/ x = work.id
  \/ \E c \in Chats : x \in Range(queues[c]) \/ x = hand[c].id

LEMMA KeptIs ==
  ASSUME NEW x \in Nat \ {0}, Kept(x)'
  PROVE  x \in Somewhere'
<1>1. CASE x \in executed' \cup dropped' \cup lost'
  BY <1>1 DEF Somewhere
<1>2. CASE x = work'.id
  BY <1>2 DEF Somewhere, InHand
<1>3. CASE \E c \in Chats : x \in Range(queues'[c])
  BY <1>3 DEF Somewhere, InHand
<1>4. CASE \E c \in Chats : x = hand'[c].id
  BY <1>4 DEF Somewhere, InHand
<1> QED
  BY <1>1, <1>2, <1>3, <1>4 DEF Kept

\* What is in the process's hands is what it was sent.
LEMMA InHandIs ==
  ASSUME TypeOK
  PROVE  /\ InHand \subseteq DOMAIN sent
         /\ \A id \in InHand : id \in Range(batch) \/ Kept(id)
         /\ \A c \in Chats : Range(queues[c]) \subseteq DOMAIN sent /\ hand[c].id \in DOMAIN sent \cup {0}
<1>1. /\ DOMAIN sent = 1 .. Len(sent) /\ Len(sent) \in Nat
      /\ batch \in Seq(DOMAIN sent) /\ queues \in [Chats -> Seq(DOMAIN sent)]
      /\ work.id \in DOMAIN sent \cup {0}
      /\ \A c \in Chats : hand[c].id \in DOMAIN sent \cup {0}
  BY LenProperties DEF TypeOK, WorkOK, NoWork, HandsOK, HandOK, NoHand
<1>2. Range(batch) \subseteq DOMAIN sent /\ \A c \in Chats : Range(queues[c]) \subseteq DOMAIN sent
  BY <1>1, RangeIn
<1>3. ASSUME NEW id \in InHand
      PROVE  id \in DOMAIN sent /\ (id \in Range(batch) \/ Kept(id))
  <2>1. CASE id \in Range(batch)
    BY <1>2, <2>1
  <2>2. CASE id \in UNION {Range(queues[c]) : c \in Chats}
    <3>1. PICK c \in Chats : id \in Range(queues[c])
      BY <2>2
    <3> QED
      BY <1>2, <3>1 DEF Kept
  <2>3. CASE id \in ({work.id} \cup {hand[c].id : c \in Chats}) \ {0}
    <3>1. id # 0 /\ (id = work.id \/ \E c \in Chats : id = hand[c].id)
      BY <2>3
    <3> QED
      BY <1>1, <3>1 DEF Kept
  <2> QED
    BY <1>3, <2>1, <2>2, <2>3 DEF InHand
<1> QED
  BY <1>1, <1>2, <1>3

\* What a worker may do, it may do with more models.
LEMMA ActionOKGrows ==
  ASSUME NEW a, NEW keys, NEW more, keys \subseteq more, ActionOK(a, keys)
  PROVE  ActionOK(a, more)
BY DEF ActionOK

\* The hands that stay as they are.
LEMMA HandsStay ==
  ASSUME IInv, UNCHANGED sent, Owners \subseteq Owners', DOMAIN hand' = Chats,
         \A c \in Chats : hand'[c] # NoHand =>
           /\ hand'[c] = hand[c] /\ up'
           /\ ActionOK(hand[c].action, config'.models)
           /\ work' # NoWork => ActionOK(hand[c].action, work'.config.models)
  PROVE  HandsOK' /\ HandsFollow'
<1>1. \A c \in Chats : hand[c] = NoHand \/ HandOK(hand[c])
  BY DEF IInv, TypeOK, HandsOK
<1>2. ASSUME NEW c \in Chats, hand'[c] # NoHand
      PROVE  HandOK(hand[c])' /\ (FromFreshOwner(hand[c]) => FromFreshOwner(hand[c])')
  <2>1. hand'[c] = hand[c] /\ HandOK(hand[c]) /\ ActionOK(hand[c].action, config'.models)
    BY <1>1, <1>2
  <2>2. HandOK(hand[c])'
    BY <2>1 DEF HandOK
  <2>3. FromFreshOwner(hand[c]) => FromFreshOwner(hand[c])'
    BY <2>1 DEF FromFreshOwner
  <2> QED
    BY <2>2, <2>3
<1>3. HandsOK'
  BY <1>2 DEF HandsOK
<1>4. HandsFollow'
  BY <1>2 DEF IInv, HandsFollow
<1> QED
  BY <1>3, <1>4

\* Nothing that the hands depend on changes.
LEMMA HandsSame ==
  ASSUME IInv, UNCHANGED <<sent, up, hand, work, config>>
  PROVE  HandsOK' /\ HandsFollow'
<1>1. DOMAIN hand' = Chats /\ Owners' = Owners
  BY DEF IInv, TypeOK, HandsOK, Owners
<1>2. ASSUME NEW c \in Chats, hand'[c] # NoHand
      PROVE  /\ hand'[c] = hand[c] /\ up'
             /\ ActionOK(hand[c].action, config'.models)
             /\ work' # NoWork => ActionOK(hand[c].action, work'.config.models)
  BY <1>2 DEF IInv, TypeOK, HandsOK, HandOK, HandsFollow
<1> QED
  BY <1>1, <1>2, HandsStay

-----------------------------------------------------------------------------
(* Telegram and its users.                                                  *)

LEMMA SendKeeps ==
  ASSUME IInv, Send
  PROVE  IInv'
<1>1. UNCHANGED <<confirmed, clock, up, seen, batch, queues, hand, work, config, rooms, cfgFile, roomsFile,
                  stopping, given, executed, dropped, lost, used>>
  BY DEF Send, memoryVars, fileVars, fateVars
<1>2. PICK m \in Messages :
        sent' = Append(sent, [kind |-> m.kind, chat |-> m.chat, sender |-> m.sender, text |-> m.text, date |-> clock])
  BY DEF Send
<1> DEFINE u == [kind |-> m.kind, chat |-> m.chat, sender |-> m.sender, text |-> m.text, date |-> clock]
<1>3. sent \in Seq(Update) /\ u \in Update
  <2>1. m \in [kind : UpdateKinds, chat : Chats, sender : STRING, text : Texts]
    BY RestartConstants
  <2> QED
    BY <2>1 DEF IInv, TypeOK, Update
<1> HIDE DEF u
<1>4. sent' \in Seq(Update) /\ Len(sent') = Len(sent) + 1 /\ Len(sent) \in Nat
      /\ DOMAIN sent \subseteq DOMAIN sent' /\ \A id \in DOMAIN sent : sent'[id] = sent[id]
  <2>1. sent' = Append(sent, u)
    BY <1>2 DEF u
  <2>2. /\ sent' \in Seq(Update) /\ Len(sent') = Len(sent) + 1
        /\ \A id \in 1 .. Len(sent) : sent'[id] = sent[id]
    BY <1>3, <2>1, AppendProperties
  <2> QED
    BY <1>3, <2>2, LenProperties
<1>9. HandsOK' /\ HandsFollow'
  <2>1. ASSUME NEW c \in Chats, hand[c] # NoHand
        PROVE  HandOK(hand[c])' /\ FromFreshOwner(hand[c])' = FromFreshOwner(hand[c])
    <3>1. HandOK(hand[c]) /\ hand[c].id \in DOMAIN sent
      BY <2>1 DEF IInv, TypeOK, HandsOK, HandOK
    <3> QED
      BY <1>1, <1>4, <3>1 DEF HandOK, FromFreshOwner, Owners
  <2>2. HandsOK'
    BY <1>1, <2>1 DEF IInv, TypeOK, HandsOK
  <2>3. HandsFollow'
    BY <1>1, <2>1 DEF IInv, HandsFollow
  <2> QED
    BY <2>2, <2>3
<1>5. TypeOK'
  <2>1. \A s \in Seq(DOMAIN sent) : s \in Seq(DOMAIN sent')
    BY <1>4, SeqDef
  <2>2. work = NoWork \/ WorkOK(work)'
    BY <1>1, <1>4 DEF IInv, TypeOK, WorkOK
  <2>3. batch \in Seq(DOMAIN sent') /\ queues \in [Chats -> Seq(DOMAIN sent')]
    BY <2>1 DEF IInv, TypeOK
  <2>4. executed \cup dropped \cup lost \subseteq DOMAIN sent'
    BY <1>4 DEF IInv, TypeOK
  <2> QED
    BY <1>1, <1>4, <1>9, <2>2, <2>3, <2>4 DEF IInv, TypeOK
<1>6. BatchFollows'
  <2>1. Passed' = Passed /\ Passed \in Nat /\ Len(batch) \in Nat
    BY <1>1, PassedIs, LenProperties DEF IInv, TypeOK, Passed
  <2> QED
    BY <1>1, <1>4, <2>1 DEF IInv, BatchFollows
<1>7. Accounted'
  BY <1>1, AccountedStays DEF IInv, Passed, Somewhere, InHand
<1>8. GivenInOrder' /\ ConfigsAreValid' /\ WorkIsWhole'
  BY <1>1 DEF IInv, GivenInOrder, ConfigsAreValid, Valid, PinsOfModels, PinnedTo, WorkIsWhole
<1> QED
  BY <1>5, <1>6, <1>7, <1>8, <1>9 DEF IInv

LEMMA TickKeeps ==
  ASSUME IInv, Tick
  PROVE  IInv'
<1>1. /\ clock' = clock + 1
      /\ UNCHANGED <<sent, confirmed, up, seen, batch, queues, hand, work, config, rooms, cfgFile, roomsFile,
                     stopping, given, executed, dropped, lost, used>>
  BY DEF Tick, memoryVars, fileVars, fateVars
<1>6. HandsOK' /\ HandsFollow'
  BY <1>1, HandsSame
<1>2. TypeOK'
  BY <1>1, <1>6 DEF IInv, TypeOK, WorkOK
<1>3. Passed' = Passed /\ InHand' = InHand
  BY <1>1 DEF Passed, InHand
<1>4. BatchFollows' /\ Accounted'
  BY <1>1, <1>3 DEF IInv, BatchFollows, Accounted
<1>5. GivenInOrder' /\ ConfigsAreValid' /\ WorkIsWhole'
  BY <1>1 DEF IInv, GivenInOrder, ConfigsAreValid, Valid, PinsOfModels, PinnedTo, WorkIsWhole
<1> QED
  BY <1>2, <1>4, <1>5, <1>6 DEF IInv

\* What leaves the hands of the process is answered or dropped.
LEMMA HandsAccounted ==
  ASSUME IInv, UNCHANGED <<sent, seen, confirmed, batch>>,
         \A x \in DOMAIN sent : Kept(x) => Kept(x)'
  PROVE  BatchFollows' /\ Accounted'
<1>1. Passed' = Passed
  BY DEF Passed
<1>2. BatchFollows'
  BY <1>1 DEF IInv, BatchFollows
<1>3. DOMAIN sent = 1 .. Len(sent) /\ Len(sent) \in Nat
  BY LenProperties DEF IInv, TypeOK
<1>4. ASSUME NEW x \in Somewhere
      PROVE  x \in Somewhere'
  <2>1. x \in DOMAIN sent /\ (x \in Range(batch) \/ Kept(x))
    BY <1>4, InHandIs DEF IInv, TypeOK, Somewhere, Kept
  <2>2. x \in Nat \ {0}
    BY <1>3, <2>1
  <2>3. CASE x \in Range(batch)
    BY <2>3 DEF Somewhere, InHand
  <2>4. CASE Kept(x)
    BY <2>1, <2>2, <2>4, KeptIs
  <2> QED
    BY <2>1, <2>3, <2>4
<1>5. Accounted'
  BY <1>1, <1>4, AccountedStays DEF IInv
<1> QED
  BY <1>2, <1>5

-----------------------------------------------------------------------------
(* A change begins.                                                         *)

LEMMA SavesAre ==
  ASSUME NEW a, NEW c, NEW cfg
  PROVE  Saves(a, c, cfg) \in Seq({"config", "rooms"})
<1> DEFINE Files == {"config", "rooms"}
           first == IF NewConfig(a, c, cfg) # cfg \/ a.op = "pin" THEN <<"config">> ELSE <<>>
           second == IF a.op \in {"setMode", "setModel", "setRole", "setThinking", "setFeature", "pin", "deny"}
                        \/ (a.op = "unpin" /\ PinOf(cfg, c) # NoName) THEN <<"rooms">> ELSE <<>>
<1>1. <<>> \in Seq(Files) /\ <<"config">> \in Seq(Files) /\ <<"rooms">> \in Seq(Files)
  BY EmptySeq
<1>2. first \in Seq(Files) /\ second \in Seq(Files)
  BY <1>1, ZenonT(60)
<1>3. Saves(a, c, cfg) = first \o second
  BY DEF Saves
<1> HIDE DEF Files, first, second
<1>4. first \o second \in Seq(Files)
  BY <1>2, ConcatProperties
<1> QED
  BY <1>3, <1>4 DEF Files

LEMMA BeginIs ==
  ASSUME IInv, NEW c \in Chats, NEW id \in DOMAIN sent, NEW a, ActionOK(a, config.models),
         up, UNCHANGED <<sent, up>>, Begin(id, c, a)
  PROVE  /\ work = NoWork
         /\ config' = NewConfig(a, c, config) /\ ConfigOK(config')
         /\ config.models \subseteq config'.models /\ Owners \subseteq Owners'
         /\ rooms' \in [Chats -> RoomSettings]
         /\ (work = NoWork \/ WorkOK(work))' /\ WorkIsWhole'
         /\ work' = NoWork \/ (work'.config = config /\ work'.id = id)
         /\ work'.id = id \/ id \in executed'
         /\ executed \subseteq executed' /\ executed' \subseteq executed \cup {id}
<1> DEFINE saves == Saves(a, c, config)
<1>1. /\ work = NoWork /\ config' = NewConfig(a, c, config)
      /\ rooms' = NewRooms(a, c, config, rooms) \/ rooms' = rooms
  BY DEF Begin
<1>2. \/ work' = NoWork /\ executed' = executed \cup {id}
      \/ /\ UNCHANGED executed /\ saves # <<>>
         /\ work' = [id |-> id, todo |-> saves, action |-> a, config |-> config, rooms |-> rooms]
  BY ZenonT(60) DEF Begin
<1>3. ConfigOK(config) /\ config \in Configs /\ rooms \in [Chats -> RoomSettings]
  BY DEF IInv, TypeOK, ConfigsAreValid, ConfigOK
<1>4. saves \in Seq({"config", "rooms"})
  BY SavesAre
<1> HIDE DEF saves
<1>5. /\ ConfigOK(config') /\ config.models \subseteq config'.models
      /\ config.owners \subseteq config'.owners
      /\ rooms' \in [Chats -> RoomSettings]
  BY <1>1, <1>3, NewConfigIs, ModelsStay, NewRoomsIs
<1>6. CASE work' = NoWork /\ executed' = executed \cup {id}
  BY <1>1, <1>5, <1>6 DEF WorkIsWhole, Owners
<1>7. CASE /\ UNCHANGED executed /\ saves # <<>>
           /\ work' = [id |-> id, todo |-> saves, action |-> a, config |-> config, rooms |-> rooms]
  <2>1. /\ work'.id = id /\ work'.todo = saves /\ work'.action = a
        /\ work'.config = config /\ work'.rooms = rooms
    BY <1>7
  <2>2. WorkOK(work)'
    BY <1>3, <1>4, <1>7, <2>1 DEF WorkOK
  <2>3. WorkIsWhole'
    BY <1>5, <1>7, <2>1 DEF WorkIsWhole
  <2>4. work' # NoWork
    <3>1. DOMAIN work' # DOMAIN NoWork
      BY <1>7 DEF NoWork
    <3> QED
      BY <3>1
  <2>5. Owners' = Owners
    BY <1>1, <2>1, <2>4 DEF Owners
  <2> QED
    BY <1>1, <1>5, <1>7, <2>1, <2>2, <2>3, <2>5
<1> QED
  BY <1>2, <1>6, <1>7

-----------------------------------------------------------------------------
(* The poll loop.                                                           *)

\* A poll lets Telegram forget what this process, or an earlier one, was handed.
LEMMA AskedIs ==
  ASSUME TypeOK, Asked, UNCHANGED seen
  PROVE  confirmed' = Passed /\ Passed' = Passed
<1>1. {confirmed, seen} = {seen, confirmed}
  OBVIOUS
<1>2. confirmed' = Passed
  BY <1>1 DEF Asked, Passed
<1>3. seen \in Nat /\ Passed \in Nat /\ seen <= Passed
  BY PassedIs DEF TypeOK
<1>4. Max({seen, Passed}) \in {seen, Passed} /\ Max({seen, Passed}) >= Passed
  BY <1>3, MaxIs
<1>5. Max({seen, Passed}) = Passed
  BY <1>3, <1>4
<1> QED
  BY <1>2, <1>5 DEF Passed

LEMMA PollKeeps ==
  ASSUME IInv, PollArrives \/ PollLost
  PROVE  IInv'
<1>1. /\ batch = <<>> /\ Asked
      /\ UNCHANGED <<sent, clock, up, seen, queues, hand, work, config, rooms, cfgFile, roomsFile,
                     stopping, given, executed, dropped, lost>>
  BY DEF PollArrives, PollLost, memoryVars, fileVars, fateVars
<1>2. confirmed' = Passed /\ Passed' = Passed /\ Passed \in Nat
  BY <1>1, AskedIs, PassedIs DEF IInv
<1>3. Len(sent) \in Nat /\ DOMAIN sent = 1 .. Len(sent) /\ Passed <= Len(sent)
  <2>1. Len(sent) \in Nat /\ DOMAIN sent = 1 .. Len(sent) /\ Len(batch) \in Nat
    BY LenProperties DEF IInv, TypeOK
  <2> QED
    BY <1>2, <2>1 DEF IInv, BatchFollows
<1>4. batch' \in Seq(DOMAIN sent) /\ BatchFollows' /\ used' \in [{"stops", "failures"} -> Nat]
  <2>1. CASE PollArrives
    <3> DEFINE n == Len(sent) - Passed
    <3>1. n \in Nat /\ batch' = [i \in 1 .. n |-> Passed + i] /\ UNCHANGED used
      BY <1>2, <1>3, <2>1 DEF PollArrives
    <3>2. \A i \in 1 .. n : Passed + i \in DOMAIN sent
      BY <1>2, <1>3
    <3>3. batch' \in Seq(DOMAIN sent)
      BY <3>1, <3>2, IsASeq
    <3>4. DOMAIN batch' = 1 .. n /\ Len(batch') = n
      BY <3>1, <3>3, LenProperties
    <3> QED
      BY <1>1, <1>2, <1>3, <3>1, <3>3, <3>4 DEF BatchFollows, IInv, TypeOK
  <2>2. CASE PollLost
    <3>1. UNCHANGED batch /\ used' = [used EXCEPT !["failures"] = @ + 1]
      BY <2>2 DEF PollLost, Count
    <3>2. used' \in [{"stops", "failures"} -> Nat]
      BY <3>1 DEF IInv, TypeOK
    <3> QED
      BY <1>1, <1>2, <3>1, <3>2 DEF IInv, TypeOK, BatchFollows
  <2> QED
    BY <2>1, <2>2
<1>8. HandsOK' /\ HandsFollow'
  BY <1>1, HandsSame
<1>5. TypeOK'
  BY <1>1, <1>2, <1>4, <1>8 DEF IInv, TypeOK, WorkOK
<1>6. Accounted'
  <2>1. Range(batch) = {}
    BY <1>1, RangeIn, EmptySeq
  <2> QED
    BY <1>1, <1>2, <2>1, AccountedStays DEF IInv, Somewhere, InHand
<1>7. GivenInOrder' /\ ConfigsAreValid' /\ WorkIsWhole'
  BY <1>1 DEF IInv, GivenInOrder, ConfigsAreValid, Valid, PinsOfModels, PinnedTo, WorkIsWhole
<1> QED
  BY <1>4, <1>5, <1>6, <1>7, <1>8 DEF IInv

LEMMA LookKeeps ==
  ASSUME IInv, LookAtUpdate
  PROVE  IInv'
<1> DEFINE id == Head(batch)
           c == sent[id].chat
<1>1. /\ up /\ batch # <<>> /\ batch' = Tail(batch) /\ seen' = Max({seen, id})
      /\ given' = Append(given, id)
      /\ UNCHANGED <<sent, confirmed, clock, up, hand, cfgFile, roomsFile, stopping, lost, used>>
  BY DEF LookAtUpdate, Seen, telegramVars, fileVars
<1> DEFINE Same == UNCHANGED <<work, config, rooms, executed>>
           Approves == \/ Begin(id, c, [op |-> "join", chat |-> c])
                       \/ Begin(id, c, [op |-> "paired", chat |-> c, user |-> sent[id].sender])
<1>2. \/ queues' = [queues EXCEPT ![c] = Append(@, id)] /\ UNCHANGED dropped /\ Same
      \/ dropped' = dropped \cup {id} /\ UNCHANGED queues /\ Same
      \/ /\ UNCHANGED <<queues, dropped>>
         /\ Approves
  BY DEF LookAtUpdate, ToWorker, TurnedAway, Approved, memoryVars
<1>3. /\ DOMAIN sent = 1 .. Len(sent) /\ Len(sent) \in Nat
      /\ Range(batch) = {id} \cup Range(Tail(batch)) /\ id \in DOMAIN sent
      /\ Tail(batch) \in Seq(DOMAIN sent) /\ Len(Tail(batch)) = Len(batch) - 1 /\ Len(batch) \in Nat
      /\ 1 \in DOMAIN batch /\ id = batch[1]
      /\ \A i \in DOMAIN Tail(batch) : Tail(batch)[i] = batch[i + 1] /\ i + 1 \in DOMAIN batch
  <2>1. batch \in Seq(DOMAIN sent) /\ sent \in Seq(Update)
    BY DEF IInv, TypeOK
  <2> QED
    BY <1>1, <2>1, RangeOfTail, LenProperties
<1>4. /\ id = Passed + 1 /\ Passed \in Nat /\ seen \in Nat /\ confirmed \in Nat
      /\ seen <= Passed /\ confirmed <= Passed /\ c \in Chats /\ sent[id].sender \in STRING
  <2>1. id = Passed + 1
    BY <1>3 DEF IInv, BatchFollows
  <2>2. sent[id] \in Update
    BY <1>3, ElementOfSeq DEF IInv, TypeOK
  <2> QED
    BY <2>1, <2>2, PassedIs DEF IInv, TypeOK, Update
<1>5. seen' = id /\ Passed' = id
  <2>1. Max({seen, id}) = id /\ Max({id, confirmed}) = id
    BY <1>4, MaxIs
  <2> QED
    BY <1>1, <2>1 DEF Passed
<1> HIDE DEF id, c
<1>14. ASSUME Approves
       PROVE  \E a : ActionOK(a, config.models) /\ Begin(id, c, a)
  <2>1. CASE Begin(id, c, [op |-> "join", chat |-> c])
    <3>1. ActionOK([op |-> "join", chat |-> c], config.models)
      BY <1>4 DEF ActionOK
    <3> QED
      BY <2>1, <3>1
  <2>2. CASE Begin(id, c, [op |-> "paired", chat |-> c, user |-> sent[id].sender])
    <3>1. ActionOK([op |-> "paired", chat |-> c, user |-> sent[id].sender], config.models)
      BY <1>4 DEF ActionOK
    <3> QED
      BY <2>2, <3>1
  <2> QED
    BY <1>14, <2>1, <2>2
<1> HIDE DEF Approves
<1>12. /\ ConfigOK(config') /\ config.models \subseteq config'.models /\ Owners \subseteq Owners'
       /\ rooms' \in [Chats -> RoomSettings]
       /\ (work = NoWork \/ WorkOK(work))' /\ WorkIsWhole'
       /\ work' = NoWork \/ work' = work \/ work'.config = config
       /\ work = NoWork \/ work' = work
       /\ executed \subseteq executed' /\ executed' \subseteq executed \cup {id}
  <2>1. CASE Same
    <3>1. ConfigOK(config) /\ rooms \in [Chats -> RoomSettings] /\ (work = NoWork \/ WorkOK(work)) /\ WorkIsWhole
      BY DEF IInv, TypeOK, ConfigsAreValid, ConfigOK
    <3>2. (work = NoWork \/ WorkOK(work))' /\ WorkIsWhole' /\ Owners' = Owners
      BY <1>1, <2>1, <3>1 DEF WorkOK, WorkIsWhole, Owners
    <3> QED
      BY <2>1, <3>1, <3>2
  <2>2. CASE UNCHANGED <<queues, dropped>> /\ Approves
    <3>1. PICK a : ActionOK(a, config.models) /\ Begin(id, c, a)
      BY <1>14, <2>2
    <3> QED
      BY <1>1, <1>3, <1>4, <2>2, <3>1, BeginIs
  <2> HIDE DEF Same
  <2> QED
    BY <1>2, <2>1, <2>2
<1>6. /\ queues' \in [Chats -> Seq(DOMAIN sent)] /\ dropped' \subseteq DOMAIN sent
      /\ \A d \in Chats : Range(queues[d]) \subseteq Range(queues'[d])
      /\ dropped \subseteq dropped'
      /\ id \in dropped' \/ id \in Range(queues'[c]) \/ id = work'.id \/ id \in executed'
  <2>1. queues \in [Chats -> Seq(DOMAIN sent)] /\ dropped \subseteq DOMAIN sent
    BY DEF IInv, TypeOK
  <2>2. CASE queues' = [queues EXCEPT ![c] = Append(@, id)] /\ UNCHANGED dropped /\ Same
    <3>1. queues[c] \in Seq(DOMAIN sent)
      BY <1>4, <2>1
    <3>2. Append(queues[c], id) \in Seq(DOMAIN sent)
      BY <1>3, <3>1, AppendProperties
    <3>3. Range(Append(queues[c], id)) = Range(queues[c]) \cup {id}
      BY <1>3, <3>1, RangeOfAppend
    <3>4. \A d \in Chats : queues'[d] = IF d = c THEN Append(queues[c], id) ELSE queues[d]
      BY <2>1, <2>2
    <3>5. queues' \in [Chats -> Seq(DOMAIN sent)]
      BY <2>1, <2>2, <3>2
    <3> QED
      BY <1>4, <2>1, <2>2, <3>3, <3>4, <3>5
  <2>3. CASE dropped' = dropped \cup {id} /\ UNCHANGED queues /\ Same
    BY <1>3, <2>1, <2>3
  <2>4. CASE UNCHANGED <<queues, dropped>> /\ Approves
    <3>1. PICK a : ActionOK(a, config.models) /\ Begin(id, c, a)
      BY <1>14, <2>4
    <3>3. work'.id = id \/ id \in executed'
      BY <1>1, <1>3, <1>4, <3>1, BeginIs
    <3> QED
      BY <2>1, <2>4, <3>3
  <2> HIDE DEF Same
  <2> QED
    BY <1>2, <2>2, <2>3, <2>4
<1>7. given' \in Seq(Nat) /\ GivenInOrder'
  <2>1. given \in Seq(Nat) /\ id \in Nat
    BY <1>4 DEF IInv, TypeOK
  <2>2. /\ given' \in Seq(Nat) /\ Len(given') = Len(given) + 1 /\ Len(given) \in Nat
        /\ \A i \in 1 .. Len(given) : given'[i] = given[i]
        /\ given'[Len(given) + 1] = id
    BY <1>1, <2>1, AppendProperties, LenProperties
  <2>3. DOMAIN given = 1 .. Len(given) /\ DOMAIN given' = 1 .. Len(given) + 1
    BY <2>1, <2>2, LenProperties
  <2>4. \A i \in DOMAIN given : given[i] \in Nat /\ given[i] < id
    <3>1. \A i \in DOMAIN given : given[i] \in Nat /\ given[i] <= seen
      BY <2>1, <2>3, ElementOfSeq DEF IInv, GivenInOrder
    <3> QED
      BY <1>4, <3>1
  <2>5. \A i \in DOMAIN given' : given'[i] <= seen'
    BY <1>5, <2>1, <2>2, <2>3, <2>4
  <2>6. ASSUME NEW i \in DOMAIN given', NEW j \in DOMAIN given', i < j
        PROVE  given'[i] < given'[j]
    <3>1. i \in DOMAIN given /\ given'[i] = given[i]
      BY <2>2, <2>3, <2>6
    <3>2. CASE j \in DOMAIN given
      BY <2>2, <2>3, <2>6, <3>1, <3>2 DEF IInv, GivenInOrder
    <3>3. CASE j = Len(given) + 1
      BY <2>2, <2>4, <3>1, <3>3
    <3> QED
      BY <2>2, <2>3, <3>2, <3>3
  <2> QED
    BY <2>2, <2>5, <2>6 DEF GivenInOrder
<1>13. HandsOK' /\ HandsFollow'
  <2>1. DOMAIN hand' = Chats
    BY <1>1 DEF IInv, TypeOK, HandsOK
  <2>2. ASSUME NEW d \in Chats, hand'[d] # NoHand
        PROVE  /\ hand'[d] = hand[d] /\ up'
               /\ ActionOK(hand[d].action, config'.models)
               /\ work' # NoWork => ActionOK(hand[d].action, work'.config.models)
    <3>1. /\ hand[d] # NoHand /\ up /\ ActionOK(hand[d].action, config.models)
          /\ work # NoWork => ActionOK(hand[d].action, work.config.models)
      BY <1>1, <2>2 DEF IInv, TypeOK, HandsOK, HandOK, HandsFollow
    <3>2. ActionOK(hand[d].action, config'.models)
      BY <1>12, <3>1, ActionOKGrows
    <3> QED
      BY <1>1, <1>12, <3>1, <3>2
  <2> QED
    BY <1>1, <1>12, <2>1, <2>2, HandsStay
<1>8. TypeOK'
  <2>2. batch' \in Seq(DOMAIN sent) /\ queues' \in [Chats -> Seq(DOMAIN sent)] /\ seen' \in Nat
    BY <1>1, <1>3, <1>4, <1>5, <1>6
  <2>3. (executed \cup dropped \cup lost)' \subseteq DOMAIN sent
    BY <1>1, <1>3, <1>6, <1>12 DEF IInv, TypeOK
  <2> QED
    BY <1>1, <1>7, <1>12, <1>13, <2>2, <2>3 DEF IInv, TypeOK, ConfigOK
<1>9. BatchFollows'
  <2>1. \A i \in DOMAIN batch : i \in Nat /\ batch[i] = Passed + i
    BY LenProperties DEF IInv, BatchFollows, TypeOK
  <2>2. \A i \in DOMAIN batch' : i \in Nat /\ batch'[i] = batch[i + 1] /\ i + 1 \in DOMAIN batch
    BY <1>1, <1>3, LenProperties
  <2>3. \A i \in DOMAIN batch' : batch'[i] = Passed' + i
    BY <1>4, <1>5, <2>1, <2>2
  <2>4. Passed + Len(batch) <= Len(sent)
    BY DEF IInv, BatchFollows
  <2>5. Passed' + Len(batch') <= Len(sent)
    BY <1>1, <1>3, <1>4, <1>5, <2>4
  <2> QED
    BY <1>1, <2>3, <2>5 DEF BatchFollows
<1>10. Accounted'
  <2>1. ASSUME NEW x \in DOMAIN sent, x = id
        PROVE  Kept(x)'
    BY <1>4, <1>6, <2>1 DEF Kept
  <2>2. ASSUME NEW x \in DOMAIN sent, Kept(x)
        PROVE  Kept(x)'
    <3>1. x # 0 /\ NoWork.id = 0
      BY <1>3 DEF NoWork
    <3>2. CASE x = work.id
      BY <1>12, <3>1, <3>2 DEF Kept
    <3>3. CASE x \in executed \cup dropped \cup lost
      BY <1>1, <1>6, <1>12, <3>3 DEF Kept
    <3>4. CASE \E d \in Chats : x \in Range(queues[d])
      BY <1>6, <3>4 DEF Kept
    <3>5. CASE \E d \in Chats : x = hand[d].id
      BY <1>1, <3>5 DEF Kept
    <3> QED
      BY <2>2, <3>2, <3>3, <3>4, <3>5 DEF Kept
  <2>3. ASSUME NEW x \in Somewhere
        PROVE  x \in Somewhere'
    <3>1. x \in DOMAIN sent /\ (x \in Range(batch) \/ Kept(x))
      BY <2>3, InHandIs DEF IInv, TypeOK, Somewhere, Kept
    <3>2. x \in Nat \ {0} /\ id \in Nat \ {0}
      BY <1>3, <3>1
    <3>3. CASE x \in Range(Tail(batch))
      BY <1>1, <3>3 DEF Somewhere, InHand
    <3>4. CASE x = id \/ Kept(x)
      BY <2>1, <2>2, <3>1, <3>2, <3>4, KeptIs
    <3> QED
      BY <1>3, <3>1, <3>3, <3>4
  <2>4. ASSUME NEW x \in DOMAIN sent, x = id
        PROVE  x \in Somewhere'
    <3>1. x \in Nat \ {0}
      BY <1>3
    <3> QED
      BY <2>1, <2>4, <3>1, KeptIs
  <2>5. \A x \in 1 .. id : x \in 1 .. Passed \/ x = id
    BY <1>4
  <2>6. \A x \in 1 .. Passed : x \in Somewhere
    BY DEF IInv, Accounted, Somewhere
  <2>7. \A x \in 1 .. id : x \in Somewhere'
    BY <1>3, <2>3, <2>4, <2>5, <2>6
  <2> QED
    BY <1>5, <2>7 DEF Accounted, Somewhere
<1>11. ConfigsAreValid'
  <2>1. work' # NoWork => Valid(work'.config) /\ PinsOfModels(work'.config)
    BY <1>12 DEF IInv, ConfigsAreValid
  <2>2. Valid(cfgFile') /\ PinsOfModels(cfgFile')
    BY <1>1 DEF IInv, ConfigsAreValid
  <2> QED
    BY <1>12, <2>1, <2>2 DEF ConfigsAreValid, ConfigOK
<1> QED
  BY <1>7, <1>8, <1>9, <1>10, <1>11, <1>12, <1>13 DEF IInv

-----------------------------------------------------------------------------
(* The workers.                                                             *)

LEMMA TakeKeeps ==
  ASSUME IInv, NEW c \in Chats, Take(c)
  PROVE  IInv'
<1> DEFINE id == Head(queues[c])
           access == CheckPrivileged(sent[id].sender, sent[id].date)
           taken == Taken(id, access, clock, Unresolved)
<1>1. /\ up /\ queues[c] # <<>>
      /\ queues' = [queues EXCEPT ![c] = Tail(@)] /\ hand' = [hand EXCEPT ![c] = taken]
      /\ hand[c] = NoHand
      /\ UNCHANGED <<sent, confirmed, clock, up, seen, batch, work, config, rooms, cfgFile, roomsFile,
                     stopping, given, executed, dropped, lost, used>>
      /\ Owners' = Owners
  BY DEF Take, Busy, Owners, telegramVars, memoryVars, fileVars, fateVars
<1>2. /\ queues \in [Chats -> Seq(DOMAIN sent)] /\ sent \in Seq(Update)
      /\ DOMAIN sent = 1 .. Len(sent) /\ Len(sent) \in Nat /\ clock \in Nat
      /\ DOMAIN hand = Chats
  BY LenProperties DEF IInv, TypeOK, HandsOK
<1>3. /\ Range(queues[c]) = {id} \cup Range(Tail(queues[c])) /\ id \in DOMAIN sent
      /\ Tail(queues[c]) \in Seq(DOMAIN sent)
  BY <1>1, <1>2, RangeOfTail
<1>4. /\ access \in Verdicts
      /\ access = "allowed" => sent[id].sender \in Owners /\ ~(clock > sent[id].date + StaleAfter)
  BY VerdictIs
<1>5. sent[id] \in Update
  BY <1>2, <1>3, ElementOfSeq
<1>6. sent[id].date \in Nat /\ StaleAfter \in Nat
  BY <1>5, RestartConstants DEF Update
<1> HIDE DEF id, access
<1>7. /\ taken.id = id /\ taken.access = access /\ taken.at = clock /\ taken.action = Unresolved
      /\ \A keys : ActionOK(Unresolved, keys)
      /\ Unresolved.op \notin Privileged
  BY DEF Taken, Unresolved, ActionOK, Privileged
<1> HIDE DEF taken
<1>8. ASSUME NEW h, h = taken
      PROVE  HandOK(h)' /\ (access = "allowed" => FromFreshOwner(h)')
  <2>1. access = "allowed" => clock <= sent[id].date + StaleAfter
    BY <1>2, <1>4, <1>6
  <2> QED
    BY <1>1, <1>2, <1>3, <1>4, <1>7, <1>8, <2>1 DEF HandOK, FromFreshOwner, Verdicts
<1>9. /\ hand'[c] = taken /\ \A d \in Chats \ {c} : hand'[d] = hand[d]
      /\ DOMAIN hand' = Chats
  BY <1>1, <1>2
<1>10. HandsOK'
  <2>1. \A d \in Chats \ {c} : hand'[d] = NoHand \/ HandOK(hand[d])'
    BY <1>1, <1>9 DEF IInv, TypeOK, HandsOK, HandOK
  <2>2. HandOK(hand[c])'
    BY <1>8, <1>9 DEF HandOK
  <2> QED
    BY <1>9, <2>1, <2>2 DEF HandsOK
<1>11. HandsFollow'
  <2>1. ASSUME NEW d \in Chats, hand'[d] # NoHand
        PROVE  /\ up' /\ (hand'[d].access = "allowed" => FromFreshOwner(hand[d])')
               /\ hand'[d].action.op \in Privileged => hand'[d].access = "allowed"
               /\ work' # NoWork => ActionOK(hand'[d].action, work'.config.models)
    <3>1. CASE d = c
      <4>1. hand'[d] = taken
        BY <1>9, <3>1
      <4> QED
        BY <1>1, <1>7, <1>8, <4>1 DEF FromFreshOwner
    <3>2. CASE d # c
      <4>1. hand'[d] = hand[d]
        BY <1>9, <3>2
      <4> QED
        BY <1>1, <2>1, <4>1 DEF IInv, HandsFollow, FromFreshOwner
    <3> QED
      BY <3>1, <3>2
  <2> QED
    BY <2>1 DEF HandsFollow
<1>12. TypeOK'
  <2>1. (work = NoWork \/ WorkOK(work))'
    BY <1>1 DEF IInv, TypeOK, WorkOK, NoWork
  <2>2. queues' \in [Chats -> Seq(DOMAIN sent)]
    BY <1>1, <1>2, <1>3
  <2> QED
    BY <1>1, <1>10, <2>1, <2>2 DEF IInv, TypeOK
<1>13. BatchFollows' /\ Accounted'
  <2>1. ASSUME NEW x \in DOMAIN sent, Kept(x)
        PROVE  Kept(x)'
    <3>1. CASE x \in executed \cup dropped \cup lost \/ x = work.id
      BY <1>1, <3>1 DEF Kept
    <3>2. ASSUME NEW d \in Chats, x \in Range(queues[d])
          PROVE  Kept(x)'
      <4>1. CASE d = c /\ x = id
        BY <1>7, <1>9, <4>1 DEF Kept
      <4>2. CASE d = c /\ x \in Range(Tail(queues[c]))
        BY <1>1, <1>2, <4>2 DEF Kept
      <4>3. CASE d # c
        BY <1>1, <1>2, <3>2, <4>3 DEF Kept
      <4> QED
        BY <1>3, <3>2, <4>1, <4>2, <4>3
    <3>3. ASSUME NEW d \in Chats, x = hand[d].id
          PROVE  Kept(x)'
      <4>1. d # c
        BY <1>1, <1>2, <3>3 DEF NoHand
      <4> QED
        BY <1>9, <3>3, <4>1 DEF Kept
    <3> QED
      BY <2>1, <3>1, <3>2, <3>3 DEF Kept
  <2> QED
    BY <1>1, <2>1, HandsAccounted
<1>14. GivenInOrder' /\ ConfigsAreValid' /\ WorkIsWhole'
  BY <1>1 DEF IInv, GivenInOrder, ConfigsAreValid, Valid, PinsOfModels, PinnedTo, WorkIsWhole
<1> QED
  BY <1>11, <1>12, <1>13, <1>14 DEF IInv

LEMMA RouteKeeps ==
  ASSUME IInv, NEW c \in Chats, Route(c)
  PROVE  IInv'
<1> DEFINE h == hand[c]
           a == ActionOf(sent[h.id], h.access, config, rooms)
           routed == Taken(h.id, h.access, h.at, a)
<1>1. /\ up /\ h # NoHand /\ work = NoWork
      /\ hand' = [hand EXCEPT ![c] = routed]
      /\ UNCHANGED <<sent, confirmed, clock, up, seen, batch, queues, work, config, rooms, cfgFile,
                     roomsFile, stopping, given, executed, dropped, lost, used>>
      /\ Owners' = Owners
  BY DEF Route, Owners, telegramVars, memoryVars, fileVars, fateVars
<1>2. /\ sent \in Seq(Update) /\ DOMAIN sent = 1 .. Len(sent)
      /\ DOMAIN hand = Chats /\ HandOK(h)
  BY <1>1, LenProperties DEF IInv, TypeOK, HandsOK
<1>3. h.id \in DOMAIN sent /\ h.at \in Nat /\ h.access \in Verdicts
  BY <1>2 DEF HandOK, Verdicts
<1>4. ActionOK(a, config.models) /\ (a.op \in Privileged => h.access = "allowed")
  <2>1. sent[h.id] \in Update
    BY <1>2, <1>3, ElementOfSeq
  <2>2. sent[h.id].text \in Texts
    BY <2>1 DEF Update
  <2> QED
    BY <1>3, <2>2, ActionOfIs
<1>5. h.access = "allowed" => FromFreshOwner(h)
  BY <1>1 DEF IInv, HandsFollow
<1> HIDE DEF a
<1>6. routed.id = h.id /\ routed.access = h.access /\ routed.at = h.at /\ routed.action = a
  BY DEF Taken
<1> HIDE DEF routed
<1>7. /\ hand'[c] = routed /\ \A d \in Chats \ {c} : hand'[d] = hand[d]
      /\ DOMAIN hand' = Chats
  BY <1>1, <1>2
<1>8. HandsOK'
  <2>1. \A d \in Chats \ {c} : hand'[d] = NoHand \/ HandOK(hand[d])'
    BY <1>1, <1>7 DEF IInv, TypeOK, HandsOK, HandOK
  <2>2. HandOK(hand[c])'
    BY <1>1, <1>3, <1>4, <1>6, <1>7 DEF HandOK, Verdicts
  <2> QED
    BY <1>7, <2>1, <2>2 DEF HandsOK
<1>9. HandsFollow'
  <2>1. ASSUME NEW d \in Chats, hand'[d] # NoHand
        PROVE  /\ up' /\ (hand'[d].access = "allowed" => FromFreshOwner(hand[d])')
               /\ hand'[d].action.op \in Privileged => hand'[d].access = "allowed"
               /\ work' # NoWork => ActionOK(hand'[d].action, work'.config.models)
    <3>1. CASE d = c
      <4>1. hand'[d] = routed
        BY <1>7, <3>1
      <4> QED
        BY <1>1, <1>4, <1>5, <1>6, <4>1 DEF FromFreshOwner
    <3>2. CASE d # c
      <4>1. hand'[d] = hand[d]
        BY <1>7, <3>2
      <4> QED
        BY <1>1, <2>1, <4>1 DEF IInv, HandsFollow, FromFreshOwner
    <3> QED
      BY <3>1, <3>2
  <2> QED
    BY <2>1 DEF HandsFollow
<1>10. TypeOK'
  <2>1. (work = NoWork \/ WorkOK(work))'
    BY <1>1 DEF IInv, TypeOK, WorkOK, NoWork
  <2> QED
    BY <1>1, <1>8, <2>1 DEF IInv, TypeOK
<1>11. BatchFollows' /\ Accounted'
  <2>1. \A d \in Chats : hand'[d].id = hand[d].id
    BY <1>6, <1>7
  <2>2. \A x \in DOMAIN sent : Kept(x) => Kept(x)'
    BY <1>1, <2>1 DEF Kept
  <2> QED
    BY <1>1, <2>2, HandsAccounted
<1>12. GivenInOrder' /\ ConfigsAreValid' /\ WorkIsWhole'
  BY <1>1 DEF IInv, GivenInOrder, ConfigsAreValid, Valid, PinsOfModels, PinnedTo, WorkIsWhole
<1> QED
  BY <1>9, <1>10, <1>11, <1>12 DEF IInv

LEMMA CarryOutKeeps ==
  ASSUME IInv, NEW c \in Chats, CarryOut(c)
  PROVE  IInv'
<1> DEFINE h == hand[c]
           a == h.action
           aborted == IF h.action.op = "deny" THEN {h.action.chat} \ {c} ELSE {}
           purged(d) == Range(queues[d]) \cup ({hand[d].id} \ {0})
<1>1. /\ up /\ h # NoHand /\ Begin(h.id, c, a)
      /\ stopping' \in {stopping, TRUE}
      /\ queues' = [d \in Chats |-> IF d \in aborted THEN <<>> ELSE queues[d]]
      /\ hand' = [d \in Chats |-> IF d \in aborted \cup {c} THEN NoHand ELSE hand[d]]
      /\ dropped' = dropped \cup UNION {purged(d) : d \in aborted}
      /\ UNCHANGED <<sent, confirmed, clock, up, seen, batch, cfgFile, roomsFile, given, lost, used>>
  BY DEF CarryOut, StopsAfter, telegramVars, fileVars
<1>2. h.id \in DOMAIN sent /\ ActionOK(a, config.models)
  BY <1>1 DEF IInv, TypeOK, HandsOK, HandOK
<1>3. aborted \subseteq Chats
  BY <1>2 DEF ActionOK
<1> HIDE DEF a, aborted
<1>4. /\ work = NoWork /\ ConfigOK(config') /\ config.models \subseteq config'.models
      /\ Owners \subseteq Owners'
      /\ rooms' \in [Chats -> RoomSettings]
      /\ (work = NoWork \/ WorkOK(work))' /\ WorkIsWhole'
      /\ work' = NoWork \/ work'.config = config
      /\ work'.id = h.id \/ h.id \in executed'
      /\ executed \subseteq executed' /\ executed' \subseteq executed \cup {h.id}
  BY <1>1, <1>2, BeginIs
<1>5. /\ queues \in [Chats -> Seq(DOMAIN sent)] /\ <<>> \in Seq(DOMAIN sent)
      /\ DOMAIN sent = 1 .. Len(sent) /\ Len(sent) \in Nat
      /\ \A d \in Chats : purged(d) \subseteq DOMAIN sent
  BY InHandIs, EmptySeq, LenProperties DEF IInv, TypeOK
<1> HIDE DEF h
<1>6. queues' \in [Chats -> Seq(DOMAIN sent)] /\ dropped' \subseteq DOMAIN sent
      /\ \A d \in aborted : purged(d) \subseteq dropped'
  BY <1>1, <1>3, <1>5 DEF IInv, TypeOK
<1>7. HandsOK' /\ HandsFollow'
  <2>1. DOMAIN hand' = Chats
    BY <1>1
  <2>2. ASSUME NEW d \in Chats, hand'[d] # NoHand
        PROVE  /\ hand'[d] = hand[d] /\ up'
               /\ ActionOK(hand[d].action, config'.models)
               /\ work' # NoWork => ActionOK(hand[d].action, work'.config.models)
    <3>1. hand'[d] = hand[d]
      BY <1>1, <2>2
    <3>2. ActionOK(hand[d].action, config.models)
      BY <2>2, <3>1 DEF IInv, TypeOK, HandsOK, HandOK
    <3>3. ActionOK(hand[d].action, config'.models)
      BY <1>4, <3>2, ActionOKGrows
    <3> QED
      BY <1>1, <1>4, <3>1, <3>2, <3>3
  <2> QED
    BY <1>1, <1>4, <2>1, <2>2, HandsStay
<1>8. TypeOK'
  <2>1. executed' \cup dropped' \cup lost' \subseteq DOMAIN sent
    BY <1>1, <1>2, <1>4, <1>6 DEF IInv, TypeOK
  <2>2. stopping' \in BOOLEAN
    BY <1>1 DEF IInv, TypeOK
  <2> QED
    BY <1>1, <1>4, <1>6, <1>7, <2>1, <2>2 DEF IInv, TypeOK, ConfigOK
<1>9. BatchFollows' /\ Accounted'
  <2>1. ASSUME NEW x \in DOMAIN sent, Kept(x)
        PROVE  Kept(x)'
    <3>1. x # 0 /\ work.id = 0
      BY <1>4, <1>5 DEF NoWork
    <3>2. CASE x \in executed \cup dropped \cup lost
      BY <1>1, <1>4, <3>2 DEF Kept
    <3>3. ASSUME NEW d \in Chats, x \in Range(queues[d])
          PROVE  Kept(x)'
      <4>1. CASE d \in aborted
        BY <1>6, <3>3, <4>1 DEF Kept
      <4>2. CASE d \notin aborted
        <5>1. queues'[d] = queues[d]
          BY <1>1, <4>2
        <5> QED
          BY <3>3, <5>1 DEF Kept
      <4> QED
        BY <4>1, <4>2
    <3>4. ASSUME NEW d \in Chats, x = hand[d].id
          PROVE  Kept(x)'
      <4>1. CASE d \in aborted
        BY <1>6, <3>1, <3>4, <4>1 DEF Kept
      <4>2. CASE d = c
        BY <1>4, <3>4, <4>2 DEF Kept, h
      <4>3. CASE d \notin aborted \cup {c}
        <5>1. hand'[d] = hand[d]
          BY <1>1, <4>3
        <5> QED
          BY <3>4, <5>1 DEF Kept
      <4> QED
        BY <4>1, <4>2, <4>3
    <3> QED
      BY <2>1, <3>1, <3>2, <3>3, <3>4 DEF Kept
  <2> QED
    BY <1>1, <2>1, HandsAccounted
<1>10. ConfigsAreValid'
  <2>1. work' # NoWork => Valid(work'.config) /\ PinsOfModels(work'.config)
    BY <1>4 DEF IInv, ConfigsAreValid
  <2>2. Valid(cfgFile') /\ PinsOfModels(cfgFile')
    BY <1>1 DEF IInv, ConfigsAreValid
  <2> QED
    BY <1>4, <2>1, <2>2 DEF ConfigsAreValid, ConfigOK
<1>11. GivenInOrder'
  BY <1>1 DEF IInv, GivenInOrder
<1> QED
  BY <1>4, <1>7, <1>8, <1>9, <1>10, <1>11 DEF IInv

\* The command that is carried out.
LEMMA WorkIs ==
  ASSUME IInv, work # NoWork
  PROVE  /\ WorkOK(work) /\ work.id # 0 /\ NoWork.id = 0
         /\ work = [id |-> work.id, todo |-> work.todo, action |-> work.action,
                    config |-> work.config, rooms |-> work.rooms]
         /\ up /\ work.config.owners \subseteq config.owners
         /\ sent[work.id] \in Update /\ sent[work.id].chat \in Chats
<1>1. WorkOK(work) /\ sent \in Seq(Update) /\ DOMAIN sent = 1 .. Len(sent) /\ Len(sent) \in Nat
  BY LenProperties DEF IInv, TypeOK
<1>2. work.id \in 1 .. Len(sent)
  BY <1>1 DEF WorkOK
<1>3. sent[work.id] \in Update
  BY <1>1, <1>2, ElementOfSeq
<1> QED
  BY <1>1, <1>2, <1>3 DEF IInv, WorkIsWhole, NoWork, Update

\* A write puts what is used on disk.
LEMMA WrittenIs ==
  ASSUME IInv, Written
  PROVE  /\ cfgFile' \in Configs /\ Valid(cfgFile') /\ PinsOfModels(cfgFile')
         /\ roomsFile' \in [Chats -> RoomSettings]
         /\ cfgFile' \in {config, cfgFile}
<1>1. /\ cfgFile' = config \/ cfgFile' = cfgFile
      /\ roomsFile' = rooms \/ roomsFile' = roomsFile
  BY DEF Written
<1>2. /\ ConfigOK(config) /\ ConfigOK(cfgFile)
      /\ rooms \in [Chats -> RoomSettings] /\ roomsFile \in [Chats -> RoomSettings]
  BY DEF IInv, TypeOK, ConfigsAreValid, ConfigOK
<1>3. ConfigOK(cfgFile')
  BY <1>1, <1>2
<1> QED
  BY <1>1, <1>2, <1>3 DEF ConfigOK

\* The worker's answer.
LEMMA FinishIs ==
  ASSUME IInv, work # NoWork, NEW denied, Finish(denied), UNCHANGED <<hand, lost>>
  PROVE  /\ work' = NoWork /\ executed' = executed \cup {work.id}
         /\ queues' \in [Chats -> Seq(DOMAIN sent)]
         /\ executed' \cup dropped' \subseteq DOMAIN sent
         /\ \A x \in DOMAIN sent : Kept(x) => Kept(x)'
<1> DEFINE c == sent[work.id].chat
<1>1. /\ work' = NoWork /\ executed' = executed \cup {work.id}
      /\ \/ dropped' = dropped \cup Range(queues[c]) /\ queues' = [queues EXCEPT ![c] = <<>>]
         \/ dropped' = dropped /\ queues' = queues
  BY DEF Finish
<1>2. c \in Chats /\ work.id \in DOMAIN sent
  BY WorkIs DEF WorkOK
<1> HIDE DEF c
<1>3. /\ queues \in [Chats -> Seq(DOMAIN sent)] /\ <<>> \in Seq(DOMAIN sent)
      /\ Range(queues[c]) \subseteq DOMAIN sent
  BY <1>2, InHandIs, EmptySeq DEF IInv, TypeOK
<1>4. queues' \in [Chats -> Seq(DOMAIN sent)] /\ executed' \cup dropped' \subseteq DOMAIN sent
  BY <1>1, <1>2, <1>3 DEF IInv, TypeOK
<1>5. \A d \in Chats : \A x \in Range(queues[d]) : x \in dropped' \/ x \in Range(queues'[d])
  <2>1. CASE dropped' = dropped \cup Range(queues[c]) /\ queues' = [queues EXCEPT ![c] = <<>>]
    <3>1. \A d \in Chats : d = c \/ queues'[d] = queues[d]
      BY <1>3, <2>1
    <3> QED
      BY <2>1, <3>1
  <2>2. CASE dropped' = dropped /\ queues' = queues
    BY <2>2
  <2> QED
    BY <1>1, <2>1, <2>2
<1>6. dropped \subseteq dropped'
  BY <1>1
<1>7. ASSUME NEW x \in DOMAIN sent, Kept(x)
      PROVE  Kept(x)'
  <2>1. CASE x \in executed \cup dropped \cup lost \/ x = work.id
    BY <1>1, <1>6, <2>1 DEF Kept
  <2>2. CASE \E d \in Chats : x \in Range(queues[d])
    BY <1>5, <2>2 DEF Kept
  <2>3. CASE \E d \in Chats : x = hand[d].id
    BY <2>3 DEF Kept
  <2> QED
    BY <1>7, <2>1, <2>2, <2>3 DEF Kept
<1> QED
  BY <1>1, <1>4, <1>7

LEMMA SavedKeeps ==
  ASSUME IInv, Saved
  PROVE  IInv'
<1>1. /\ work # NoWork /\ Written
      /\ UNCHANGED <<sent, confirmed, clock, up, seen, batch, hand, config, stopping, given, lost, used>>
  BY DEF Saved, telegramVars
<1>2. /\ WorkOK(work) /\ work.id # 0 /\ NoWork.id = 0
      /\ work = [id |-> work.id, todo |-> work.todo, action |-> work.action,
                 config |-> work.config, rooms |-> work.rooms]
      /\ sent[work.id].chat \in Chats /\ up /\ work.config.owners \subseteq config.owners
  BY <1>1, WorkIs
<1>3. /\ cfgFile' \in Configs /\ Valid(cfgFile') /\ PinsOfModels(cfgFile')
      /\ roomsFile' \in [Chats -> RoomSettings]
  BY <1>1, WrittenIs
<1>4. /\ rooms' \in [Chats -> RoomSettings]
      /\ queues' \in [Chats -> Seq(DOMAIN sent)]
      /\ executed' \cup dropped' \subseteq DOMAIN sent
      /\ \A x \in DOMAIN sent : Kept(x) => Kept(x)'
      /\ \/ work' = NoWork
         \/ /\ work' = [id |-> work.id, todo |-> Tail(work.todo), action |-> work.action,
                        config |-> work.config, rooms |-> work.rooms]
            /\ Tail(work.todo) \in Seq({"config", "rooms"}) /\ Tail(work.todo) # <<>>
  <2>1. CASE Len(work.todo) > 1
    <3>1. /\ rooms' = NewRooms(work.action, sent[work.id].chat, work.config, rooms)
          /\ work' = [work EXCEPT !.todo = Tail(@)] /\ UNCHANGED <<executed, dropped, queues>>
      BY <2>1 DEF Saved
    <3>2. rooms' \in [Chats -> RoomSettings]
      BY <1>2, <3>1, NewRoomsIs DEF WorkOK, IInv, TypeOK
    <3>3. work.todo \in Seq({"config", "rooms"}) /\ work.todo # <<>>
      BY <1>2 DEF WorkOK
    <3>4. Tail(work.todo) \in Seq({"config", "rooms"}) /\ Tail(work.todo) # <<>>
      BY <2>1, <3>3, TailOfLong
    <3>5. work' = [id |-> work.id, todo |-> Tail(work.todo), action |-> work.action,
                   config |-> work.config, rooms |-> work.rooms]
      BY <1>2, <3>1
    <3>6. queues' \in [Chats -> Seq(DOMAIN sent)] /\ executed' \cup dropped' \subseteq DOMAIN sent
      BY <3>1 DEF IInv, TypeOK
    <3>7. work'.id = work.id
      BY <3>5
    <3>8. \A x \in DOMAIN sent : Kept(x) => Kept(x)'
      BY <1>1, <3>1, <3>7 DEF Kept
    <3> QED
      BY <3>2, <3>4, <3>5, <3>6, <3>8
  <2>2. CASE ~(Len(work.todo) > 1)
    <3>1. Finish(TRUE) /\ UNCHANGED rooms
      BY <2>2 DEF Saved
    <3> QED
      BY <1>1, <3>1, FinishIs DEF IInv, TypeOK
  <2> QED
    BY <2>1, <2>2
<1>5. (work = NoWork \/ WorkOK(work))' /\ WorkIsWhole' /\ (work' # NoWork => work'.config = work.config)
  <2>1. CASE work' = NoWork
    BY <2>1 DEF WorkIsWhole
  <2>2. CASE work' = [id |-> work.id, todo |-> Tail(work.todo), action |-> work.action,
                      config |-> work.config, rooms |-> work.rooms]
             /\ Tail(work.todo) \in Seq({"config", "rooms"}) /\ Tail(work.todo) # <<>>
    <3>1. /\ work'.id = work.id /\ work'.todo = Tail(work.todo) /\ work'.action = work.action
          /\ work'.config = work.config /\ work'.rooms = work.rooms
      BY <2>2
    <3>2. WorkOK(work)'
      BY <1>1, <1>2, <2>2, <3>1 DEF WorkOK
    <3>3. WorkIsWhole'
      BY <1>1, <1>2, <2>2, <3>1 DEF WorkIsWhole
    <3> QED
      BY <3>1, <3>2, <3>3
  <2> QED
    BY <1>4, <2>1, <2>2
<1>6. HandsOK' /\ HandsFollow'
  <2>1. DOMAIN hand' = Chats
    BY <1>1 DEF IInv, TypeOK, HandsOK
  <2>2. ASSUME NEW d \in Chats, hand'[d] # NoHand
        PROVE  /\ hand'[d] = hand[d] /\ up'
               /\ ActionOK(hand[d].action, config'.models)
               /\ work' # NoWork => ActionOK(hand[d].action, work'.config.models)
    BY <1>1, <1>5, <2>2 DEF IInv, TypeOK, HandsOK, HandOK, HandsFollow
  <2>3. Owners \subseteq Owners'
    BY <1>1, <1>2, <1>5 DEF Owners
  <2> QED
    BY <1>1, <2>1, <2>2, <2>3, HandsStay
<1>7. TypeOK'
  <2>1. (executed \cup dropped \cup lost)' \subseteq DOMAIN sent
    BY <1>1, <1>4 DEF IInv, TypeOK
  <2> QED
    BY <1>1, <1>3, <1>4, <1>5, <1>6, <2>1 DEF IInv, TypeOK
<1>8. BatchFollows' /\ Accounted'
  BY <1>1, <1>4, HandsAccounted
<1>9. ConfigsAreValid'
  <2>1. work' # NoWork => Valid(work'.config) /\ PinsOfModels(work'.config)
    BY <1>1, <1>5 DEF IInv, ConfigsAreValid
  <2>2. Valid(config') /\ PinsOfModels(config')
    BY <1>1 DEF IInv, ConfigsAreValid
  <2> QED
    BY <1>3, <2>1, <2>2 DEF ConfigsAreValid
<1>10. GivenInOrder'
  BY <1>1 DEF IInv, GivenInOrder
<1> QED
  BY <1>5, <1>6, <1>7, <1>8, <1>9, <1>10 DEF IInv

LEMMA SaveFailsKeeps ==
  ASSUME IInv, SaveFails
  PROVE  IInv'
<1>1. /\ work # NoWork
      /\ used' = [used EXCEPT !["failures"] = @ + 1]
      /\ config' = work.config \/ config' = config
      /\ rooms' = work.rooms \/ rooms' = rooms
      /\ UNCHANGED <<sent, confirmed, clock, up, seen, batch, hand, cfgFile, roomsFile, stopping,
                     given, lost>>
  BY DEF SaveFails, Count, telegramVars, fileVars
<1>2. WorkOK(work) /\ work.config.owners \subseteq config.owners
  BY <1>1, WorkIs
<1>8. /\ work' = NoWork /\ queues' \in [Chats -> Seq(DOMAIN sent)]
      /\ executed' \cup dropped' \subseteq DOMAIN sent
      /\ \A x \in DOMAIN sent : Kept(x) => Kept(x)'
  <2>1. Finish(Head(work.todo) = "rooms")
    BY DEF SaveFails
  <2> QED
    BY <1>1, <2>1, FinishIs
<1>9. HandsOK' /\ HandsFollow'
  <2>1. DOMAIN hand' = Chats
    BY <1>1 DEF IInv, TypeOK, HandsOK
  <2>2. ASSUME NEW d \in Chats, hand'[d] # NoHand
        PROVE  /\ hand'[d] = hand[d] /\ up'
               /\ ActionOK(hand[d].action, config'.models)
               /\ work' # NoWork => ActionOK(hand[d].action, work'.config.models)
    BY <1>1, <1>8, <2>2 DEF IInv, TypeOK, HandsOK, HandOK, HandsFollow
  <2>3. Owners \subseteq Owners'
    BY <1>1, <1>2, <1>8 DEF Owners
  <2> QED
    BY <1>1, <2>1, <2>2, <2>3, HandsStay
<1>3. ConfigOK(config') /\ rooms' \in [Chats -> RoomSettings]
  <2>1. ConfigOK(config) /\ ConfigOK(work.config)
    BY <1>1, <1>2 DEF IInv, TypeOK, ConfigsAreValid, ConfigOK, WorkOK
  <2>2. rooms \in [Chats -> RoomSettings] /\ work.rooms \in [Chats -> RoomSettings]
    BY <1>2 DEF IInv, TypeOK, WorkOK
  <2> QED
    BY <1>1, <2>1, <2>2
<1>4. TypeOK'
  <2>1. (executed \cup dropped \cup lost)' \subseteq DOMAIN sent
    BY <1>1, <1>8 DEF IInv, TypeOK
  <2>2. used' \in [{"stops", "failures"} -> Nat]
    BY <1>1 DEF IInv, TypeOK
  <2> QED
    BY <1>1, <1>3, <1>8, <1>9, <2>1, <2>2 DEF IInv, TypeOK, ConfigOK
<1>5. BatchFollows' /\ Accounted'
  BY <1>1, <1>8, HandsAccounted
<1>6. ConfigsAreValid'
  <2>1. Valid(cfgFile') /\ PinsOfModels(cfgFile')
    BY <1>1 DEF IInv, ConfigsAreValid
  <2> QED
    BY <1>3, <1>8, <2>1 DEF ConfigsAreValid, ConfigOK
<1>7. GivenInOrder' /\ WorkIsWhole'
  BY <1>1, <1>8 DEF IInv, GivenInOrder, WorkIsWhole
<1> QED
  BY <1>4, <1>5, <1>6, <1>7, <1>9 DEF IInv

-----------------------------------------------------------------------------
(* The end of a process, and the next one.                                  *)

LEMMA StopKeeps ==
  ASSUME IInv, Stop
  PROVE  IInv'
<1>1. /\ lost' = lost \cup {id \in InHand : id <= confirmed}
      /\ batch' = <<>> /\ queues' = [c \in Chats |-> <<>>]
      /\ hand' = [c \in Chats |-> NoHand] /\ work' = NoWork
      /\ up' = FALSE /\ stopping' = FALSE /\ seen' = 0 /\ given' = <<>>
      /\ UNCHANGED <<sent, confirmed, clock, config, rooms, executed, dropped>>
  BY DEF Stop, telegramVars, memoryVars
<1>2. /\ confirmed \in Nat /\ Passed \in Nat /\ confirmed <= Passed
      /\ Passed <= Len(sent) /\ Len(sent) \in Nat
  <2>1. Len(batch) \in Nat /\ Len(sent) \in Nat /\ confirmed \in Nat
    BY LenProperties DEF IInv, TypeOK
  <2> QED
    BY <2>1, PassedIs DEF IInv, BatchFollows
<1>3. Passed' = confirmed
  <2>1. Max({0, confirmed}) \in {0, confirmed} /\ Max({0, confirmed}) >= confirmed
    BY <1>2, MaxIs
  <2> QED
    BY <1>1, <1>2, <2>1 DEF Passed
<1>4. /\ cfgFile' \in Configs /\ Valid(cfgFile') /\ PinsOfModels(cfgFile')
      /\ roomsFile' \in [Chats -> RoomSettings]
  <2>1. CASE Written
    BY <2>1, WrittenIs
  <2>2. CASE UNCHANGED <<cfgFile, roomsFile>>
    BY <2>2 DEF IInv, TypeOK, ConfigsAreValid
  <2> QED
    BY <2>1, <2>2 DEF Stop, fileVars
<1>5. used' \in [{"stops", "failures"} -> Nat]
  BY DEF Stop, Count, IInv, TypeOK
<1>10. HandsOK' /\ HandsFollow'
  BY <1>1 DEF HandsOK, HandsFollow
<1>6. TypeOK'
  <2>1. (executed \cup dropped \cup lost)' \subseteq DOMAIN sent
    BY <1>1, InHandIs DEF IInv, TypeOK
  <2>2. batch' \in Seq(DOMAIN sent) /\ given' \in Seq(Nat) /\ queues' \in [Chats -> Seq(DOMAIN sent)]
    BY <1>1, EmptySeq
  <2> QED
    BY <1>1, <1>4, <1>5, <1>10, <2>1, <2>2 DEF IInv, TypeOK
<1>7. BatchFollows'
  <2>1. Len(batch') = 0 /\ DOMAIN batch' = {}
    BY <1>1, EmptySeq
  <2> QED
    BY <1>1, <1>2, <1>3, <2>1 DEF BatchFollows
<1>8. Accounted'
  <2>1. ASSUME NEW id \in 1 .. confirmed
        PROVE  id \in executed' \cup dropped' \cup lost'
    <3>1. id \in 1 .. Passed /\ id <= confirmed
      BY <1>2
    <3>2. id \in InHand \cup executed \cup dropped \cup lost
      BY <3>1 DEF IInv, Accounted
    <3> QED
      BY <1>1, <3>1, <3>2
  <2> QED
    BY <1>3, <2>1 DEF Accounted
<1>9. GivenInOrder' /\ ConfigsAreValid' /\ WorkIsWhole'
  <2>1. DOMAIN given' = {}
    BY <1>1, EmptySeq
  <2>2. Valid(config)' /\ PinsOfModels(config)'
    BY <1>1 DEF IInv, ConfigsAreValid, Valid, PinsOfModels, PinnedTo
  <2> QED
    BY <1>1, <1>4, <2>1, <2>2 DEF GivenInOrder, ConfigsAreValid, WorkIsWhole
<1> QED
  BY <1>6, <1>7, <1>8, <1>9, <1>10 DEF IInv

LEMMA StartAgainKeeps ==
  ASSUME IInv, StartAgain
  PROVE  IInv'
<1>1. /\ ~up /\ up' = TRUE /\ config' = cfgFile /\ rooms' = roomsFile
      /\ UNCHANGED <<sent, confirmed, clock, seen, batch, queues, hand, work, cfgFile, roomsFile, stopping,
                     given, executed, dropped, lost, used>>
  BY DEF StartAgain, telegramVars, fileVars, fateVars
<1>5. HandsOK' /\ HandsFollow'
  <2>1. DOMAIN hand' = Chats /\ \A c \in Chats : hand'[c] = NoHand
    BY <1>1 DEF IInv, TypeOK, HandsOK, HandsFollow
  <2> QED
    BY <2>1 DEF HandsOK, HandsFollow
<1>2. TypeOK'
  <2>1. (work = NoWork \/ WorkOK(work))'
    BY <1>1 DEF IInv, TypeOK, WorkOK, NoWork
  <2> QED
    BY <1>1, <1>5, <2>1 DEF IInv, TypeOK
<1>3. BatchFollows' /\ Accounted'
  BY <1>1, HandsAccounted DEF Kept
<1>4. GivenInOrder' /\ ConfigsAreValid' /\ WorkIsWhole'
  BY <1>1 DEF IInv, GivenInOrder, ConfigsAreValid, WorkIsWhole
<1> QED
  BY <1>2, <1>3, <1>4, <1>5 DEF IInv

-----------------------------------------------------------------------------
(* The invariant holds.                                                     *)

LEMMA IInvInit ==
  ASSUME Init
  PROVE  IInv
<1>1. /\ sent = <<>> /\ confirmed = 0 /\ clock = 0 /\ up = TRUE /\ seen = 0 /\ batch = <<>>
      /\ queues = [c \in Chats |-> <<>>] /\ hand = [c \in Chats |-> NoHand] /\ work = NoWork
      /\ config = InitialConfig /\ cfgFile = InitialConfig
      /\ rooms = [c \in Chats |-> DefaultSettings] /\ roomsFile = rooms
      /\ stopping = FALSE /\ given = <<>> /\ executed = {} /\ dropped = {} /\ lost = {}
      /\ used = [event \in {"stops", "failures"} |-> 0]
  BY DEF Init
<1>2. ConfigOK(InitialConfig)
  BY RestartConstants DEF ConfigOK, PinsOfModels
<1>3. DefaultSettings \in RoomSettings
  BY EmptySeq DEF DefaultSettings, RoomSettings, Modes, NoRole
<1>4. /\ Len(sent) = 0 /\ DOMAIN sent = {} /\ Len(batch) = 0 /\ DOMAIN batch = {} /\ DOMAIN given = {}
  BY <1>1, EmptySeq
<1>9. HandsOK /\ HandsFollow
  BY <1>1 DEF HandsOK, HandsFollow
<1>5. TypeOK
  <2>1. /\ sent \in Seq(Update) /\ batch \in Seq(DOMAIN sent) /\ given \in Seq(Nat)
        /\ queues \in [Chats -> Seq(DOMAIN sent)]
    BY <1>1, EmptySeq
  <2>2. executed \cup dropped \cup lost \subseteq DOMAIN sent
    BY <1>1
  <2> QED
    BY <1>1, <1>2, <1>3, <1>9, <2>1, <2>2 DEF TypeOK, ConfigOK
<1>6. Passed = 0
  BY <1>1, MaxIs DEF Passed
<1>7. BatchFollows /\ Accounted /\ GivenInOrder
  BY <1>4, <1>6 DEF BatchFollows, Accounted, GivenInOrder
<1>8. ConfigsAreValid /\ WorkIsWhole
  BY <1>1, <1>2 DEF ConfigsAreValid, ConfigOK, WorkIsWhole
<1> QED
  BY <1>5, <1>7, <1>8, <1>9 DEF IInv

LEMMA IInvStep ==
  ASSUME IInv, [Next]_vars
  PROVE  IInv'
<1>1. CASE Send
  BY <1>1, SendKeeps
<1>2. CASE Tick
  BY <1>2, TickKeeps
<1>3. CASE PollArrives \/ PollLost
  BY <1>3, PollKeeps
<1>4. CASE LookAtUpdate
  BY <1>4, LookKeeps
<1>5. CASE \E c \in Chats : Take(c)
  BY <1>5, TakeKeeps
<1>6. CASE \E c \in Chats : Route(c)
  BY <1>6, RouteKeeps
<1>12. CASE \E c \in Chats : CarryOut(c)
  BY <1>12, CarryOutKeeps
<1>7. CASE Saved
  BY <1>7, SavedKeeps
<1>8. CASE SaveFails
  BY <1>8, SaveFailsKeeps
<1>9. CASE Stop
  BY <1>9, StopKeeps
<1>10. CASE StartAgain
  BY <1>10, StartAgainKeeps
<1>11. CASE UNCHANGED vars
  <2>1. UNCHANGED <<sent, confirmed, clock, up, seen, batch, queues, hand, work, config, rooms, cfgFile,
                    roomsFile, stopping, given, executed, dropped, lost, used>>
    BY <1>11 DEF vars, telegramVars, memoryVars, fileVars, fateVars
  <2>5. HandsOK' /\ HandsFollow'
    BY <2>1, HandsSame
  <2>2. TypeOK'
    <3>1. (work = NoWork \/ WorkOK(work))'
      BY <2>1 DEF IInv, TypeOK, WorkOK, NoWork
    <3> QED
      BY <2>1, <2>5, <3>1 DEF IInv, TypeOK
  <2>3. BatchFollows' /\ Accounted'
    BY <2>1, HandsAccounted DEF Kept
  <2>4. GivenInOrder' /\ ConfigsAreValid' /\ WorkIsWhole'
    BY <2>1 DEF IInv, GivenInOrder, ConfigsAreValid, WorkIsWhole
  <2> QED
    BY <2>2, <2>3, <2>4, <2>5 DEF IInv
<1> QED
  BY <1>1, <1>2, <1>3, <1>4, <1>5, <1>6, <1>7, <1>8, <1>9, <1>10, <1>11, <1>12 DEF Next, Loop, Work

\* The inductive invariant holds in every reachable state.
THEOREM RestartInvariant == Spec => []IInv
<1>1. Init => IInv
  BY IInvInit
<1>2. IInv /\ [Next]_vars => IInv'
  BY IInvStep
<1> QED
  BY <1>1, <1>2, PTL DEF Spec

\* Updates, queues, commands, configs and settings have the types the code gives them.
THEOREM RestartTypeCorrect == Spec => []TypeOK
<1>1. IInv => TypeOK
  BY DEF IInv
<1> QED
  BY <1>1, RestartInvariant, PTL

\* Whatever is lost, refused or stopped, an update that Telegram has forgotten is in the
\* process's hands, or was answered, dropped, or lost with a process that
\* ended; and a process looks at updates once and in the order they were sent.
THEOREM UpdatesDoNotSlip == Spec => []NothingSlipsOrRepeats
<1>1. IInv => NothingSlipsOrRepeats
  <2> SUFFICES ASSUME IInv
               PROVE  NothingSlipsOrRepeats
    OBVIOUS
  <2>1. ASSUME NEW id \in DOMAIN sent, ~(id > confirmed)
        PROVE  id \in InHand \cup executed \cup dropped \cup lost
    <3>1. DOMAIN sent = 1 .. Len(sent) /\ Len(sent) \in Nat /\ confirmed \in Nat
      BY LenProperties DEF IInv, TypeOK
    <3>2. Passed \in Nat /\ confirmed <= Passed
      BY PassedIs DEF IInv
    <3>3. id \in 1 .. Passed
      BY <2>1, <3>1, <3>2
    <3> QED
      BY <3>3 DEF IInv, Accounted
  <2>2. \A i, j \in DOMAIN given : i < j => given[i] < given[j]
    BY DEF IInv, GivenInOrder
  <2> QED
    BY <2>1, <2>2 DEF NothingSlipsOrRepeats
<1> QED
  BY <1>1, RestartInvariant, PTL

\* No sequence of commands, failed saves and ends of the process leaves a config.toml
\* that load_validated refuses.
THEOREM ConfigsLoadAgain == Spec => []LoadsAgain
<1>1. IInv => LoadsAgain
  BY DEF IInv, ConfigsAreValid, LoadsAgain
<1> QED
  BY <1>1, RestartInvariant, PTL

\* What a worker carries out, and what the poll loop does of its own.
LEMMA OwnersAct ==
  ASSUME IInv, [Next]_vars, up, up'
  PROVE  /\ stopping' /\ ~stopping => \E c \in Chats : Carries(c) /\ FromFreshOwner(hand[c])
         /\ config' # config =>
              \/ \E c \in Chats : Carries(c) /\ FromFreshOwner(hand[c])
              \/ LoopAllows
              \/ work # NoWork /\ config' = work.config
<1>1. ASSUME NEW c \in Chats, CarryOut(c)
      PROVE  (config' # config \/ (stopping' /\ ~stopping)) => Carries(c) /\ FromFreshOwner(hand[c])
  <2> DEFINE h == hand[c]
             a == h.action
  <2>1. /\ h # NoHand /\ Begin(h.id, c, a) /\ stopping' \in StopsAfter(a)
        /\ hand'[c] = NoHand /\ UNCHANGED <<sent, up>>
    BY <1>1 DEF CarryOut, telegramVars
  <2>2. h.id \in DOMAIN sent /\ ActionOK(a, config.models) /\ ConfigOK(config)
    BY <2>1 DEF IInv, TypeOK, HandsOK, HandOK, ConfigsAreValid, ConfigOK
  <2>3. /\ config' = NewConfig(a, c, config)
        /\ work' = NoWork \/ work'.id = h.id
    BY <2>1, <2>2, BeginIs
  <2>4. Carries(c)
    BY <2>1, <2>3 DEF Carries
  <2>5. config' # config \/ (stopping' /\ ~stopping) => a.op \in Privileged
    <3>1. config' # config => a.op \in Privileged
      BY <2>2, <2>3, NewConfigIs
    <3>2. stopping' /\ ~stopping => a.op = "shutdown"
      BY <2>1 DEF StopsAfter
    <3> QED
      BY <3>1, <3>2 DEF Privileged
  <2>6. a.op \in Privileged => FromFreshOwner(h)
    BY <2>1 DEF IInv, HandsFollow
  <2> QED
    BY <2>4, <2>5, <2>6
<1>2. CASE LookAtUpdate
  <2> DEFINE id == Head(batch)
             c == sent[id].chat
  <2>1. batch # <<>> /\ UNCHANGED stopping
    BY <1>2 DEF LookAtUpdate
  <2>2. ASSUME config' # config
        PROVE  LoopAllows
    <3> DEFINE join == [op |-> "join", chat |-> c]
               paired == [op |-> "paired", chat |-> c, user |-> sent[id].sender]
    <3>1. (Joins(id) /\ Begin(id, c, join)) \/ (MayPair(id) /\ Begin(id, c, paired))
      BY <1>2, <2>2 DEF LookAtUpdate, ToWorker, TurnedAway, Approved, memoryVars
    <3>2. \/ Joins(id) /\ config' = NewConfig(join, c, config)
          \/ MayPair(id) /\ config' = NewConfig(paired, c, config)
      BY <3>1 DEF Begin
    <3>3. /\ NewConfig(join, c, config) = [config EXCEPT !.allowed = config.allowed \cup {c}]
          /\ NewConfig(paired, c, config)
               = [config EXCEPT !.allowed = config.allowed \cup {c},
                                !.owners = config.owners \cup ({sent[id].sender} \ {NoName})]
      BY DEF NewConfig
    <3> HIDE DEF join, paired
    <3> QED
      BY <2>1, <3>2, <3>3 DEF LoopAllows
  <2> QED
    BY <2>1, <2>2
<1>3. CASE SaveFails
  <2>1. UNCHANGED stopping /\ work # NoWork
    BY <1>3 DEF SaveFails
  <2>2. config' = work.config \/ config' = config
    BY <1>3 DEF SaveFails
  <2> QED
    BY <2>1, <2>2
<1>4. CASE Stop \/ StartAgain
  BY <1>4 DEF Stop, StartAgain
<1>5. CASE Send \/ Tick \/ PollArrives \/ PollLost \/ (\E c \in Chats : Take(c) \/ Route(c)) \/ Saved
  <2>1. UNCHANGED <<config, stopping>>
    BY <1>5 DEF Send, Tick, PollArrives, PollLost, Take, Route, Saved, memoryVars
  <2> QED
    BY <2>1
<1>6. CASE UNCHANGED vars
  BY <1>6 DEF vars, memoryVars
<1> QED
  BY <1>1, <1>2, <1>3, <1>4, <1>5, <1>6 DEF Next, Loop, Work

\* In every behaviour, only a worker that took a command from an owner while it was fresh ends
\* the process or changes the config, except that the poll loop allows or pairs a chat, and
\* that a refused save is taken back: old commands that are delivered again do not act.
THEOREM OnlyFreshOwnersAct == Spec => OldCommandsDoNotAct
<1>1. IInv /\ [Next]_vars =>
        [ up /\ up' =>
            /\ stopping' /\ ~stopping => \E c \in Chats : Carries(c) /\ FromFreshOwner(hand[c])
            /\ config' # config =>
                 \/ \E c \in Chats : Carries(c) /\ FromFreshOwner(hand[c])
                 \/ LoopAllows
                 \/ work # NoWork /\ config' = work.config ]_vars
  BY OwnersAct
<1> QED
  BY <1>1, RestartInvariant, PTL DEF Spec, OldCommandsDoNotAct

-----------------------------------------------------------------------------
(* Commands carried out twice.                                              *)

\* What owner_gate lets through depends on the sender only.
LEMMA GatedSame ==
  ASSUME NEW x, NEW y, x.access = y.access, NEW action
  PROVE  Gated(x, action) = Gated(y, action)
BY DEF Gated

\* An action that passed the gate, and is not a refusal, is the one that was gated.
LEMMA GatedAction ==
  ASSUME NEW x, x.access \in Verdicts, NEW action, Gated(x, action).op # "reject"
  PROVE  Gated(x, action) = action
<1>1. Reject("OwnerNotAllowed").op = "reject" /\ Reject("OwnerStale").op = "reject"
  BY DEF Reject
<1> HIDE DEF Reject
<1> QED
  BY <1>1 DEF Gated, Verdicts

\* /model pin: the key it names, or the model the room uses.
LEMMA RoutePinSame ==
  ASSUME NEW args, NEW x, NEW y, x.access \in Verdicts, x.access = y.access,
         RoutePin(args, x).op # "reject",
         \A key : RoutePin(args, x) = [op |-> "pin", key |-> key] =>
           key \in y.keys /\ (key = Effective(x) => Effective(y) = key)
  PROVE  RoutePin(args, y) = RoutePin(args, x)
<1> DEFINE key(context) == IF Len(args) > 1 THEN args[2] ELSE Effective(context)
<1>1. CASE key(x) \in x.keys
  <2>1. RoutePin(args, x) = Gated(x, [op |-> "pin", key |-> key(x)])
    BY <1>1 DEF RoutePin
  <2>2. RoutePin(args, x) = [op |-> "pin", key |-> key(x)]
    BY <2>1, GatedAction
  <2>3. key(x) \in y.keys /\ key(x) = key(y)
    BY <2>2
  <2>4. RoutePin(args, y) = Gated(y, [op |-> "pin", key |-> key(x)])
    BY <2>3 DEF RoutePin
  <2> QED
    BY <2>1, <2>4, GatedSame
<1>2. CASE key(x) \notin x.keys
  <2>1. RoutePin(args, x) = Gated(x, Reject("UnknownModel"))
    BY <1>2 DEF RoutePin
  <2>2. RoutePin(args, x) = Reject("UnknownModel")
    BY <2>1, GatedAction
  <2> QED
    BY <2>2 DEF Reject
<1> QED
  BY <1>1, <1>2

\* /model <key>, in a room that is not pinned.
LEMMA RouteSelectSame ==
  ASSUME NEW key, NEW x, NEW y, RouteSelect(key, x).op # "reject",
         RouteSelect(key, x).op = "setModel" => x.pinned = y.pinned /\ x.keys = y.keys
  PROVE  RouteSelect(key, y) = RouteSelect(key, x)
<1>1. CASE x.pinned = NoName /\ key \in x.keys
  <2>1. RouteSelect(key, x) = [op |-> "setModel", key |-> key]
    BY <1>1 DEF RouteSelect
  <2> QED
    BY <1>1, <2>1 DEF RouteSelect
<1>2. CASE ~(x.pinned = NoName /\ key \in x.keys)
  <2>1. RouteSelect(key, x) = Reject("PinnedModel") \/ RouteSelect(key, x) = Reject("UnknownModel")
    BY <1>2 DEF RouteSelect
  <2> QED
    BY <2>1 DEF Reject
<1> QED
  BY <1>1, <1>2

\* /websearch and /imagegen with a word.
LEMMA RouteFeatureSame ==
  ASSUME NEW feature, NEW args, args # <<>>, NEW x, NEW y,
         RouteFeature(feature, args, x).op = "setFeature" => x.can = y.can,
         RouteFeature(feature, args, x).op # "reject"
  PROVE  RouteFeature(feature, args, y) = RouteFeature(feature, args, x)
<1>1. CASE Head(args) # "status" /\ Head(args) \in On \cup Off
  <2> DEFINE on == Head(args) \in On
  <2>1. /\ RouteFeature(feature, args, x) = Gate(feature, on, x)
        /\ RouteFeature(feature, args, y) = Gate(feature, on, y)
    BY <1>1, Zenon DEF RouteFeature
  <2> HIDE DEF on
  <2>2. CASE on /\ feature \notin x.can
    <3>1. Gate(feature, on, x).op = "reject"
      BY <2>2 DEF Gate, Reject
    <3> QED
      BY <2>1, <3>1
  <2>3. CASE ~(on /\ feature \notin x.can)
    <3>1. Gate(feature, on, x).op = "setFeature"
      BY <2>3 DEF Gate
    <3>2. x.can = y.can
      BY <2>1, <3>1
    <3>3. Gate(feature, on, x) = Gate(feature, on, y)
      BY <3>2, Zenon DEF Gate
    <3> QED
      BY <2>1, <3>3
  <2> QED
    BY <2>2, <2>3
<1>2. CASE ~(Head(args) # "status" /\ Head(args) \in On \cup Off)
  BY <1>2 DEF RouteFeature
<1> QED
  BY <1>1, <1>2

\* A text asks for the same in two contexts that agree on what its action looks at.
LEMMA ResolveSame ==
  ASSUME NEW command \in KnownCommands, NEW args, NEW x, NEW y, NEW a,
         a = Resolve(command, args, x), a.op # "reject",
         x.access \in Verdicts, x.access = y.access,
         args = <<>> => command \notin {"websearch", "imagegen"},
         a.op = "pin" => a.key \in y.keys /\ (a.key = Effective(x) => Effective(y) = a.key),
         a.op = "setModel" => x.pinned = y.pinned /\ x.keys = y.keys,
         a.op = "setFeature" => x.can = y.can
  PROVE  Resolve(command, args, y) = a
<1>1. CASE command = "model"
  <2>1. a = RouteModel(args, x) /\ Resolve(command, args, y) = RouteModel(args, y)
    BY <1>1 DEF Resolve
  <2>2. CASE args = <<>>
    BY <2>1, <2>2 DEF RouteModel
  <2>3. CASE args # <<>> /\ Head(args) = "pin"
    <3>1. a = RoutePin(args, x) /\ RouteModel(args, y) = RoutePin(args, y)
      BY <2>1, <2>3 DEF RouteModel
    <3>2. \A key : a = [op |-> "pin", key |-> key] => a.op = "pin" /\ a.key = key
      OBVIOUS
    <3> QED
      BY <2>1, <3>1, <3>2, RoutePinSame
  <2>4. CASE args # <<>> /\ Head(args) = "unpin"
    <3>1. a = Gated(x, [op |-> "unpin"]) /\ RouteModel(args, y) = Gated(y, [op |-> "unpin"])
      BY <2>1, <2>4 DEF RouteModel
    <3> QED
      BY <2>1, <3>1, GatedSame
  <2>5. CASE args # <<>> /\ Head(args) = "add"
    <3>1. a = RouteAdd(args, x) /\ RouteModel(args, y) = RouteAdd(args, y)
      BY <2>1, <2>5 DEF RouteModel
    <3> QED
      BY <2>1, <3>1, GatedSame DEF RouteAdd
  <2>6. CASE args # <<>> /\ Head(args) \notin {"pin", "unpin", "add"}
    <3>1. a = RouteSelect(Head(args), x) /\ RouteModel(args, y) = RouteSelect(Head(args), y)
      BY <2>1, <2>6 DEF RouteModel
    <3> QED
      BY <2>1, <3>1, RouteSelectSame
  <2> QED
    BY <2>2, <2>3, <2>4, <2>5, <2>6
<1>2. CASE command \in {"websearch", "imagegen"}
  <2>1. PICK feature : a = RouteFeature(feature, args, x)
                       /\ Resolve(command, args, y) = RouteFeature(feature, args, y)
    BY <1>2 DEF Resolve
  <2> QED
    BY <1>2, <2>1, RouteFeatureSame
<1>3. CASE command \in {"allow", "deny"}
  <2>1. a = RouteApproval(command, args, x) /\ Resolve(command, args, y) = RouteApproval(command, args, y)
    BY <1>3 DEF Resolve
  <2> QED
    BY <2>1, GatedSame DEF RouteApproval
<1>4. CASE command = "ollama"
  <2>1. a = RouteOllama(args, x) /\ Resolve(command, args, y) = RouteOllama(args, y)
    BY <1>4 DEF Resolve
  <2> QED
    BY <2>1, GatedSame DEF RouteOllama
<1>5. CASE command = "shutdown"
  <2>1. /\ a = Gated(x, [op |-> "shutdown"])
        /\ Resolve(command, args, y) = Gated(y, [op |-> "shutdown"])
    BY <1>5 DEF Resolve
  <2> QED
    BY <2>1, GatedSame
<1>6. CASE command \in {"new", "id", "help", "mode", "role", "reasoning", "pair"}
  BY <1>6 DEF Resolve
<1> QED
  BY <1>1, <1>2, <1>3, <1>4, <1>5, <1>6 DEF KnownCommands

\* Two configs with the same fields are the same.
LEMMA ConfigsEqual ==
  ASSUME NEW a \in Configs, NEW b \in Configs, a.models = b.models, a.allowed = b.allowed,
         a.owners = b.owners, \A k \in Keys, d \in Chats : a.pins[k][d] = b.pins[k][d]
  PROVE  a = b
<1>1. /\ a.pins \in [Keys -> [Chats -> Nat]] /\ b.pins \in [Keys -> [Chats -> Nat]]
      /\ a = [models |-> a.models, pins |-> a.pins, allowed |-> a.allowed, owners |-> a.owners]
      /\ b = [models |-> b.models, pins |-> b.pins, allowed |-> b.allowed, owners |-> b.owners]
  BY DEF Configs
<1>2. ASSUME NEW k \in Keys
      PROVE  a.pins[k] = b.pins[k]
  <2>1. a.pins[k] \in [Chats -> Nat] /\ b.pins[k] \in [Chats -> Nat]
    BY <1>1
  <2> QED
    BY <2>1
<1>3. a.pins = b.pins
  BY <1>1, <1>2
<1> QED
  BY <1>1, <1>3

\* A chat whose pins were released uses no pin, and one that was moved uses that one.
LEMMA PinsAfter ==
  ASSUME NEW cfg \in Configs, NEW c \in Chats
  PROVE  /\ PinOf(Unpinned(cfg, c), c) = NoName
         /\ \A key \in cfg.models : PinOf(PinMoved(cfg, c, key), c) = key
<1>1. cfg.models \subseteq Keys
  BY DEF Configs
<1>2. PinOf(Unpinned(cfg, c), c) = NoName
  <2>1. PinnedTo(Unpinned(cfg, c), c) = {}
    BY <1>1, UnpinnedIs DEF PinnedTo
  <2> QED
    BY <2>1 DEF PinOf
<1>3. ASSUME NEW key \in cfg.models
      PROVE  PinOf(PinMoved(cfg, c, key), c) = key
  <2> DEFINE new == PinMoved(cfg, c, key)
  <2>1. new.models = cfg.models /\ \A k \in Keys : new.pins[k][c] = IF k = key THEN 1 ELSE 0
    BY <1>1, PinMovedIs
  <2> HIDE DEF new
  <2>2. PinnedTo(new, c) = {key}
    BY <1>1, <2>1 DEF PinnedTo
  <2>3. PinOf(new, c) = key
    BY <2>2 DEF PinOf
  <2> QED
    BY <2>3 DEF new
<1> QED
  BY <1>2, <1>3

LEMMA UnpinReleases ==
  ASSUME NEW cfg \in Configs, NEW c \in Chats, NEW a, a.op = "unpin"
  PROVE  PinOf(NewConfig(a, c, cfg), c) = NoName
<1> DEFINE new == NewConfig(a, c, cfg)
<1>1. CASE PinOf(cfg, c) = NoName
  BY <1>1 DEF NewConfig
<1>2. CASE PinOf(cfg, c) # NoName
  <2>1. new = [Unpinned(cfg, c) EXCEPT !.allowed = @ \cup {c}] /\ Unpinned(cfg, c) \in Configs
    BY <1>2, UnpinnedIs DEF NewConfig
  <2>2. new.models = Unpinned(cfg, c).models /\ new.pins = Unpinned(cfg, c).pins
    BY <2>1 DEF Configs
  <2> HIDE DEF new
  <2>3. PinOf(new, c) = PinOf(Unpinned(cfg, c), c)
    BY <2>2 DEF PinOf, PinnedTo
  <2> QED
    BY <2>3, PinsAfter DEF new
<1> QED
  BY <1>1, <1>2

\* The config after an action, with the same action again.
LEMMA ConfigChangesOnce ==
  ASSUME NEW cfg \in Configs, NEW c \in Chats, NEW a, ActionOK(a, cfg.models)
  PROVE  NewConfig(a, c, NewConfig(a, c, cfg)) = NewConfig(a, c, cfg)
<1> DEFINE new == NewConfig(a, c, cfg)
<1>1. cfg.allowed \subseteq Chats /\ cfg.models \subseteq Keys
  BY DEF Configs
<1>2. CASE a.op = "pin"
  <2>1. a.key \in Keys
    BY <1>1, <1>2 DEF ActionOK
  <2>2. new = PinMoved(cfg, c, a.key) /\ NewConfig(a, c, new) = PinMoved(new, c, a.key)
    BY <1>2 DEF NewConfig
  <2> HIDE DEF new
  <2>3. /\ new \in Configs
        /\ \A k \in Keys, d \in Chats :
             new.pins[k][d] = IF d = c THEN (IF k = a.key THEN 1 ELSE 0) ELSE cfg.pins[k][d]
    BY <2>1, <2>2, PinMovedIs
  <2> DEFINE again == PinMoved(new, c, a.key)
  <2>4. /\ again \in Configs /\ again.models = new.models /\ again.allowed = new.allowed
        /\ again.owners = new.owners
        /\ \A k \in Keys, d \in Chats :
             again.pins[k][d] = IF d = c THEN (IF k = a.key THEN 1 ELSE 0) ELSE new.pins[k][d]
    BY <2>1, <2>3, PinMovedIs
  <2> HIDE DEF again
  <2>5. \A k \in Keys, d \in Chats : again.pins[k][d] = new.pins[k][d]
    BY <2>3, <2>4
  <2>6. again = new
    BY <2>3, <2>4, <2>5, ConfigsEqual
  <2> QED
    BY <2>2, <2>6 DEF again, new
<1>3. CASE a.op = "unpin" /\ PinOf(cfg, c) # NoName
  <2>1. PinOf(new, c) = NoName
    BY <1>3, UnpinReleases
  <2> HIDE DEF new
  <2>2. NewConfig(a, c, new) = new
    BY <1>3, <2>1 DEF NewConfig
  <2> QED
    BY <2>2 DEF new
<1>4. CASE a.op = "add" /\ a.key \in Presets
  <2>1. new = [cfg EXCEPT !.models = @ \cup {a.key}] /\ NewConfig(a, c, new) = [new EXCEPT !.models = @ \cup {a.key}]
    BY <1>4 DEF NewConfig
  <2>2. new \in [models : SUBSET (Keys \cup {a.key}), pins : [Keys -> [Chats -> Nat]],
                 allowed : SUBSET Chats, owners : SUBSET STRING]
        /\ a.key \in new.models
    BY <2>1 DEF Configs
  <2> HIDE DEF new
  <2>3. [new EXCEPT !.models = @ \cup {a.key}] = new
    <3>1. new.models \cup {a.key} = new.models
      BY <2>2
    <3> QED
      BY <2>2, <3>1
  <2> QED
    BY <2>1, <2>3 DEF new
<1>5. CASE a.op \in {"allow", "join"}
  <2>1. new = [cfg EXCEPT !.allowed = @ \cup {a.chat}] /\ NewConfig(a, c, new) = [new EXCEPT !.allowed = @ \cup {a.chat}]
    BY <1>5 DEF NewConfig
  <2>2. new \in Configs /\ a.chat \in new.allowed
    <3>1. a.chat \in Chats
      BY <1>5 DEF ActionOK
    <3> HIDE DEF new
    <3> QED
      BY <2>1, <3>1 DEF Configs
  <2> HIDE DEF new
  <2>3. [new EXCEPT !.allowed = @ \cup {a.chat}] = new
    <3>1. new.allowed \cup {a.chat} = new.allowed
      BY <2>2
    <3> QED
      BY <2>2, <3>1 DEF Configs
  <2> QED
    BY <2>1, <2>3 DEF new
<1>8. CASE a.op = "paired"
  <2> DEFINE paired(x) == [x EXCEPT !.allowed = @ \cup {a.chat},
                                    !.owners = @ \cup ({a.user} \ {NoName})]
  <2>1. new = paired(cfg) /\ NewConfig(a, c, new) = paired(new)
    BY <1>8 DEF NewConfig
  <2>2. new \in Configs /\ a.chat \in new.allowed /\ {a.user} \ {NoName} \subseteq new.owners
    <3>1. a.chat \in Chats /\ a.user \in STRING
      BY <1>8 DEF ActionOK
    <3> HIDE DEF new
    <3> QED
      BY <2>1, <3>1 DEF Configs
  <2> HIDE DEF new
  <2>3. paired(new) = new
    <3>1. /\ new.allowed \cup {a.chat} = new.allowed
          /\ new.owners \cup ({a.user} \ {NoName}) = new.owners
      BY <2>2
    <3> QED
      BY <2>2, <3>1 DEF Configs
  <2> QED
    BY <2>1, <2>3 DEF new
<1>6. CASE a.op = "deny"
  <2> DEFINE released(x) == [Unpinned(x, a.chat) EXCEPT !.allowed = @ \ {a.chat}]
  <2>1. new = released(cfg) /\ NewConfig(a, c, new) = released(new)
    BY <1>6 DEF NewConfig
  <2>2. ASSUME NEW x \in Configs
        PROVE  /\ released(x) \in Configs /\ released(x).models = x.models
               /\ released(x).allowed = x.allowed \ {a.chat} /\ released(x).owners = x.owners
               /\ \A k \in Keys, d \in Chats :
                    released(x).pins[k][d] = IF d = a.chat THEN 0 ELSE x.pins[k][d]
    <3> DEFINE u == Unpinned(x, a.chat)
    <3>1. /\ u \in Configs /\ u.models = x.models /\ u.allowed = x.allowed /\ u.owners = x.owners
          /\ \A k \in Keys, d \in Chats : u.pins[k][d] = IF d = a.chat THEN 0 ELSE x.pins[k][d]
      BY UnpinnedIs
    <3> HIDE DEF u
    <3>2. released(x) = [u EXCEPT !.allowed = u.allowed \ {a.chat}]
      BY DEF u
    <3>3. /\ [u EXCEPT !.allowed = u.allowed \ {a.chat}] \in Configs
          /\ [u EXCEPT !.allowed = u.allowed \ {a.chat}].models = u.models
          /\ [u EXCEPT !.allowed = u.allowed \ {a.chat}].pins = u.pins
          /\ [u EXCEPT !.allowed = u.allowed \ {a.chat}].owners = u.owners
          /\ [u EXCEPT !.allowed = u.allowed \ {a.chat}].allowed = u.allowed \ {a.chat}
      BY <3>1 DEF Configs
    <3> HIDE DEF released
    <3> QED
      BY <3>1, <3>2, <3>3
  <2> HIDE DEF new, released
  <2>3. /\ new \in Configs /\ new.allowed = cfg.allowed \ {a.chat}
        /\ \A k \in Keys, d \in Chats : new.pins[k][d] = IF d = a.chat THEN 0 ELSE cfg.pins[k][d]
    BY <2>1, <2>2
  <2>4. /\ released(new) \in Configs /\ released(new).models = new.models
        /\ released(new).allowed = new.allowed \ {a.chat} /\ released(new).owners = new.owners
        /\ \A k \in Keys, d \in Chats : released(new).pins[k][d] = IF d = a.chat THEN 0 ELSE new.pins[k][d]
    BY <2>2, <2>3
  <2>5. released(new).allowed = new.allowed
        /\ \A k \in Keys, d \in Chats : released(new).pins[k][d] = new.pins[k][d]
    BY <2>3, <2>4
  <2>6. released(new) = new
    BY <2>3, <2>4, <2>5, ConfigsEqual
  <2> QED
    BY <2>1, <2>6 DEF new
<1>7. CASE /\ a.op \notin {"pin", "allow", "join", "paired", "deny"}
           /\ ~(a.op = "unpin" /\ PinOf(cfg, c) # NoName)
           /\ ~(a.op = "add" /\ a.key \in Presets)
  <2>1. new = cfg
    BY <1>7 DEF NewConfig
  <2> QED
    BY <2>1
<1> QED
  BY <1>2, <1>3, <1>4, <1>5, <1>6, <1>7, <1>8

\* A setting set twice is set.
LEMMA SettingsChangeOnce ==
  ASSUME NEW room \in RoomSettings, NEW keys \in SUBSET Keys, NEW a, ActionOK(a, keys)
  PROVE  /\ ResetRoomModelContext(ResetRoomModelContext(room)) = ResetRoomModelContext(room)
         /\ a.op \in {"setMode", "setModel"} =>
              ModeOrModelSet(a, ModeOrModelSet(a, room)) = ModeOrModelSet(a, room)
         /\ a.op \in {"setRole", "setThinking", "setFeature"} =>
              SettingSet(a, SettingSet(a, room)) = SettingSet(a, room)
<1>1. room = [model |-> room.model, mode |-> room.mode, role |-> room.role,
              thinking |-> room.thinking, features |-> room.features]
  BY DEF RoomSettings
<1>2. ResetRoomModelContext(ResetRoomModelContext(room)) = ResetRoomModelContext(room)
  BY <1>1 DEF ResetRoomModelContext
<1>3. a.op \in {"setMode", "setModel"} =>
        ModeOrModelSet(a, ModeOrModelSet(a, room)) = ModeOrModelSet(a, room)
  BY <1>1 DEF ModeOrModelSet, ResetRoomModelContext
<1>4. CASE a.op \in {"setRole", "setThinking"}
  BY <1>1, <1>2, <1>3, <1>4 DEF SettingSet
<1>5. CASE a.op = "setFeature"
  <2> DEFINE set(on) == IF a.enabled THEN on \cup {a.feature} ELSE on \ {a.feature}
  <2>1. set(set(room.features)) = set(room.features)
    OBVIOUS
  <2>2. \A r \in RoomSettings : SettingSet(a, r) = [r EXCEPT !.features = set(r.features)]
    BY <1>5 DEF SettingSet
  <2>3. SettingSet(a, room) \in RoomSettings
    BY <1>5, NewRoomIs
  <2> HIDE DEF set
  <2>4. SettingSet(a, room) = [room EXCEPT !.features = set(room.features)]
    BY <2>2
  <2>5. SettingSet(a, room).features = set(room.features)
    BY <1>1, <2>4
  <2>6. SettingSet(a, SettingSet(a, room)) = [SettingSet(a, room) EXCEPT !.features = set(room.features)]
    BY <2>1, <2>2, <2>3, <2>5
  <2> DEFINE new == SettingSet(a, room)
  <2>7. [new EXCEPT !.features = set(room.features)] = new
    BY <1>1, <2>4
  <2> QED
    BY <1>2, <1>3, <1>5, <2>6, <2>7
<1> QED
  BY <1>2, <1>3, <1>4, <1>5

\* The rooms after an action, with the same action again.
LEMMA RoomsChangeOnce ==
  ASSUME NEW cfg \in Configs, NEW rs \in [Chats -> RoomSettings], NEW c \in Chats,
         NEW a, ActionOK(a, cfg.models)
  PROVE  NewRooms(a, c, NewConfig(a, c, cfg), NewRooms(a, c, cfg, rs)) = NewRooms(a, c, cfg, rs)
<1> DEFINE new == NewConfig(a, c, cfg)
           once == NewRooms(a, c, cfg, rs)
<1>1. cfg.models \in SUBSET Keys /\ rs[c] \in RoomSettings
  BY DEF Configs
<1>2. CASE a.op \in {"setMode", "setModel"}
  <2>1. once = [rs EXCEPT ![c] = ModeOrModelSet(a, rs[c])]
        /\ NewRooms(a, c, new, once) = [once EXCEPT ![c] = ModeOrModelSet(a, once[c])]
    BY <1>2 DEF NewRooms
  <2>2. ModeOrModelSet(a, ModeOrModelSet(a, rs[c])) = ModeOrModelSet(a, rs[c])
    BY <1>1, <1>2, SettingsChangeOnce
  <2> HIDE DEF once
  <2> QED
    BY <2>1, <2>2 DEF once
<1>3. CASE a.op \in {"setRole", "setThinking", "setFeature"}
  <2>1. once = [rs EXCEPT ![c] = SettingSet(a, rs[c])]
        /\ NewRooms(a, c, new, once) = [once EXCEPT ![c] = SettingSet(a, once[c])]
    BY <1>3 DEF NewRooms
  <2>2. SettingSet(a, SettingSet(a, rs[c])) = SettingSet(a, rs[c])
    BY <1>1, <1>3, SettingsChangeOnce
  <2> HIDE DEF once
  <2> QED
    BY <2>1, <2>2 DEF once
<1>4. CASE a.op = "pin"
  <2>1. once = [rs EXCEPT ![c] = ResetRoomModelContext(rs[c])]
        /\ NewRooms(a, c, new, once) = [once EXCEPT ![c] = ResetRoomModelContext(once[c])]
    BY <1>4 DEF NewRooms
  <2>2. ResetRoomModelContext(ResetRoomModelContext(rs[c])) = ResetRoomModelContext(rs[c])
    BY <1>1, SettingsChangeOnce
  <2> HIDE DEF once
  <2> QED
    BY <2>1, <2>2 DEF once
<1>5. CASE a.op = "unpin"
  <2>1. PinOf(new, c) = NoName
    BY <1>5, UnpinReleases
  <2> HIDE DEF new, once
  <2>2. NewRooms(a, c, new, once) = once
    BY <1>5, <2>1 DEF NewRooms
  <2> QED
    BY <2>2 DEF new, once
<1>6. CASE a.op = "deny"
  <2>1. once = [rs EXCEPT ![a.chat] = DefaultSettings]
        /\ NewRooms(a, c, new, once) = [once EXCEPT ![a.chat] = DefaultSettings]
    BY <1>6 DEF NewRooms
  <2> HIDE DEF once
  <2> QED
    BY <2>1 DEF once
<1>7. CASE a.op \notin {"setMode", "setModel", "setRole", "setThinking", "setFeature", "pin",
                        "unpin", "deny"}
  <2>1. \A x, y : NewRooms(a, c, x, y) = y
    BY <1>7 DEF NewRooms
  <2> QED
    BY <2>1
<1> QED
  BY <1>2, <1>3, <1>4, <1>5, <1>6, <1>7

\* What a text asks for after it was carried out is what it asked for, or it asked for
\* nothing that changes a config or a room.
LEMMA AskedTwice ==
  ASSUME NEW cfg \in Configs, NEW rs \in [Chats -> RoomSettings], NEW u \in Update,
         ~Toggles(u.text), NEW access \in Verdicts, NEW a, a = ActionOf(u, access, cfg, rs),
         NEW new, new = NewConfig(a, u.chat, cfg), NEW once, once = NewRooms(a, u.chat, cfg, rs)
  PROVE  (new = cfg /\ once = rs) \/ ActionOf(u, access, new, once) = a
<1> DEFINE x == Context(u.chat, access, cfg, rs[u.chat])
           y == Context(u.chat, access, new, once[u.chat])
<1>1. u.chat \in Chats /\ u.text \in Texts
  BY DEF Update
<1>2. ActionOK(a, cfg.models) /\ rs[u.chat] \in RoomSettings
  BY <1>1, ActionOfIs
<1>3. CASE ~IsCommand(u.text)
  BY <1>3 DEF ActionOf
<1>4. CASE a.op = "reject"
  BY <1>4 DEF NewConfig, NewRooms
<1>5. CASE IsCommand(u.text) /\ a.op # "reject"
  <2>1. /\ a = Resolve(u.text.name, u.text.args, x)
        /\ ActionOf(u, access, new, once) = Resolve(u.text.name, u.text.args, y)
    BY <1>5 DEF ActionOf
  <2>2. u.text.name \in KnownCommands
        /\ (u.text.args = <<>> => u.text.name \notin {"websearch", "imagegen"})
    BY <1>5 DEF IsCommand, Toggles
  <2>3. /\ x.access = access /\ x.keys = cfg.models /\ x.pinned = PinOf(cfg, u.chat)
        /\ x.settings = rs[u.chat] /\ x.default = Default
        /\ x.can = IF SelectedModel(cfg, rs[u.chat], u.chat) \in cfg.models
                   THEN Can[SelectedModel(cfg, rs[u.chat], u.chat)] ELSE Features
    BY DEF Context
  <2>4. /\ y.access = access /\ y.keys = new.models /\ y.pinned = PinOf(new, u.chat)
        /\ y.settings = once[u.chat] /\ y.default = Default
        /\ y.can = IF SelectedModel(new, once[u.chat], u.chat) \in new.models
                   THEN Can[SelectedModel(new, once[u.chat], u.chat)] ELSE Features
    BY DEF Context
  <2> HIDE DEF x, y
  <2>5. ASSUME a.op = "pin"
        PROVE  a.key \in y.keys /\ (a.key = Effective(x) => Effective(y) = a.key)
    <3>1. a.key \in cfg.models /\ a.key \in Keys
      BY <1>2, <2>5 DEF ActionOK, Configs
    <3>2. new = PinMoved(cfg, u.chat, a.key)
      BY <2>5 DEF NewConfig
    <3>3. new.models = cfg.models /\ PinOf(new, u.chat) = a.key
      BY <1>1, <3>1, <3>2, PinMovedIs, PinsAfter
    <3>4. once = [rs EXCEPT ![u.chat] = ResetRoomModelContext(rs[u.chat])]
      BY <2>5 DEF NewRooms
    <3>5. once[u.chat] = ResetRoomModelContext(rs[u.chat])
      BY <1>1, <3>4
    <3>6. once[u.chat].model = rs[u.chat].model
      BY <1>2, <3>5 DEF ResetRoomModelContext, RoomSettings
    <3> QED
      BY <2>3, <2>4, <3>1, <3>3, <3>6 DEF Effective
  <2>6. ASSUME a.op = "setModel"
        PROVE  x.pinned = y.pinned /\ x.keys = y.keys
    <3>1. new = cfg
      BY <2>6 DEF NewConfig
    <3> QED
      BY <2>3, <2>4, <3>1
  <2>7. ASSUME a.op = "setFeature"
        PROVE  x.can = y.can
    <3>1. new = cfg
      BY <2>7 DEF NewConfig
    <3>2. once = [rs EXCEPT ![u.chat] = SettingSet(a, rs[u.chat])]
      BY <2>7 DEF NewRooms
    <3>3. once[u.chat] = SettingSet(a, rs[u.chat])
      BY <1>1, <3>2
    <3>4. once[u.chat].model = rs[u.chat].model
      BY <1>2, <2>7, <3>3 DEF SettingSet, RoomSettings
    <3>5. SelectedModel(new, once[u.chat], u.chat) = SelectedModel(cfg, rs[u.chat], u.chat)
      BY <3>1, <3>4 DEF SelectedModel
    <3> QED
      BY <2>3, <2>4, <3>1, <3>5
  <2>8. Resolve(u.text.name, u.text.args, y) = a
    <3> DEFINE command == u.text.name
               args == u.text.args
    <3>1. /\ command \in KnownCommands /\ a = Resolve(command, args, x) /\ a.op # "reject"
          /\ args = <<>> => command \notin {"websearch", "imagegen"}
      BY <1>5, <2>1, <2>2
    <3>2. x.access \in Verdicts /\ x.access = y.access
      BY <2>3, <2>4
    <3>3. /\ a.op = "pin" => a.key \in y.keys /\ (a.key = Effective(x) => Effective(y) = a.key)
          /\ a.op = "setModel" => x.pinned = y.pinned /\ x.keys = y.keys
          /\ a.op = "setFeature" => x.can = y.can
      BY <2>5, <2>6, <2>7
    <3> HIDE DEF command, args
    <3>4. Resolve(command, args, y) = a
      BY <3>1, <3>2, <3>3, ResolveSame
    <3> QED
      BY <3>4 DEF command, args
  <2> QED
    BY <2>1, <2>8
<1> QED
  BY <1>3, <1>4, <1>5

\* A command that a new process gets again, after the old one carried it out, changes
\* neither config nor rooms, whatever else was changed before.
THEOREM RedeliveredOnce == Spec => []RedeliveryIsHarmless
<1>1. ASSUME TypeOK
      PROVE  RedeliveryIsHarmless
  <2>1. ASSUME NEW id \in confirmed + 1 .. Len(sent), ~Toggles(sent[id].text)
        PROVE  LET u == sent[id]
                   once == Carried(u, config, rooms)
               IN  Carried(u, once.config, once.rooms) = once
    <3> DEFINE u == sent[id]
               access == IF u.sender \in Owners THEN "allowed" ELSE "notOwner"
               a == ActionOf(u, access, config, rooms)
               new == NewConfig(a, u.chat, config)
               once == NewRooms(a, u.chat, config, rooms)
               b == ActionOf(u, access, new, once)
    <3>1. u \in Update
      <4>1. confirmed \in Nat /\ sent \in Seq(Update)
        BY <1>1 DEF TypeOK
      <4>2. Len(sent) \in Nat
        BY <4>1, LenProperties
      <4>3. id \in 1 .. Len(sent)
        BY <2>1, <4>1, <4>2
      <4> QED
        BY <4>1, <4>3, ElementOfSeq
    <3>2. u.chat \in Chats /\ u.text \in Texts /\ access \in Verdicts
      BY <3>1 DEF Update, Verdicts
    <3>3. config \in Configs /\ rooms \in [Chats -> RoomSettings]
      BY <1>1 DEF TypeOK
    <3>4. ActionOK(a, config.models)
      BY <3>2, ActionOfIs
    <3>5. /\ Carried(u, config, rooms) = [config |-> new, rooms |-> once]
          /\ Carried(u, new, once) = [config |-> NewConfig(b, u.chat, new), rooms |-> NewRooms(b, u.chat, new, once)]
      BY DEF Carried
    <3>6. NewConfig(a, u.chat, new) = new /\ NewRooms(a, u.chat, new, once) = once
      BY <3>2, <3>3, <3>4, ConfigChangesOnce, RoomsChangeOnce
    <3>7. (new = config /\ once = rooms) \/ b = a
      BY <2>1, <3>1, <3>2, <3>3, AskedTwice
    <3>8. CASE b = a
      BY <3>5, <3>6, <3>8
    <3>9. CASE new = config /\ once = rooms
      <4>1. b = a
        BY <3>9
      <4> QED
        BY <3>5, <3>6, <4>1
    <3> QED
      BY <3>7, <3>8, <3>9
  <2> QED
    BY <2>1 DEF RedeliveryIsHarmless
<1> QED
  BY <1>1, RestartTypeCorrect, PTL

-----------------------------------------------------------------------------
(* Delivery.  Its inductive invariant says where in its text a reply is: what   *)
(* is shown, then what is still to be sent, in a row from the first position    *)
(* to the last.  For that ChunkText must be known to cut a text into such a row;*)
(* its recursion is proved by induction on the characters left, from the        *)
(* library's fact that < is well founded on Nat.                                *)

LEMMA LeastNumber ==
  ASSUME NEW S, S \subseteq Nat, S # {}
  PROVE  \E m \in S : \A n \in S : m <= n
<1>1. PICK m \in S : \A n \in S : ~(<<n, m>> \in OpToRel(<, Nat))
  BY NatLessThanWellFounded, WFMin
<1>2. ASSUME NEW n \in S
      PROVE  m <= n
  <2>1. m \in Nat /\ n \in Nat
    OBVIOUS
  <2>2. n < m => <<n, m>> \in OpToRel(<, Nat)
    BY <2>1 DEF OpToRel
  <2>3. ~(n < m)
    BY <1>1, <2>2
  <2> QED
    BY <2>1, <2>3
<1> QED
  BY <1>2

LEMMA Induction ==
  ASSUME NEW S, 0 \in S, \A n \in Nat : n \in S => n + 1 \in S
  PROVE  \A n \in Nat : n \in S
<1> SUFFICES ASSUME Nat \ S # {}
             PROVE  FALSE
  OBVIOUS
<1>1. PICK m \in Nat \ S : \A n \in Nat \ S : m <= n
  BY LeastNumber
<1>2. m # 0 /\ m - 1 \in Nat /\ m = (m - 1) + 1
  OBVIOUS
<1> QED
  BY <1>1, <1>2

\* The least and the greatest of some positions of a text.
LEMMA Extremes ==
  ASSUME NEW a \in Nat, NEW b \in Nat, NEW S, S \subseteq a .. b, S # {}
  PROVE  /\ Min(S) \in S /\ \A i \in S : Min(S) <= i
         /\ Max(S) \in S /\ \A i \in S : Max(S) >= i
<1>1. \E m \in S : \A i \in S : m <= i
  <2>1. S \subseteq Nat
    OBVIOUS
  <2> QED
    BY <2>1, LeastNumber
<1>2. \E m \in S : \A i \in S : m >= i
  <2> DEFINE down == {b - i : i \in S}
  <2>1. down \subseteq Nat /\ down # {}
    <3>1. \A i \in S : i \in Nat /\ i <= b
      OBVIOUS
    <3>2. \A i \in S : b - i \in Nat
      BY <3>1
    <3>3. PICK i : i \in S
      OBVIOUS
    <3>4. b - i \in down
      BY <3>3
    <3> QED
      BY <3>2, <3>4
  <2>2. PICK l \in down : \A n \in down : l <= n
    BY <2>1, LeastNumber
  <2>3. PICK m \in S : l = b - m
    OBVIOUS
  <2>4. ASSUME NEW i \in S
        PROVE  m >= i
    <3>1. b - i \in down
      OBVIOUS
    <3>2. b - m <= b - i
      BY <2>2, <2>3, <3>1
    <3>3. m \in Nat /\ i \in Nat
      OBVIOUS
    <3> HIDE DEF down
    <3> QED
      BY <3>2, <3>3
  <2> QED
    BY <2>4
<1>3. Min(S) \in S /\ \A i \in S : Min(S) <= i
  BY <1>1 DEF Min
<1>4. Max(S) \in S /\ \A i \in S : Max(S) >= i
  BY <1>2 DEF Max
<1> QED
  BY <1>3, <1>4

\* chunk_text always gets on: a piece is not empty and ends in the text.
LEMMA CutIs ==
  ASSUME NEW text, NEW last \in Nat, NEW i \in Nat, i <= last, NEW size \in Nat \ {0}
  PROVE  \E r \in i .. last : Cut(text, i, last, size) = <<i, r>> /\ r < i + size
<1> DEFINE reach == Min({i + size - 1, last})
           newlines == {j \in i .. reach : text[j] = "newline"}
<1>1. reach \in {i + size - 1, last} /\ reach <= i + size - 1 /\ reach <= last
  <2>1. i + size - 1 \in Nat /\ i + size - 1 + last \in Nat
    OBVIOUS
  <2>2. {i + size - 1, last} \subseteq 0 .. (i + size - 1 + last) /\ {i + size - 1, last} # {}
    BY <2>1
  <2> QED
    BY <2>1, <2>2, Extremes
<1>2. reach \in i .. last /\ reach < i + size
  BY <1>1
<1> HIDE DEF reach
<1>3. Cut(text, i, last, size) =
        IF reach = last \/ newlines = {} \/ Max(newlines) = i
        THEN <<i, reach>> ELSE <<i, Max(newlines)>>
  BY DEF Cut, reach
<1>4. newlines # {} => Max(newlines) \in i .. reach
  <2>1. newlines \subseteq i .. reach /\ reach \in Nat
    BY <1>2
  <2> HIDE DEF newlines
  <2> QED
    BY <2>1, Extremes
<1> HIDE DEF newlines
<1>5. CASE reach = last \/ newlines = {} \/ Max(newlines) = i
  BY <1>2, <1>3, <1>5
<1>6. CASE ~(reach = last \/ newlines = {} \/ Max(newlines) = i)
  BY <1>2, <1>3, <1>4, <1>6
<1> QED
  BY <1>5, <1>6

-----------------------------------------------------------------------------
\* What the recursion of ChunkText says of position i.
CutsFrom(f, text, last, size, i) ==
  IF i > last THEN <<>>
  ELSE <<Cut(text, i, last, size)>> \o f[Cut(text, i, last, size)[2] + 1]

Cuts(f, text, last, size) == f = [i \in Nat |-> CutsFrom(f, text, last, size, i)]

\* The recursion of ChunkText is about a function that exists.
LEMMA CutsExist ==
  ASSUME NEW text, NEW last \in Nat, NEW size \in Nat \ {0}
  PROVE  \E f : Cuts(f, text, last, size)
<1> DEFINE Good(f, n) == \A i \in Nat : i + n > last => f[i] = CutsFrom(f, text, last, size, i)
           S == {n \in Nat : \E f : f = [i \in Nat |-> f[i]] /\ Good(f, n)}
<1>1. 0 \in S
  <2> DEFINE none == [i \in Nat |-> <<>>]
  <2>1. none = [i \in Nat |-> none[i]] /\ Good(none, 0)
    BY DEF CutsFrom
  <2> QED
    BY <2>1
<1>2. ASSUME NEW n \in Nat, n \in S
      PROVE  n + 1 \in S
  <2>1. PICK f : f = [i \in Nat |-> f[i]] /\ Good(f, n)
    BY <1>2
  <2> DEFINE g == [i \in Nat |-> CutsFrom(f, text, last, size, i)]
  <2>2. ASSUME NEW i \in Nat, i + (n + 1) > last
        PROVE  g[i] = CutsFrom(g, text, last, size, i)
    <3>1. CASE i > last
      BY <3>1 DEF CutsFrom
    <3>2. CASE ~(i > last)
      <4>1. PICK r \in i .. last : Cut(text, i, last, size) = <<i, r>>
        BY <3>2, CutIs
      <4>2. r + 1 \in Nat /\ (r + 1) + n > last /\ Cut(text, i, last, size)[2] = r
        BY <2>2, <4>1
      <4>3. g[r + 1] = f[r + 1]
        BY <2>1, <4>2
      <4>4. g[i] = <<Cut(text, i, last, size)>> \o f[r + 1]
        BY <3>2, <4>2 DEF CutsFrom
      <4>5. CutsFrom(g, text, last, size, i) = <<Cut(text, i, last, size)>> \o g[r + 1]
        <5> HIDE DEF g
        <5> QED
          BY <3>2, <4>2 DEF CutsFrom
      <4> QED
        BY <4>3, <4>4, <4>5
    <3> QED
      BY <3>1, <3>2
  <2>3. g = [i \in Nat |-> g[i]]
    OBVIOUS
  <2> HIDE DEF g
  <2> QED
    BY <2>2, <2>3
<1> HIDE DEF S
<1>3. last + 1 \in S
  BY <1>1, <1>2, Induction
<1>4. PICK f : f = [i \in Nat |-> f[i]] /\ Good(f, last + 1)
  BY <1>3 DEF S
<1>5. \A i \in Nat : f[i] = CutsFrom(f, text, last, size, i)
  BY <1>4
<1>6. Cuts(f, text, last, size)
  BY <1>4, <1>5 DEF Cuts
<1> QED
  BY <1>6

\* Pieces that follow each other, none empty, and none longer than a size.
Pieces == Seq(Nat \X Nat)

InARow(s, from, to, size) ==
  /\ s \in Pieces
  /\ \A i \in 1 .. Len(s) :
       /\ s[i][1] <= s[i][2] /\ s[i][2] < s[i][1] + size
       /\ s[i][1] = IF i = 1 THEN from ELSE s[i - 1][2] + 1
  /\ to + 1 = IF s = <<>> THEN from ELSE s[Len(s)][2] + 1

\* A piece in front of a row that follows on it makes a longer row.
LEMMA InARowPrepended ==
  ASSUME NEW s, NEW i \in Nat, NEW r \in Nat, NEW to \in Nat, NEW size \in Nat,
         i <= r, r < i + size, InARow(s, r + 1, to, size)
  PROVE  InARow(<<<<i, r>>>> \o s, i, to, size)
<1> DEFINE p == <<i, r>>
           t == <<p>> \o s
<1>1. p \in Nat \X Nat /\ p[1] = i /\ p[2] = r
  OBVIOUS
<1>2. s \in Seq(Nat \X Nat) /\ Len(s) \in Nat
  BY LenProperties DEF InARow, Pieces
<1> HIDE DEF p
<1>3. <<p>> \in Seq(Nat \X Nat) /\ Len(<<p>>) = 1 /\ <<p>>[1] = p
  BY <1>1
<1>4. /\ t \in Seq(Nat \X Nat) /\ Len(t) = Len(s) + 1 /\ t[1] = p
      /\ \A j \in 2 .. Len(t) : t[j] = s[j - 1]
  BY <1>2, <1>3, ConcatProperties
<1>5. s = <<>> <=> Len(s) = 0
  BY <1>2, EmptySeq
<1> HIDE DEF t
<1>6. ASSUME NEW j \in 1 .. Len(t)
      PROVE  /\ t[j][1] <= t[j][2] /\ t[j][2] < t[j][1] + size
             /\ t[j][1] = IF j = 1 THEN i ELSE t[j - 1][2] + 1
  <2>1. CASE j = 1
    BY <1>1, <1>4, <2>1
  <2>2. CASE j = 2
    <3>4. 2 \in 2 .. Len(t) /\ 1 \in 1 .. Len(s) /\ 2 - 1 = 1
      <4>1. Len(s) \in Nat /\ Len(t) = Len(s) + 1 /\ 2 <= Len(t)
        BY <1>2, <1>4, <2>2
      <4> QED
        BY ONLY <4>1
    <3>1. 1 \in 1 .. Len(s) /\ t[2] = s[1] /\ t[j - 1] = p
      BY <1>4, <2>2, <3>4
    <3>2. s[1][1] <= s[1][2] /\ s[1][2] < s[1][1] + size /\ s[1][1] = r + 1
      BY <3>1 DEF InARow
    <3> QED
      BY <1>1, <2>2, <3>1, <3>2
  <2>3. CASE j > 2
    <3>1. /\ j \in 2 .. Len(t) /\ j - 1 \in 2 .. Len(t)
          /\ j - 1 \in 1 .. Len(s) /\ j - 1 # 1 /\ j # 1
      <4>1. Len(s) \in Nat /\ Len(t) = Len(s) + 1 /\ j \in Int /\ j <= Len(t)
        BY <1>2, <1>4
      <4> QED
        BY ONLY <4>1, <2>3
    <3>3. t[j] = s[j - 1] /\ t[j - 1] = s[(j - 1) - 1]
      BY <1>4, <3>1
    <3>2. /\ s[j - 1][1] <= s[j - 1][2] /\ s[j - 1][2] < s[j - 1][1] + size
          /\ s[j - 1][1] = s[(j - 1) - 1][2] + 1
      BY <3>1 DEF InARow
    <3> QED
      BY <3>1, <3>2, <3>3
  <2> QED
    BY <1>2, <1>4, <2>1, <2>2, <2>3
<1>7. t # <<>> /\ to + 1 = t[Len(t)][2] + 1
  <2>1. t # <<>>
    BY <1>2, <1>4, EmptySeq
  <2>2. CASE s = <<>>
    <3>1. to + 1 = r + 1 /\ Len(t) = 1
      BY <1>4, <1>5, <2>2 DEF InARow
    <3> QED
      BY <1>1, <1>4, <2>1, <3>1
  <2>3. CASE s # <<>>
    <3>1. Len(t) \in 2 .. Len(t) /\ Len(t) - 1 = Len(s)
      BY <1>2, <1>4, <1>5, <2>3
    <3>2. t[Len(t)] = s[Len(s)]
      BY <1>4, <3>1
    <3>3. to + 1 = s[Len(s)][2] + 1
      BY <2>3 DEF InARow
    <3> QED
      BY <2>1, <3>2, <3>3
  <2> QED
    BY <2>2, <2>3
<1>8. InARow(t, i, to, size)
  BY <1>4, <1>6, <1>7 DEF InARow, Pieces
<1> QED
  BY <1>8 DEF t, p

\* A text is cut into pieces that follow each other and cover it.
LEMMA ChunkTextIs ==
  ASSUME NEW text, NEW from \in Nat, NEW to \in Nat, from <= to, NEW size \in Nat \ {0}
  PROVE  InARow(ChunkText(text, <<from, to>>, size), from, to, size)
<1> DEFINE f == CHOOSE g : Cuts(g, text, to, size)
           S == {n \in Nat : \A i \in Nat : i <= to + 1 /\ i + n > to =>
                                          InARow(f[i], i, to, size)}
<1>1. Cuts(f, text, to, size)
  BY CutsExist
<1>2. ChunkText(text, <<from, to>>, size) = f[from]
  BY DEF ChunkText, Cuts, CutsFrom
<1> HIDE DEF f
<1>3. \A i \in Nat : f[i] = CutsFrom(f, text, to, size, i)
  BY <1>1 DEF Cuts
<1>4. 0 \in S
  <2>1. ASSUME NEW i \in Nat, i <= to + 1, i > to
        PROVE  InARow(f[i], i, to, size)
    <3>1. f[i] = <<>> /\ i = to + 1
      <4>1. CutsFrom(f, text, to, size, i) = <<>>
        BY <2>1 DEF CutsFrom
      <4> QED
        BY <1>3, <2>1, <4>1
    <3>2. <<>> \in Pieces /\ Len(<<>>) = 0
      BY DEF Pieces
    <3> QED
      BY <3>1, <3>2 DEF InARow
  <2> QED
    BY <2>1
<1>5. ASSUME NEW n \in Nat, n \in S
      PROVE  n + 1 \in S
  <2>1. ASSUME NEW i \in Nat, i <= to + 1, i + (n + 1) > to
        PROVE  InARow(f[i], i, to, size)
    <3>1. CASE i > to
      <4>1. i + 0 > to /\ i <= to + 1
        BY <2>1, <3>1
      <4> QED
        BY <1>4, <4>1
    <3>2. CASE ~(i > to)
      <4>1. PICK r \in i .. to : Cut(text, i, to, size) = <<i, r>> /\ r < i + size
        BY <3>2, CutIs
      <4>2. r \in Nat /\ i <= r /\ r + 1 \in Nat /\ r + 1 <= to + 1 /\ (r + 1) + n > to
        BY <2>1, <4>1
      <4>3. f[i] = <<<<i, r>>>> \o f[r + 1]
        <5>1. <<i, r>>[2] = r
          OBVIOUS
        <5> QED
          BY <1>3, <3>2, <4>1, <5>1 DEF CutsFrom
      <4>4. InARow(f[r + 1], r + 1, to, size)
        BY <1>5, <4>2
      <4> HIDE DEF S
      <4> QED
        BY <4>1, <4>2, <4>3, <4>4, InARowPrepended
    <3> QED
      BY <3>1, <3>2
  <2> QED
    BY <2>1
<1>6. to + 1 \in S
  <2> HIDE DEF S
  <2> QED
    BY <1>4, <1>5, Induction
<1>7. InARow(f[from], from, to, size)
  <2>1. from <= to + 1 /\ from + (to + 1) > to
    OBVIOUS
  <2> QED
    BY <1>6, <2>1
<1> QED
  BY <1>2, <1>7

LEMMA InARowNotEmpty ==
  ASSUME NEW s, NEW from \in Nat, NEW to \in Nat, from <= to, NEW size, InARow(s, from, to, size)
  PROVE  s # <<>>
BY DEF InARow

\* Once the first piece is done, the others are in a row behind it.
LEMMA InARowTail ==
  ASSUME NEW s, NEW from \in Nat, NEW to \in Nat, NEW size \in Nat, InARow(s, from, to, size),
         s # <<>>
  PROVE  /\ Head(s) \in Nat \X Nat /\ Head(s)[1] = from /\ from <= Head(s)[2]
         /\ InARow(Tail(s), Head(s)[2] + 1, to, size)
         /\ Len(Tail(s)) = Len(s) - 1
<1> DEFINE t == Tail(s)
<1>1. s \in Seq(Nat \X Nat) /\ Len(s) \in Nat /\ Len(s) > 0 /\ 1 \in 1 .. Len(s)
  BY LenProperties, EmptySeq DEF InARow, Pieces
<1>2. /\ t \in Seq(Nat \X Nat) /\ Len(t) = Len(s) - 1
      /\ \A j \in 1 .. Len(t) : t[j] = s[j + 1]
  BY <1>1, HeadTailProperties
<1>3. Head(s) = s[1] /\ s[1] \in Nat \X Nat
  BY <1>1, HeadTailProperties, ElementOfSeq
<1>4. s[1][1] = from /\ s[1][1] <= s[1][2]
  BY <1>1 DEF InARow
<1>5. t = <<>> <=> Len(t) = 0
  BY <1>2, EmptySeq
<1> HIDE DEF t
<1>6. ASSUME NEW j \in 1 .. Len(t)
      PROVE  /\ t[j][1] <= t[j][2] /\ t[j][2] < t[j][1] + size
             /\ t[j][1] = IF j = 1 THEN s[1][2] + 1 ELSE t[j - 1][2] + 1
  <2>1. /\ j + 1 \in 1 .. Len(s) /\ j + 1 # 1 /\ (j + 1) - 1 = j
        /\ (j # 1 => (j - 1 \in 1 .. Len(t) /\ (j - 1) + 1 = j))
    <3>1. Len(s) \in Nat /\ Len(t) = Len(s) - 1 /\ Len(t) \in Int /\ j \in 1 .. Len(t)
      BY <1>1, <1>2
    <3> QED
      BY ONLY <3>1
  <2>4. t[j] = s[j + 1]
    BY <1>2
  <2>2. /\ s[j + 1][1] <= s[j + 1][2] /\ s[j + 1][2] < s[j + 1][1] + size
        /\ s[j + 1][1] = s[j][2] + 1
    BY <2>1 DEF InARow
  <2>3. j # 1 => t[j - 1] = s[j]
    BY <1>2, <2>1
  <2> QED
    BY <2>2, <2>3, <2>4
<1>7. to + 1 = IF t = <<>> THEN s[1][2] + 1 ELSE t[Len(t)][2] + 1
  <2>1. to + 1 = s[Len(s)][2] + 1
    BY DEF InARow
  <2>2. t # <<>> => Len(t) \in 1 .. Len(t) /\ Len(t) + 1 = Len(s)
    BY <1>1, <1>2, <1>5
  <2>3. t = <<>> => Len(s) = 1
    BY <1>1, <1>2, <1>5
  <2> QED
    BY <1>2, <2>1, <2>2, <2>3
<1>8. InARow(t, s[1][2] + 1, to, size)
  BY <1>2, <1>6, <1>7 DEF InARow, Pieces
<1> QED
  BY <1>2, <1>3, <1>4, <1>8 DEF t

-----------------------------------------------------------------------------
(* The inductive invariant.                                                 *)

Starts(k) == Trimmed(Body(k))[1]
Ends(k) == Trimmed(Body(k))[2]

\* The position after what has been shown of a reply.
NextOf(k) == IF shown[k] = <<>> THEN Starts(k) ELSE shown[k][Len(shown[k])][2] + 1

\* A reply on its way: its pieces, those of a piece that is cut again, and the form.
Outgoing == [kind : Kinds, rich : Pieces, legacy : Pieces, form : {"rich", "html", "plain", "failed"}]

MessageTyped ==
  /\ input \in Inputs /\ answer \in Answers
  /\ out \in Outgoing \cup {NoReply} /\ error \in Errors
  /\ attempted \subseteq Kinds
  /\ shown \in [Kinds -> Pieces]

\* What has been downloaded is as large as it was sent, and fits.
Downloaded ==
  /\ parts \in Seq(Nat) /\ Len(parts) <= Len(input)
  /\ \A i \in 1 .. Len(parts) : parts[i] = input[i].bytes
  /\ buffer \in 0 .. MaxBytes \cup {Unknown}

\* Nothing is asked, and nothing answered, before all of it has been.
AskedWhole ==
  pc \in {"ask", "photos"} \/ (pc = "sending" /\ out.kind \in {"notice", "answer"}) =>
    Len(parts) = Len(input)

\* Which replies may have been begun before this one.
BeforeIt(kind) ==
  CASE kind = "notice" -> {}
    [] kind \in {"answer", "providerError"} -> {"notice"}
    [] kind = "picker" -> {}
    [] kind = "failure" -> {"notice", "answer", "picker"}

InTurn ==
  /\ pc \in {"download", "status"} => attempted = {}
  /\ pc = "ask" => attempted \subseteq {"notice"}
  /\ pc = "sending" => /\ out.kind \in attempted
                       /\ attempted \ {out.kind} \subseteq BeforeIt(out.kind)
  /\ pc = "photos" => "answer" \in attempted /\ attempted \subseteq {"notice", "answer"}
  /\ \A k \in Kinds \ attempted : shown[k] = <<>>

\* What is shown of every reply follows on, from its first position.
ShownInARow ==
  \A k \in Kinds : \A i \in 1 .. Len(shown[k]) :
    shown[k][i][1] = IF i = 1 THEN Starts(k) ELSE shown[k][i - 1][2] + 1

\* What is still to be sent begins where the shown ends, and goes to the end.
Rest(o, from, to) ==
  /\ o \in Outgoing
  /\ o.form = "rich" => o.legacy = <<>> /\ InARow(o.rich, from, to, RichSize)
  /\ o.form \in {"html", "plain"} =>
       /\ o.rich # <<>> /\ o.legacy # <<>>
       /\ Head(o.rich) \in Nat \X Nat
       /\ InARow(o.legacy, from, Head(o.rich)[2], TextSize)
       /\ InARow(Tail(o.rich), Head(o.rich)[2] + 1, to, RichSize)
  /\ o.form = "failed" => o.rich = <<>>

RestInARow == pc = "sending" => Rest(out, NextOf(out.kind), Ends(out.kind))

WholeText ==
  Blank(answer.text) \/
    (shown["answer"] # <<>> /\ Last(shown["answer"])[2] = Trimmed(answer.text)[2])

PhotosFollow ==
  /\ photos \in Seq({"image", "broken"}) /\ Len(photos) <= Len(answer.images)
  /\ \A i \in 1 .. Len(photos) : photos[i] = answer.images[i]
  /\ pc = "photos" => WholeText

DeliveryInv ==
  /\ MessageTyped /\ Downloaded /\ AskedWhole
  /\ pc \in {"download", "status", "ask", "sending", "photos", "done", "dropped"}
  /\ InTurn /\ ShownInARow /\ RestInARow /\ PhotosFollow
  /\ AnsweredOrTold

-----------------------------------------------------------------------------
\* Every reply has something to show, and so a first and a last position.
LEMMA TextsAre ==
  ASSUME answer \in Answers, NEW k \in Kinds
  PROVE  Starts(k) \in Nat /\ Ends(k) \in Nat /\ Starts(k) <= Ends(k)
<1> DEFINE b == Body(k)
           inked == {i \in DOMAIN b : b[i] # "newline"}
<1>1. answer.text \in Seq(Characters) /\ PickerText \in Seq(Characters)
  BY DeliveryConstants
<1>2. b \in Seq(Characters) /\ inked # {}
  <2>1. CASE k = "answer" /\ ~Blank(answer.text)
    <3>1. b = answer.text
      BY <2>1 DEF Body
    <3> QED
      BY <1>1, <2>1, <3>1 DEF Blank
  <2>2. CASE k = "picker"
    <3>1. b = PickerText
      BY <2>2 DEF Body
    <3> QED
      BY <1>1, <3>1, DeliveryConstants
  <2>3. CASE ~(k = "answer" /\ ~Blank(answer.text)) /\ k # "picker"
    <3>1. b = <<"letter">>
      BY <2>3 DEF Body
    <3>2. <<"letter">> \in Seq(Characters) /\ 1 \in DOMAIN <<"letter">> /\ <<"letter">>[1] # "newline"
      BY DEF Characters
    <3> HIDE DEF b
    <3> QED
      BY <3>1, <3>2
  <2> QED
    BY <2>1, <2>2, <2>3
<1>3. DOMAIN b = 1 .. Len(b) /\ Len(b) \in Nat
  BY <1>2, LenProperties
<1>4. Trimmed(Body(k)) = <<Min(inked), Max(inked)>>
  BY DEF Trimmed
<1> HIDE DEF b
<1>5. inked \subseteq 1 .. Len(b)
  BY <1>3
<1> HIDE DEF inked
<1>6. Min(inked) \in inked /\ Max(inked) \in inked /\ Min(inked) <= Max(inked)
  <2>1. 1 \in Nat
    OBVIOUS
  <2>2. Min(inked) \in inked /\ Max(inked) \in inked /\ \A i \in inked : Min(inked) <= i
    BY <1>2, <1>3, <1>5, <2>1, Extremes
  <2>3. Min(inked) <= Max(inked)
    BY ONLY <2>2
  <2> QED
    BY <2>2, <2>3
<1>7. Min(inked) \in Nat /\ Max(inked) \in Nat
  <2>1. inked \subseteq Nat
    BY <1>3, <1>5
  <2>2. Min(inked) \in inked /\ Max(inked) \in inked
    BY <1>6
  <2> QED
    BY ONLY <2>1, <2>2
<1> QED
  BY <1>4, <1>6, <1>7 DEF Starts, Ends

\* A reply is begun with its whole text to send.
LEMMA ReplyIs ==
  ASSUME DeliveryInv, NEW k \in Kinds, k \notin attempted, Reply(k),
         attempted \subseteq BeforeIt(k), answer' = answer, shown' = shown
  PROVE  /\ pc' = "sending" /\ out'.kind = k /\ error' \in Errors
         /\ attempted' = attempted \cup {k}
         /\ InTurn' /\ ShownInARow' /\ RestInARow'
<1>1. answer \in Answers /\ shown[k] = <<>> /\ shown \in [Kinds -> Pieces] /\ attempted \subseteq Kinds
  BY DEF DeliveryInv, MessageTyped, InTurn
<1>2. Starts(k) \in Nat /\ Ends(k) \in Nat /\ Starts(k) <= Ends(k)
  BY <1>1, TextsAre
<1>3. \A j : Body(j)' = Body(j)
  BY DEF Body
<1>4. \A j : Starts(j)' = Starts(j) /\ Ends(j)' = Ends(j) /\ NextOf(j)' = NextOf(j)
  BY <1>3 DEF Starts, Ends, NextOf
<1> DEFINE r == ChunkText(Body(k), Trimmed(Body(k)), RichSize)
<1>5. InARow(r, Starts(k), Ends(k), RichSize) /\ r \in Pieces
  <2>1. Trimmed(Body(k)) = <<Starts(k), Ends(k)>>
    BY DEF Starts, Ends, Trimmed
  <2>2. RichSize \in Nat \ {0}
    BY DeliveryConstants
  <2>3. InARow(r, Starts(k), Ends(k), RichSize)
    BY <1>2, <2>1, <2>2, ChunkTextIs
  <2> QED
    BY <2>3 DEF InARow
<1>6. out' = [kind |-> k, rich |-> r, legacy |-> <<>>, form |-> "rich"]
  BY DEF Reply, Sending
<1> HIDE DEF r
<1>7. /\ pc' = "sending" /\ attempted' = attempted \cup {k} /\ error' = "none"
  BY DEF Reply
<1>8. /\ out'.kind = k /\ out'.rich = r /\ out'.legacy = <<>> /\ out'.form = "rich"
      /\ out' \in Outgoing
  <2>1. <<>> \in Pieces
    BY DEF Pieces
  <2> QED
    BY <1>5, <1>6, <2>1 DEF Outgoing
<1>9. InTurn'
  <2>1. \A j \in Kinds \ attempted' : shown'[j] = <<>>
    BY <1>7 DEF DeliveryInv, InTurn
  <2>2. out'.kind \in attempted' /\ attempted' \ {out'.kind} \subseteq BeforeIt(out'.kind)
    BY <1>7, <1>8
  <2> QED
    BY <1>7, <2>1, <2>2 DEF InTurn, BeforeIt
<1>10. ShownInARow'
  BY <1>4 DEF DeliveryInv, ShownInARow
<1>11. RestInARow'
  <2>1. NextOf(k)' = Starts(k) /\ Ends(k)' = Ends(k)
    BY <1>1, <1>4 DEF NextOf
  <2>2. InARow(out'.rich, NextOf(out.kind)', Ends(out.kind)', RichSize)
    BY <1>5, <1>8, <2>1
  <2>3. Rest(out', NextOf(out.kind)', Ends(out.kind)')
    BY <1>8, <2>2 DEF Rest
  <2> QED
    BY <2>3 DEF RestInARow
<1> QED
  BY <1>7, <1>8, <1>9, <1>10, <1>11 DEF Errors

\* While no reply changes, nor what is shown, what follows on still does.
LEMMA SameTexts ==
  ASSUME DeliveryInv, answer' = answer, shown' = shown
  PROVE  /\ ShownInARow'
         /\ \A k : /\ Starts(k)' = Starts(k) /\ Ends(k)' = Ends(k)
                   /\ NextOf(k)' = NextOf(k)
         /\ WholeText' = WholeText
         /\ out' = out /\ (pc' = "sending" => pc = "sending") => RestInARow'
         /\ attempted' = attempted => \A k \in Kinds \ attempted' : shown'[k] = <<>>
<1>1. \A j : Body(j)' = Body(j)
  BY DEF Body
<1>2. \A j : Starts(j)' = Starts(j) /\ Ends(j)' = Ends(j) /\ NextOf(j)' = NextOf(j)
  BY <1>1 DEF Starts, Ends, NextOf
<1>3. ShownInARow'
  BY <1>2 DEF DeliveryInv, ShownInARow
<1>4. out' = out /\ (pc' = "sending" => pc = "sending") => RestInARow'
  BY <1>2 DEF DeliveryInv, RestInARow
<1>5. attempted' = attempted => \A k \in Kinds \ attempted' : shown'[k] = <<>>
  BY DEF DeliveryInv, InTurn
<1>6. WholeText' = WholeText
  BY DEF WholeText
<1> QED
  BY <1>2, <1>3, <1>4, <1>5, <1>6

\* A download goes on, or ends the turn with the reply that says so.
LEMMA DownloadKeeps ==
  ASSUME DeliveryInv, pc = "download", Downloaded', UNCHANGED <<input, answer, screenVars>>,
         UNCHANGED <<pc, out, attempted, error>> \/ Reply("failure")
  PROVE  DeliveryInv'
<1>1. answer' = answer /\ shown' = shown /\ input' = input /\ photos' = photos
  BY DEF screenVars
<1>2. attempted = {} /\ attempted \subseteq Kinds
  BY DEF DeliveryInv, InTurn, MessageTyped
<1>3. CASE UNCHANGED <<pc, out, attempted, error>>
  <2>1. MessageTyped'
    BY <1>1, <1>3 DEF DeliveryInv, MessageTyped
  <2>2. AskedWhole' /\ AnsweredOrTold'
    BY <1>3 DEF AskedWhole, AnsweredOrTold
  <2>3. ShownInARow' /\ RestInARow' /\ \A k \in Kinds \ attempted' : shown'[k] = <<>>
    BY <1>1, <1>3, SameTexts
  <2>4. InTurn'
    BY <1>2, <1>3, <2>3 DEF InTurn
  <2>5. PhotosFollow'
    BY <1>1, <1>3 DEF DeliveryInv, PhotosFollow
  <2> QED
    BY <1>3, <2>1, <2>2, <2>3, <2>4, <2>5 DEF DeliveryInv
<1>4. CASE Reply("failure")
  <2>1. /\ pc' = "sending" /\ out'.kind = "failure" /\ error' \in Errors
        /\ attempted' = attempted \cup {"failure"}
        /\ InTurn' /\ ShownInARow' /\ RestInARow'
    <3>1. "failure" \in Kinds /\ "failure" \notin attempted /\ attempted \subseteq BeforeIt("failure")
      BY <1>2 DEF Kinds
    <3> QED
      BY <1>1, <1>4, <3>1, ReplyIs
  <2>2. MessageTyped'
    BY <1>1, <2>1 DEF DeliveryInv, MessageTyped, Kinds, RestInARow, Rest
  <2>3. AskedWhole' /\ AnsweredOrTold'
    BY <2>1 DEF AskedWhole, AnsweredOrTold
  <2>4. PhotosFollow'
    BY <1>1, <2>1 DEF DeliveryInv, PhotosFollow
  <2> QED
    BY <2>1, <2>2, <2>3, <2>4 DEF DeliveryInv
<1> QED
  BY <1>3, <1>4

\* What is known of the attachment that is being downloaded.
LEMMA AttachmentIs ==
  ASSUME DeliveryInv, Downloading
  PROVE  /\ pc = "download" /\ Len(parts) + 1 \in 1 .. Len(input) /\ Len(parts) \in Nat
         /\ Attachment.bytes \in Nat /\ Attachment = input[Len(parts) + 1]
         /\ MaxBytes \in Nat \ {0} /\ Unknown \notin Nat
         /\ parts \in Seq(Nat) /\ buffer \in 0 .. MaxBytes \cup {Unknown}
<1> DEFINE F == [announced : Nat \cup {Unknown}, length : Nat \cup {Unknown}, bytes : Nat]
<1>1. input \in Seq(F)
  BY DeliveryConstants DEF DeliveryInv, MessageTyped
<1>2. pc = "download" /\ Len(parts) < Len(input) /\ parts \in Seq(Nat) /\ Len(parts) \in Nat
  BY LenProperties DEF Downloading, DeliveryInv, Downloaded
<1> HIDE DEF F
<1>3. Len(input) \in Nat
  BY <1>1, LenProperties
<1>4. Len(parts) + 1 \in 1 .. Len(input)
  BY <1>2, <1>3
<1>5. Attachment \in F
  BY <1>1, <1>4, ElementOfSeq DEF Attachment
<1>6. Attachment.bytes \in Nat
  BY <1>5 DEF F
<1> QED
  BY <1>2, <1>4, <1>6, DeliveryConstants DEF Attachment, Unknown, DeliveryInv, Downloaded

LEMMA AskForFileKeeps ==
  ASSUME DeliveryInv, AskForFile
  PROVE  DeliveryInv'
<1>1. pc = "download" /\ UNCHANGED <<input, answer, screenVars>> /\ parts' = parts
  BY DEF AskForFile, Downloading
<1>2. CASE buffer' = 0 /\ UNCHANGED <<pc, out, attempted, error>>
  <2>1. Downloaded'
    BY <1>1, <1>2, DeliveryConstants DEF DeliveryInv, Downloaded
  <2> QED
    BY <1>1, <1>2, <2>1, DownloadKeeps
<1>3. CASE DownloadFails
  <2>1. Downloaded'
    BY <1>1, <1>3 DEF DeliveryInv, Downloaded, DownloadFails
  <2> QED
    BY <1>1, <1>3, <2>1, DownloadKeeps DEF DownloadFails
<1> QED
  BY <1>2, <1>3 DEF AskForFile

LEMMA ReadChunkKeeps ==
  ASSUME DeliveryInv, ReadChunk
  PROVE  DeliveryInv'
<1>1. /\ pc = "download" /\ UNCHANGED <<input, answer, screenVars>> /\ parts' = parts
      /\ Downloading /\ buffer # Unknown
  BY DEF ReadChunk, Downloading
<1>2. PICK chunk \in 1 .. Attachment.bytes - buffer :
        \/ Fits(chunk) /\ buffer' = buffer + chunk /\ UNCHANGED <<pc, out, attempted, error>>
        \/ ~Fits(chunk) /\ DownloadFails
  BY DEF ReadChunk
<1>3. CASE Fits(chunk) /\ buffer' = buffer + chunk /\ UNCHANGED <<pc, out, attempted, error>>
  <2>1. buffer \in Nat /\ MaxBytes \in Nat /\ Attachment.bytes \in Nat
    BY <1>1, AttachmentIs
  <2>2. chunk \in Nat /\ buffer + chunk <= MaxBytes
    BY <1>2, <1>3, <2>1 DEF Fits
  <2>3. buffer' \in 0 .. MaxBytes
    BY <1>3, <2>1, <2>2
  <2>4. Downloaded'
    BY <1>1, <2>3 DEF DeliveryInv, Downloaded
  <2> QED
    BY <1>1, <1>3, <2>4, DownloadKeeps
<1>4. CASE DownloadFails
  <2>1. Downloaded'
    BY <1>1, <1>4 DEF DeliveryInv, Downloaded, DownloadFails
  <2> QED
    BY <1>1, <1>4, <2>1, DownloadKeeps DEF DownloadFails
<1> QED
  BY <1>2, <1>3, <1>4

LEMMA FileDoneKeeps ==
  ASSUME DeliveryInv, FileDone
  PROVE  DeliveryInv'
<1>1. /\ pc = "download" /\ UNCHANGED <<input, answer, screenVars>>
      /\ Downloading /\ buffer = Attachment.bytes
  BY DEF FileDone, Downloading
<1>2. CASE /\ parts' = Append(parts, buffer) /\ buffer' = Unknown
           /\ UNCHANGED <<pc, out, attempted, error>>
  <2>1. /\ buffer \in Nat /\ parts \in Seq(Nat) /\ Len(parts) \in Nat /\ Len(parts) + 1 <= Len(input)
        /\ buffer = input[Len(parts) + 1].bytes /\ Len(input) \in Int
    BY <1>1, AttachmentIs, LenProperties, DeliveryConstants DEF DeliveryInv, MessageTyped
  <2>2. /\ parts' \in Seq(Nat) /\ Len(parts') = Len(parts) + 1
        /\ \A i \in 1 .. Len(parts) : parts'[i] = parts[i]
        /\ parts'[Len(parts) + 1] = buffer
    BY <1>2, <2>1, AppendProperties
  <2>3. ASSUME NEW i \in 1 .. Len(parts')
        PROVE  parts'[i] = input[i].bytes
    <3>1. i \in 1 .. Len(parts) \/ i = Len(parts) + 1
      BY <2>1, <2>2
    <3> QED
      BY <2>1, <2>2, <3>1 DEF DeliveryInv, Downloaded
  <2>4. Downloaded'
    BY <1>1, <1>2, <2>1, <2>2, <2>3 DEF Downloaded
  <2> QED
    BY <1>1, <1>2, <2>4, DownloadKeeps
<1>3. CASE DownloadFails /\ UNCHANGED parts
  <2>1. Downloaded'
    BY <1>1, <1>3 DEF DeliveryInv, Downloaded, DownloadFails
  <2> QED
    BY <1>1, <1>3, <2>1, DownloadKeeps DEF DownloadFails
<1> QED
  BY <1>2, <1>3 DEF FileDone

LEMMA DownloadBreaksKeeps ==
  ASSUME DeliveryInv, DownloadBreaks
  PROVE  DeliveryInv'
<1>1. /\ pc = "download" /\ UNCHANGED <<input, answer, screenVars>> /\ parts' = parts
      /\ DownloadFails
  BY DEF DownloadBreaks, Downloading
<1>2. Downloaded'
  BY <1>1 DEF DeliveryInv, Downloaded, DownloadFails
<1> QED
  BY <1>1, <1>2, DownloadKeeps DEF DownloadFails

LEMMA PrepareKeeps ==
  ASSUME DeliveryInv, Prepare
  PROVE  DeliveryInv'
<1>1. /\ pc = "download" /\ Len(parts) = Len(input)
      /\ input' = input /\ answer' = answer /\ parts' = parts /\ buffer' = buffer
      /\ shown' = shown /\ photos' = photos
  BY DEF Prepare, downloadVars, screenVars
<1>2. attempted = {} /\ attempted \subseteq Kinds
  BY <1>1 DEF DeliveryInv, InTurn, MessageTyped
<1>3. Downloaded'
  BY <1>1 DEF DeliveryInv, Downloaded
<1>4. CASE pc' = "ask" /\ UNCHANGED <<out, attempted, error>>
  <2>1. MessageTyped'
    BY <1>1, <1>4 DEF DeliveryInv, MessageTyped
  <2>2. AskedWhole' /\ AnsweredOrTold'
    BY <1>1, <1>4 DEF AskedWhole, AnsweredOrTold
  <2>3. ShownInARow' /\ RestInARow' /\ \A k \in Kinds \ attempted' : shown'[k] = <<>>
    BY <1>1, <1>4, SameTexts
  <2>4. InTurn'
    BY <1>2, <1>4, <2>3 DEF InTurn
  <2>5. PhotosFollow'
    BY <1>1, <1>4 DEF DeliveryInv, PhotosFollow
  <2> QED
    BY <1>3, <1>4, <2>1, <2>2, <2>3, <2>4, <2>5 DEF DeliveryInv
<1>5. ASSUME NEW k \in {"notice", "failure"}, Reply(k)
      PROVE  DeliveryInv'
  <2>1. k \in Kinds /\ k \notin attempted /\ attempted \subseteq BeforeIt(k)
    BY <1>2 DEF Kinds
  <2>2. /\ pc' = "sending" /\ out'.kind = k /\ error' \in Errors
        /\ attempted' = attempted \cup {k}
        /\ InTurn' /\ ShownInARow' /\ RestInARow'
    BY <1>1, <1>5, <2>1, ReplyIs
  <2>3. MessageTyped'
    BY <1>1, <2>1, <2>2 DEF DeliveryInv, MessageTyped, RestInARow, Rest
  <2>4. AskedWhole' /\ AnsweredOrTold'
    BY <1>1, <2>2 DEF AskedWhole, AnsweredOrTold
  <2>5. PhotosFollow'
    BY <1>1, <2>2 DEF DeliveryInv, PhotosFollow
  <2> QED
    BY <1>3, <2>2, <2>3, <2>4, <2>5 DEF DeliveryInv
<1> QED
  BY <1>4, <1>5 DEF Prepare

LEMMA ProviderAnswersKeeps ==
  ASSUME DeliveryInv, ProviderAnswers
  PROVE  DeliveryInv'
<1>1. /\ pc = "ask"
      /\ input' = input /\ answer' = answer /\ parts' = parts /\ buffer' = buffer
      /\ shown' = shown /\ photos' = photos
  BY DEF ProviderAnswers, downloadVars, screenVars
<1>2. attempted \subseteq {"notice"} /\ attempted \subseteq Kinds /\ Len(parts) = Len(input)
  BY <1>1 DEF DeliveryInv, InTurn, MessageTyped, AskedWhole
<1>3. Downloaded'
  BY <1>1 DEF DeliveryInv, Downloaded
<1>4. CASE /\ pc' \in {"photos", "dropped"} /\ UNCHANGED <<out, error>>
           /\ attempted' = attempted \cup (IF pc' = "photos" THEN {"answer"} ELSE {})
           /\ pc' = "photos" => ~HasText
  <2>1. MessageTyped'
    BY <1>1, <1>4 DEF DeliveryInv, MessageTyped, Kinds
  <2>2. AskedWhole' /\ AnsweredOrTold'
    BY <1>1, <1>2, <1>4 DEF AskedWhole, AnsweredOrTold
  <2>3. ShownInARow' /\ RestInARow' /\ WholeText' = WholeText
    BY <1>1, <1>4, SameTexts
  <2>4. \A k \in Kinds \ attempted' : shown'[k] = <<>>
    BY <1>1, <1>4 DEF DeliveryInv, InTurn
  <2>5. InTurn'
    BY <1>2, <1>4, <2>4 DEF InTurn
  <2>6. PhotosFollow'
    <3>1. pc' = "photos" => WholeText
      BY <1>4 DEF HasText, WholeText
    <3>2. pc' = "photos" => WholeText'
      BY <2>3, <3>1
    <3>3. /\ photos' \in Seq({"image", "broken"}) /\ Len(photos') <= Len(answer'.images)
          /\ \A i \in 1 .. Len(photos') : photos'[i] = answer'.images[i]
      BY <1>1 DEF DeliveryInv, PhotosFollow
    <3> QED
      BY <3>2, <3>3 DEF PhotosFollow
  <2> QED
    BY <1>3, <1>4, <2>1, <2>2, <2>3, <2>5, <2>6 DEF DeliveryInv
<1>5. ASSUME NEW k \in {"answer", "providerError"}, Reply(k)
      PROVE  DeliveryInv'
  <2>1. k \in Kinds /\ k \notin attempted /\ attempted \subseteq BeforeIt(k)
    BY <1>2 DEF Kinds, BeforeIt
  <2>2. /\ pc' = "sending" /\ out'.kind = k /\ error' \in Errors
        /\ attempted' = attempted \cup {k}
        /\ InTurn' /\ ShownInARow' /\ RestInARow'
    BY <1>1, <1>5, <2>1, ReplyIs
  <2>3. MessageTyped'
    BY <1>1, <2>1, <2>2 DEF DeliveryInv, MessageTyped, RestInARow, Rest
  <2>4. AskedWhole' /\ AnsweredOrTold'
    BY <1>1, <1>2, <2>2 DEF AskedWhole, AnsweredOrTold
  <2>5. PhotosFollow'
    BY <1>1, <2>2 DEF DeliveryInv, PhotosFollow
  <2> QED
    BY <1>3, <2>2, <2>3, <2>4, <2>5 DEF DeliveryInv
<1>6. \/ Reply("answer") \/ Reply("providerError")
      \/ ~HasText /\ pc' = "photos" /\ attempted' = attempted \cup {"answer"} /\ UNCHANGED <<out, error>>
      \/ pc' = "dropped" /\ UNCHANGED <<out, attempted, error>>
  BY DEF ProviderAnswers
<1> QED
  BY <1>4, <1>5, <1>6

-----------------------------------------------------------------------------
\* A request for a piece of the reply is due.
HasPiece == (out.form = "rich" /\ out.rich # <<>>) \/ out.form \in {"html", "plain"}

\* The piece that is sent follows on what is shown.
LEMMA PieceIs ==
  ASSUME DeliveryInv, pc = "sending", HasPiece
  PROVE  /\ Piece \in Nat \X Nat /\ Piece[1] = NextOf(out.kind) /\ Piece[1] <= Piece[2]
         /\ out \in Outgoing /\ out.kind \in Kinds /\ out.kind \in attempted
         /\ NextOf(out.kind) \in Nat /\ Ends(out.kind) \in Nat
         /\ Rest(out, NextOf(out.kind), Ends(out.kind))
<1> DEFINE k == out.kind
<1>1. /\ Rest(out, NextOf(k), Ends(k)) /\ out \in Outgoing /\ out.kind \in Kinds
      /\ out.kind \in attempted /\ answer \in Answers /\ shown \in [Kinds -> Pieces]
  BY DEF DeliveryInv, RestInARow, Rest, InTurn, Outgoing, MessageTyped
<1>2. Starts(k) \in Nat /\ Ends(k) \in Nat
  BY <1>1, TextsAre
<1>3. NextOf(k) \in Nat
  <2>1. shown[k] \in Seq(Nat \X Nat)
    BY <1>1 DEF Pieces
  <2>2. shown[k] # <<>> => Len(shown[k]) \in 1 .. Len(shown[k])
    BY <2>1, LenProperties, EmptySeq
  <2>3. shown[k] # <<>> => shown[k][Len(shown[k])] \in Nat \X Nat
    BY <2>1, <2>2, ElementOfSeq
  <2> QED
    BY <1>2, <2>3 DEF NextOf
<1>4. RichSize \in Nat /\ TextSize \in Nat
  BY DeliveryConstants
<1>5. CASE out.form = "rich" /\ out.rich # <<>>
  <2>1. InARow(out.rich, NextOf(k), Ends(k), RichSize) /\ out.legacy = <<>>
    BY <1>1, <1>5 DEF Rest
  <2>2. Piece = Head(out.rich)
    BY <2>1 DEF Piece
  <2>3. /\ Head(out.rich) \in Nat \X Nat /\ Head(out.rich)[1] = NextOf(k)
        /\ NextOf(k) <= Head(out.rich)[2]
    BY <1>2, <1>3, <1>4, <1>5, <2>1, InARowTail
  <2> QED
    BY <1>1, <1>2, <1>3, <2>2, <2>3
<1>6. CASE out.form \in {"html", "plain"}
  <2> DEFINE end == Head(out.rich)[2]
  <2>1. InARow(out.legacy, NextOf(k), end, TextSize) /\ out.legacy # <<>> /\ end \in Nat
    <3>1. Head(out.rich) \in Nat \X Nat
      BY <1>1, <1>6 DEF Rest
    <3> QED
      BY <1>1, <1>6, <3>1 DEF Rest
  <2> HIDE DEF end, k
  <2>2. Piece = Head(out.legacy)
    BY <2>1 DEF Piece
  <2>3. /\ Head(out.legacy) \in Nat \X Nat /\ Head(out.legacy)[1] = NextOf(k)
        /\ NextOf(k) <= Head(out.legacy)[2]
    BY <1>3, <1>4, <2>1, InARowTail
  <2> QED
    BY <1>1, <1>2, <1>3, <2>2, <2>3 DEF k
<1> QED
  BY <1>5, <1>6 DEF HasPiece

\* Once it is shown, the next one is to follow on it.
LEMMA AcceptedIs ==
  ASSUME DeliveryInv, pc = "sending", HasPiece, Accepted, answer' = answer, out'.kind = out.kind
  PROVE  /\ shown' \in [Kinds -> Pieces]
         /\ ShownInARow'
         /\ \A j : j = out.kind => NextOf(j)' = Piece[2] + 1
         /\ \A j \in Kinds : j # out.kind => shown'[j] = shown[j]
         /\ shown'[out.kind] # <<>>
<1> DEFINE k == out.kind
           s == shown[k]
           t == shown'[k]
<1>1. /\ Piece \in Nat \X Nat /\ Piece[1] = NextOf(k) /\ k \in Kinds
      /\ shown \in [Kinds -> Pieces]
  BY PieceIs DEF DeliveryInv, MessageTyped
<1>2. \A j : Starts(j)' = Starts(j)
  BY DEF Starts, Body
<1>3. shown' = [shown EXCEPT ![k] = Append(@, Piece)]
  BY DEF Accepted
<1>4. s \in Seq(Nat \X Nat) /\ Len(s) \in Nat
  BY <1>1, LenProperties DEF Pieces
<1>5. t = Append(s, Piece) /\ \A j \in Kinds : j # k => shown'[j] = shown[j]
  BY <1>1, <1>3
<1>6. NextOf(k) = IF s = <<>> THEN Starts(k) ELSE s[Len(s)][2] + 1
  BY DEF NextOf
<1>7. \A i \in 1 .. Len(s) : s[i][1] = IF i = 1 THEN Starts(k) ELSE s[i - 1][2] + 1
  BY <1>1 DEF DeliveryInv, ShownInARow
<1>8. shown' \in [Kinds -> Pieces]
  <2>1. Append(s, Piece) \in Pieces
    BY <1>1, <1>4, AppendProperties DEF Pieces
  <2> HIDE DEF k
  <2> QED
    BY <1>1, <1>3, <2>1
<1> HIDE DEF s, t
<1>9. /\ t \in Seq(Nat \X Nat) /\ Len(t) = Len(s) + 1 /\ t[Len(s) + 1] = Piece
      /\ \A i \in 1 .. Len(s) : t[i] = s[i]
  BY <1>1, <1>4, <1>5, AppendProperties
<1>10. t # <<>> /\ (s = <<>> <=> Len(s) = 0)
  BY <1>4, <1>9, EmptySeq
<1>11. ASSUME NEW i \in 1 .. Len(t)
       PROVE  t[i][1] = IF i = 1 THEN Starts(k) ELSE t[i - 1][2] + 1
  <2>1. CASE i = Len(s) + 1
    <3>1. CASE s = <<>>
      BY <1>1, <1>6, <1>9, <1>10, <2>1, <3>1
    <3>2. CASE s # <<>>
      <4>1. i # 1 /\ i - 1 = Len(s) /\ Len(s) \in 1 .. Len(s)
        BY <1>4, <1>10, <2>1, <3>2
      <4>2. t[i - 1] = s[Len(s)]
        BY <1>9, <4>1
      <4> QED
        BY <1>1, <1>6, <1>9, <2>1, <3>2, <4>1, <4>2
    <3> QED
      BY <3>1, <3>2
  <2>2. CASE i # Len(s) + 1
    <3>1. i \in 1 .. Len(s) /\ (i # 1 => i - 1 \in 1 .. Len(s))
      BY <1>4, <1>9, <2>2
    <3>2. t[i] = s[i] /\ (i # 1 => t[i - 1] = s[i - 1])
      BY <1>9, <3>1
    <3> QED
      BY <1>7, <3>1, <3>2
  <2> QED
    BY <2>1, <2>2
<1>12. ShownInARow'
  <2>1. ASSUME NEW j \in Kinds, NEW i \in 1 .. Len(shown'[j])
        PROVE  shown'[j][i][1] = IF i = 1 THEN Starts(j)' ELSE shown'[j][i - 1][2] + 1
    <3>1. CASE j = k
      <4>1. shown'[j] = t
        BY <3>1 DEF t
      <4> HIDE DEF k
      <4> QED
        BY <1>2, <1>11, <2>1, <3>1, <4>1
    <3>2. CASE j # k
      <4>1. shown'[j] = shown[j]
        BY <1>5, <3>2
      <4>2. shown[j][i][1] = IF i = 1 THEN Starts(j) ELSE shown[j][i - 1][2] + 1
        BY <2>1, <4>1 DEF DeliveryInv, ShownInARow
      <4> QED
        BY <1>2, <4>1, <4>2
    <3> QED
      BY <3>1, <3>2
  <2> QED
    BY <2>1 DEF ShownInARow
<1>13. ASSUME NEW j, j = out.kind
       PROVE  NextOf(j)' = Piece[2] + 1
  <2>1. shown'[j] = t
    BY <1>13 DEF t
  <2> QED
    BY <1>9, <1>10, <2>1 DEF NextOf
<1> QED
  BY <1>5, <1>8, <1>10, <1>12, <1>13 DEF t

LEMMA OneOrMore ==
  ASSUME NEW n \in Nat, n # 0
  PROVE  /\ ~(n > 1) => n = 1
         /\ n > 1 => \A m : m = n - 1 => m # 0
OBVIOUS

\* Going on after a piece leaves the rest in a row behind it.
LEMMA PieceDoneIs ==
  ASSUME DeliveryInv, pc = "sending", HasPiece
  PROVE  PieceDone.kind = out.kind /\ Rest(PieceDone, Piece[2] + 1, Ends(out.kind))
<1> DEFINE k == out.kind
           n == NextOf(k)
           e == Ends(k)
           r == out.rich
           l == out.legacy
<1>1. /\ out \in Outgoing /\ n \in Nat /\ e \in Nat /\ Rest(out, n, e)
      /\ RichSize \in Nat /\ TextSize \in Nat
  BY PieceIs, DeliveryConstants
<1>2. out = [kind |-> k, rich |-> r, legacy |-> l, form |-> out.form] /\ r \in Pieces /\ l \in Pieces
      /\ k \in Kinds
  BY <1>1 DEF Outgoing
<1> HIDE DEF n, e
<1>3. ASSUME NEW s \in Pieces, s # <<>>
      PROVE  Tail(s) \in Pieces
  BY <1>3, HeadTailProperties DEF Pieces
<1>4. CASE out.form = "rich" /\ r # <<>>
  <2>1. l = <<>> /\ InARow(r, n, e, RichSize)
    BY <1>1, <1>4 DEF Rest
  <2>2. Piece = Head(r) /\ PieceDone = [out EXCEPT !.rich = Tail(@)]
    BY <2>1 DEF Piece, PieceDone
  <2>3. PieceDone = [kind |-> k, rich |-> Tail(r), legacy |-> <<>>, form |-> "rich"]
    BY <1>2, <1>4, <2>1, <2>2
  <2>4. InARow(Tail(r), Head(r)[2] + 1, e, RichSize)
    <3> HIDE DEF r
    <3> QED
      BY <1>1, <1>4, <2>1, InARowTail
  <2>5. Tail(r) \in Pieces /\ <<>> \in Pieces
    BY <1>2, <1>3, <1>4 DEF Pieces
  <2>6. PieceDone \in Outgoing
    BY <1>2, <2>3, <2>5 DEF Outgoing
  <2> HIDE DEF r, k, l
  <2>7. /\ PieceDone.kind = k /\ PieceDone.rich = Tail(r) /\ PieceDone.legacy = <<>>
        /\ PieceDone.form = "rich"
    BY <2>3
  <2>8. Rest(PieceDone, Piece[2] + 1, e)
    BY <2>2, <2>4, <2>6, <2>7 DEF Rest
  <2> QED
    BY <2>7, <2>8 DEF k, e
<1>5. CASE out.form \in {"html", "plain"} /\ Len(l) > 1
  <2> DEFINE h == Head(r)[2]
  <2>1. /\ l # <<>> /\ r # <<>> /\ Head(r) \in Nat \X Nat /\ InARow(l, n, h, TextSize)
        /\ InARow(Tail(r), h + 1, e, RichSize) /\ h \in Nat
    <3>1. Head(r) \in Nat \X Nat
      BY <1>1, <1>5 DEF Rest
    <3> QED
      BY <1>1, <1>5, <3>1 DEF Rest
  <2>2. Piece = Head(l) /\ PieceDone = [out EXCEPT !.legacy = Tail(@), !.form = "html"]
    BY <1>5, <2>1 DEF Piece, PieceDone
  <2>3. PieceDone = [kind |-> k, rich |-> r, legacy |-> Tail(l), form |-> "html"]
    BY <1>2, <2>2
  <2> HIDE DEF h
  <2>4. InARow(Tail(l), Head(l)[2] + 1, h, TextSize) /\ Len(Tail(l)) = Len(l) - 1
    <3> HIDE DEF l
    <3> QED
      BY <1>1, <2>1, InARowTail
  <2>5. Tail(l) \in Pieces /\ Tail(l) # <<>>
    <3>1. Len(l) \in Nat
      BY <1>2, LenProperties DEF Pieces
    <3>2. Tail(l) \in Pieces
      BY <1>2, <1>3, <2>1
    <3>3. Len(Tail(l)) # 0
      <4>1. Len(Tail(l)) = Len(l) - 1 /\ Len(l) > 1
        BY <1>5, <2>4
      <4>2. Len(l) # 0
        BY <2>1, <1>2, EmptySeq DEF Pieces
      <4>3. \A m : m = Len(l) - 1 => m # 0
        BY <3>1, <4>1, <4>2, OneOrMore
      <4> QED
        BY <4>1, <4>3
    <3>4. Tail(l) # <<>>
      <4>1. Len(<<>>) = 0
        OBVIOUS
      <4> QED
        BY ONLY <3>3, <4>1
    <3> QED
      BY <3>2, <3>4
  <2>6. PieceDone \in Outgoing
    BY <1>2, <2>3, <2>5 DEF Outgoing
  <2> HIDE DEF r, k, l
  <2>7. /\ PieceDone.kind = k /\ PieceDone.rich = r /\ PieceDone.legacy = Tail(l)
        /\ PieceDone.form = "html"
    BY <2>3
  <2>8. Rest(PieceDone, Piece[2] + 1, e)
    BY <2>1, <2>2, <2>4, <2>5, <2>6, <2>7 DEF Rest, h
  <2> QED
    BY <2>7, <2>8 DEF k, e
<1>6. CASE out.form \in {"html", "plain"} /\ ~(Len(l) > 1)
  <2> DEFINE h == Head(r)[2]
  <2>1. /\ l # <<>> /\ r # <<>> /\ Head(r) \in Nat \X Nat /\ InARow(l, n, h, TextSize)
        /\ InARow(Tail(r), h + 1, e, RichSize) /\ h \in Nat
    <3>1. Head(r) \in Nat \X Nat
      BY <1>1, <1>6 DEF Rest
    <3> QED
      BY <1>1, <1>6, <3>1 DEF Rest
  <2>2. /\ Piece = Head(l)
        /\ PieceDone = [out EXCEPT !.legacy = <<>>, !.rich = Tail(@), !.form = "rich"]
    BY <1>6, <2>1 DEF Piece, PieceDone
  <2>3. PieceDone = [kind |-> k, rich |-> Tail(r), legacy |-> <<>>, form |-> "rich"]
    BY <1>2, <2>2
  <2> HIDE DEF h
  <2>4. Head(l)[2] = h
    <3>1. l \in Seq(Nat \X Nat) /\ Len(l) = 1
      <4>1. l \in Seq(Nat \X Nat)
        BY <1>2 DEF Pieces
      <4>2. Len(l) \in Nat
        BY <4>1, LenProperties
      <4>3. Len(l) # 0
        BY <2>1, <4>1, EmptySeq
      <4>4. ~(Len(l) > 1)
        BY <1>6
      <4>5. Len(l) = 1
        BY <4>2, <4>3, <4>4, OneOrMore
      <4> QED
        BY <4>1, <4>5
    <3>2. h + 1 = l[Len(l)][2] + 1
      BY <2>1 DEF InARow
    <3>3. Head(l) = l[1] /\ l[1] \in Nat \X Nat
      BY <2>1, <3>1, HeadTailProperties, ElementOfSeq
    <3> HIDE DEF l
    <3> QED
      BY <2>1, <3>1, <3>2, <3>3
  <2>5. Tail(r) \in Pieces /\ <<>> \in Pieces
    BY <1>2, <1>3, <2>1 DEF Pieces
  <2>6. PieceDone \in Outgoing
    BY <1>2, <2>3, <2>5 DEF Outgoing
  <2> HIDE DEF r, k, l
  <2>7. /\ PieceDone.kind = k /\ PieceDone.rich = Tail(r) /\ PieceDone.legacy = <<>>
        /\ PieceDone.form = "rich"
    BY <2>3
  <2>8. Rest(PieceDone, Piece[2] + 1, e)
    BY <2>1, <2>2, <2>4, <2>6, <2>7 DEF Rest
  <2> QED
    BY <2>7, <2>8 DEF k, e
<1> QED
  BY <1>4, <1>5, <1>6 DEF HasPiece

\* After an error that no other form can help, nothing more is sent.
LEMMA GivenUpIs ==
  ASSUME NEW from, NEW to, out \in Outgoing
  PROVE  GivenUp.kind = out.kind /\ Rest(GivenUp, from, to)
<1>1. <<>> \in Pieces
  BY DEF Pieces
<1>2. GivenUp \in Outgoing
  BY <1>1 DEF Outgoing, GivenUp
<1>3. GivenUp.kind = out.kind /\ GivenUp.rich = <<>> /\ GivenUp.form = "failed"
  BY DEF Outgoing, GivenUp
<1>4. Rest(GivenUp, from, to)
  BY <1>2, <1>3 DEF Rest
<1> QED
  BY <1>3, <1>4

\* One request, whatever Telegram says of it: the next piece only after the last one
\* is known to be shown, another form only of a piece that is not shown.
LEMMA AnsweredKeeps ==
  ASSUME DeliveryInv, pc = "sending", HasPiece, NEW requests, Answered(requests),
         UNCHANGED <<input, answer, downloadVars, pc, photos, pickerShown, attempted>>,
         requests["none"] = PieceDone, requests["other"] = GivenUp,
         \A e \in {"markup", "noMethod"} :
           e \in Refusals =>
             requests[e].kind = out.kind /\ Rest(requests[e], NextOf(out.kind), Ends(out.kind))
  PROVE  DeliveryInv'
<1>0. PICK k : k = out.kind
  OBVIOUS
<1>1. /\ input' = input /\ answer' = answer /\ parts' = parts /\ buffer' = buffer
      /\ pc' = pc /\ photos' = photos /\ attempted' = attempted /\ out' = requests[error']
  BY DEF downloadVars, Answered
<1>2. k \in Kinds /\ k \in attempted /\ out \in Outgoing
  BY <1>0, PieceIs
<1>3. Ends(k)' = Ends(k)
  BY <1>1 DEF Ends, Body
<1>4. /\ out'.kind = k /\ Rest(out', NextOf(k)', Ends(k)')
      /\ shown' \in [Kinds -> Pieces] /\ ShownInARow' /\ error' \in Errors
      /\ \A j \in Kinds : j # k => shown'[j] = shown[j]
  <2>1. CASE Accepted /\ error' = "none"
    <3>1. out'.kind = k /\ Rest(out', Piece[2] + 1, Ends(k))
      BY <1>0, <1>1, <2>1, PieceDoneIs
    <3>2. /\ shown' \in [Kinds -> Pieces] /\ ShownInARow' /\ NextOf(k)' = Piece[2] + 1
          /\ \A j \in Kinds : j # k => shown'[j] = shown[j]
      BY <1>0, <1>1, <2>1, <3>1, AcceptedIs
    <3> QED
      BY <1>3, <2>1, <3>1, <3>2 DEF Errors
  <2>2. CASE Accepted /\ error' = "other"
    <3>1. out'.kind = k /\ Rest(out', NextOf(k)', Ends(k)')
      BY <1>0, <1>1, <1>2, <2>2, GivenUpIs
    <3>2. /\ shown' \in [Kinds -> Pieces] /\ ShownInARow'
          /\ \A j \in Kinds : j # k => shown'[j] = shown[j]
      BY <1>0, <1>1, <2>2, <3>1, AcceptedIs
    <3> QED
      BY <2>2, <3>1, <3>2 DEF Errors
  <2>3. CASE error' \in Refusals /\ UNCHANGED shown
    <3>1. error' \in {"markup", "noMethod", "other"}
      BY <2>3 DEF Refusals
    <3>2. ShownInARow' /\ NextOf(k)' = NextOf(k) /\ shown \in [Kinds -> Pieces]
      BY <1>1, <2>3, SameTexts DEF DeliveryInv, MessageTyped
    <3>3. CASE error' = "other"
      <4>1. out'.kind = k /\ Rest(out', NextOf(k)', Ends(k)')
        BY <1>0, <1>1, <1>2, <3>3, GivenUpIs
      <4> QED
        BY <2>3, <3>2, <3>3, <4>1 DEF Errors
    <3>4. CASE error' \in {"markup", "noMethod"}
      <4>1. out'.kind = k /\ Rest(out', NextOf(k), Ends(k))
        BY <1>0, <1>1, <2>3, <3>4
      <4> QED
        BY <1>3, <2>3, <3>2, <3>4, <4>1 DEF Errors
    <3> QED
      BY <3>1, <3>3, <3>4
  <2> QED
    BY <2>1, <2>2, <2>3 DEF Answered
<1>5. MessageTyped' /\ Downloaded' /\ AskedWhole' /\ AnsweredOrTold'
  <2>4. out' \in Outgoing
    BY <1>4 DEF Rest
  <2>1. MessageTyped'
    BY <1>1, <1>4, <2>4 DEF DeliveryInv, MessageTyped
  <2>2. Downloaded'
    BY <1>1 DEF DeliveryInv, Downloaded
  <2>3. AskedWhole' /\ AnsweredOrTold'
    BY <1>0, <1>1, <1>4 DEF DeliveryInv, AskedWhole, AnsweredOrTold
  <2> QED
    BY <2>1, <2>2, <2>3
<1>6. InTurn'
  <2>1. \A j \in Kinds \ attempted' : shown'[j] = <<>>
    BY <1>1, <1>2, <1>4 DEF DeliveryInv, InTurn
  <2>2. attempted \ {k} \subseteq BeforeIt(k)
    BY <1>0 DEF DeliveryInv, InTurn
  <2> QED
    BY <1>1, <1>2, <1>4, <2>1, <2>2 DEF InTurn, BeforeIt
<1>7. RestInARow'
  BY <1>4 DEF RestInARow, NextOf, Ends
<1>8. PhotosFollow'
  BY <1>1 DEF DeliveryInv, PhotosFollow
<1> QED
  BY <1>1, <1>4, <1>5, <1>6, <1>7, <1>8 DEF DeliveryInv

LEMMA SendRichKeeps ==
  ASSUME DeliveryInv, SendRich
  PROVE  DeliveryInv'
<1> DEFINE r == out.rich
           n == NextOf(out.kind)
           e == Ends(out.kind)
           l == ChunkText(Body(out.kind), Head(r), TextSize)
           o == [out EXCEPT !.legacy = l, !.form = "html"]
           requests == [x \in Errors |->
             IF x = "none" THEN PieceDone ELSE IF ShouldFallbackFromRich(x) THEN o ELSE GivenUp]
<1>1. /\ pc = "sending" /\ out.form = "rich" /\ r # <<>> /\ HasPiece
      /\ UNCHANGED <<input, answer, downloadVars, pc, photos, pickerShown, attempted>>
  BY DEF SendRich, HasPiece
<1>2. Answered(requests)
  BY DEF SendRich
<1>3. /\ out \in Outgoing /\ n \in Nat /\ e \in Nat /\ Rest(out, n, e)
      /\ RichSize \in Nat /\ TextSize \in Nat \ {0}
  BY <1>1, PieceIs, DeliveryConstants
<1>4. InARow(r, n, e, RichSize) /\ r \in Pieces
  BY <1>1, <1>3 DEF Rest, InARow
<1>5. /\ Head(r) \in Nat \X Nat /\ Head(r)[1] = n /\ n <= Head(r)[2]
      /\ InARow(Tail(r), Head(r)[2] + 1, e, RichSize)
  <2> HIDE DEF r, n, e
  <2> QED
    BY <1>1, <1>3, <1>4, InARowTail
<1>6. InARow(l, n, Head(r)[2], TextSize) /\ l # <<>> /\ l \in Pieces
  <2> DEFINE to == Head(r)[2]
  <2>1. Head(r) = <<n, to>> /\ to \in Nat /\ n <= to
    BY <1>5
  <2> HIDE DEF r, n, to
  <2>2. InARow(l, n, to, TextSize)
    BY <1>3, <2>1, ChunkTextIs
  <2> HIDE DEF l
  <2>3. l # <<>>
    BY <1>3, <2>1, <2>2, InARowNotEmpty
  <2> QED
    BY <2>2, <2>3 DEF InARow, to
<1> HIDE DEF l
<1>7. o.kind = out.kind /\ Rest(o, n, e)
  <2>1. o \in Outgoing
    BY <1>3, <1>6 DEF Outgoing
  <2>2. o.kind = out.kind /\ o.rich = r /\ o.legacy = l /\ o.form = "html"
    BY <1>3 DEF Outgoing
  <2> HIDE DEF o, r, n, e
  <2>3. Rest(o, n, e)
    BY <1>1, <1>5, <1>6, <2>1, <2>2 DEF Rest
  <2> QED
    BY <2>2, <2>3
<1> HIDE DEF o
<1>8. requests["none"] = PieceDone /\ requests["other"] = GivenUp
  BY DEF Errors, ShouldFallbackFromRich
<1>9. ASSUME NEW x \in {"markup", "noMethod"}
      PROVE  requests[x].kind = out.kind /\ Rest(requests[x], n, e)
  <2>1. requests[x] = o
    BY DEF Errors, ShouldFallbackFromRich
  <2> HIDE DEF requests
  <2> QED
    BY <1>7, <2>1
<1> HIDE DEF requests
<1> QED
  BY <1>1, <1>2, <1>8, <1>9, AnsweredKeeps

LEMMA SendHtmlKeeps ==
  ASSUME DeliveryInv, SendHtml
  PROVE  DeliveryInv'
<1> DEFINE n == NextOf(out.kind)
           e == Ends(out.kind)
           o == [out EXCEPT !.form = "plain"]
           requests == [x \in Errors |->
             IF x = "none" THEN PieceDone ELSE IF ShouldFallbackFromHtml(x) THEN o ELSE GivenUp]
<1>1. /\ pc = "sending" /\ out.form = "html" /\ HasPiece
      /\ UNCHANGED <<input, answer, downloadVars, pc, photos, pickerShown, attempted>>
  BY DEF SendHtml, HasPiece
<1>2. Answered(requests)
  BY DEF SendHtml
<1>3. out \in Outgoing /\ Rest(out, n, e)
  BY <1>1, PieceIs
<1>4. o.kind = out.kind /\ Rest(o, n, e)
  <2>1. o \in Outgoing
    BY <1>3 DEF Outgoing
  <2>2. o.kind = out.kind /\ o.rich = out.rich /\ o.legacy = out.legacy /\ o.form = "plain"
    BY <1>3 DEF Outgoing
  <2> HIDE DEF o, n, e
  <2>3. Rest(o, n, e)
    BY <1>1, <1>3, <2>1, <2>2 DEF Rest
  <2> QED
    BY <2>2, <2>3
<1> HIDE DEF o
<1>5. requests["none"] = PieceDone /\ requests["other"] = GivenUp
  BY DEF Errors, ShouldFallbackFromHtml
<1>6. GivenUp.kind = out.kind /\ Rest(GivenUp, n, e)
  BY <1>3, GivenUpIs
<1>7. ASSUME NEW x \in {"markup", "noMethod"}
      PROVE  requests[x].kind = out.kind /\ Rest(requests[x], n, e)
  <2>1. requests[x] \in {o, GivenUp}
    BY DEF Errors
  <2> HIDE DEF requests
  <2> QED
    BY <1>4, <1>6, <2>1
<1> HIDE DEF requests
<1> QED
  BY <1>1, <1>2, <1>5, <1>7, AnsweredKeeps

LEMMA SendPlainKeeps ==
  ASSUME DeliveryInv, SendPlain
  PROVE  DeliveryInv'
<1> DEFINE requests == [x \in Errors |-> IF x = "none" THEN PieceDone ELSE GivenUp]
<1>1. /\ pc = "sending" /\ out.form = "plain" /\ HasPiece
      /\ UNCHANGED <<input, answer, downloadVars, pc, photos, pickerShown, attempted>>
  BY DEF SendPlain, HasPiece
<1>2. Answered(requests)
  BY DEF SendPlain
<1>3. out \in Outgoing
  BY <1>1, PieceIs
<1>4. requests["none"] = PieceDone /\ \A x \in Errors \ {"none"} : requests[x] = GivenUp
  BY DEF Errors
<1> HIDE DEF requests
<1>5. "other" \in Errors \ {"none"} /\ {"markup", "noMethod"} \subseteq Errors \ {"none"}
  BY DEF Errors
<1>6. \A from, to : GivenUp.kind = out.kind /\ Rest(GivenUp, from, to)
  BY <1>3, GivenUpIs
<1> QED
  BY <1>1, <1>2, <1>4, <1>5, <1>6, AnsweredKeeps

\* A reply that has been sent to its end is shown to its end.
LEMMA SentIsShown ==
  ASSUME DeliveryInv, pc = "sending", out.rich = <<>>, out.form # "failed"
  PROVE  /\ out.form = "rich" /\ shown[out.kind] # <<>>
         /\ Last(shown[out.kind])[2] = Ends(out.kind)
<1> DEFINE k == out.kind
<1>1. /\ Rest(out, NextOf(k), Ends(k)) /\ out \in Outgoing /\ out.kind \in Kinds
      /\ answer \in Answers /\ shown \in [Kinds -> Pieces]
  BY DEF DeliveryInv, RestInARow, Rest, Outgoing, MessageTyped
<1>2. Starts(k) \in Nat /\ Ends(k) \in Nat /\ Starts(k) <= Ends(k)
  BY <1>1, TextsAre
<1>3. out.form = "rich"
  BY <1>1 DEF Rest, Outgoing
<1>4. NextOf(k) = Ends(k) + 1
  <2>1. InARow(out.rich, NextOf(k), Ends(k), RichSize)
    BY <1>1, <1>3 DEF Rest
  <2> QED
    BY <2>1 DEF InARow
<1> HIDE DEF k
<1>5. shown[k] # <<>>
  <2>1. shown[k] = <<>> => NextOf(k) = Starts(k)
    BY DEF NextOf
  <2> QED
    BY <1>2, <1>4, <2>1
<1>6. shown[k][Len(shown[k])][2] = Ends(k)
  <2>1. shown[k] \in Seq(Nat \X Nat) /\ Len(shown[k]) \in 1 .. Len(shown[k])
    BY <1>1, <1>5, LenProperties, EmptySeq DEF Pieces, k
  <2>2. shown[k][Len(shown[k])] \in Nat \X Nat
    BY <2>1, ElementOfSeq
  <2>3. NextOf(k) = shown[k][Len(shown[k])][2] + 1
    BY <1>5 DEF NextOf
  <2> QED
    BY <1>2, <1>4, <2>2, <2>3
<1> QED
  BY <1>3, <1>5, <1>6 DEF k, Last

LEMMA SendEndsKeeps ==
  ASSUME DeliveryInv, SendEnds
  PROVE  DeliveryInv'
<1>1. /\ pc = "sending" /\ out.rich = <<>>
      /\ input' = input /\ answer' = answer /\ parts' = parts /\ buffer' = buffer
      /\ shown' = shown /\ photos' = photos
  BY DEF SendEnds, downloadVars, screenVars
<1>2. /\ out.kind \in Kinds /\ out.kind \in attempted /\ attempted \subseteq Kinds
      /\ attempted \ {out.kind} \subseteq BeforeIt(out.kind)
      /\ out.kind \in {"notice", "answer"} => Len(parts) = Len(input)
      /\ out.form \in {"rich", "html", "plain", "failed"}
  BY <1>1 DEF DeliveryInv, InTurn, MessageTyped, AskedWhole, RestInARow, Rest, Outgoing
<1>3. Downloaded'
  BY <1>1 DEF DeliveryInv, Downloaded
<1>4. ASSUME UNCHANGED <<out, attempted, error>>,
             pc' \in {"ask", "photos", "done"},
             pc' \in {"ask", "photos"} => Len(parts) = Len(input),
             pc' = "ask" => attempted \subseteq {"notice"},
             pc' = "photos" => /\ "answer" \in attempted /\ attempted \subseteq {"notice", "answer"}
                               /\ WholeText,
             pc' = "done" => "answer" \notin attempted \/ "failure" \in attempted
      PROVE  DeliveryInv'
  <2>1. MessageTyped'
    BY <1>1, <1>4 DEF DeliveryInv, MessageTyped
  <2>2. AskedWhole' /\ AnsweredOrTold'
    BY <1>1, <1>4 DEF AskedWhole, AnsweredOrTold
  <2>3. /\ ShownInARow' /\ RestInARow' /\ WholeText' = WholeText
        /\ \A k \in Kinds \ attempted' : shown'[k] = <<>>
    BY <1>1, <1>4, SameTexts
  <2>4. InTurn'
    BY <1>4, <2>3 DEF InTurn
  <2>5. PhotosFollow'
    <3>1. pc' = "photos" => WholeText'
      BY <1>4, <2>3
    <3>2. /\ photos' \in Seq({"image", "broken"}) /\ Len(photos') <= Len(answer'.images)
          /\ \A i \in 1 .. Len(photos') : photos'[i] = answer'.images[i]
      BY <1>1 DEF DeliveryInv, PhotosFollow
    <3> QED
      BY <3>1, <3>2 DEF PhotosFollow
  <2> QED
    BY <1>3, <1>4, <2>1, <2>2, <2>3, <2>4, <2>5 DEF DeliveryInv
<1>5. CASE out.kind = "notice"
  <2>1. pc' = "ask" /\ UNCHANGED <<out, attempted, error>>
    BY <1>5 DEF SendEnds
  <2>2. attempted \subseteq {"notice"}
    BY <1>2, <1>5 DEF BeforeIt
  <2> QED
    BY <1>2, <1>4, <1>5, <2>1, <2>2
<1>6. CASE out.kind = "answer" /\ out.form = "rich"
  <2>1. pc' = "photos" /\ UNCHANGED <<out, attempted, error>>
    BY <1>6 DEF SendEnds
  <2>2. attempted \subseteq {"notice", "answer"} /\ "answer" \in attempted
    BY <1>2, <1>6 DEF BeforeIt
  <2>3. WholeText
    <3>1. shown["answer"] # <<>> /\ Last(shown["answer"])[2] = Ends("answer")
      BY <1>1, <1>6, SentIsShown
    <3>2. ~Blank(answer.text) => Ends("answer") = Trimmed(answer.text)[2]
      BY DEF Ends, Body
    <3> QED
      BY <3>1, <3>2 DEF WholeText
  <2> QED
    BY <1>2, <1>4, <1>6, <2>1, <2>2, <2>3
<1>7. CASE out.kind \in {"answer", "picker"} /\ out.form = "failed"
  <2>1. Reply("failure")
    BY <1>7 DEF SendEnds
  <2>2. "failure" \in Kinds /\ "failure" \notin attempted /\ attempted \subseteq BeforeIt("failure")
    BY <1>2, <1>7 DEF Kinds, BeforeIt
  <2>3. /\ pc' = "sending" /\ out'.kind = "failure" /\ error' \in Errors
        /\ attempted' = attempted \cup {"failure"}
        /\ InTurn' /\ ShownInARow' /\ RestInARow'
    BY <1>1, <2>1, <2>2, ReplyIs
  <2>4. MessageTyped'
    BY <1>1, <2>2, <2>3 DEF DeliveryInv, MessageTyped, RestInARow, Rest
  <2>5. AskedWhole' /\ AnsweredOrTold'
    BY <2>3 DEF AskedWhole, AnsweredOrTold
  <2>6. PhotosFollow'
    BY <1>1, <2>3 DEF DeliveryInv, PhotosFollow
  <2> QED
    BY <1>3, <2>3, <2>4, <2>5, <2>6 DEF DeliveryInv
<1>8. CASE /\ out.kind # "notice" /\ ~(out.kind = "answer" /\ out.form = "rich")
           /\ ~(out.kind \in {"answer", "picker"} /\ out.form = "failed")
  <2>1. pc' = "done" /\ UNCHANGED <<out, attempted, error>>
    BY <1>8 DEF SendEnds
  <2>2. out.kind # "answer"
    <3>1. out.form = "failed" \/ out.form = "rich"
      BY <1>1, <1>2, SentIsShown
    <3> QED
      BY <1>8, <3>1
  <2>3. "answer" \notin attempted \/ "failure" \in attempted
    BY <1>2, <1>8, <2>2 DEF BeforeIt, Kinds
  <2> QED
    BY <1>4, <2>1, <2>3
<1> QED
  BY <1>5, <1>6, <1>7, <1>8

LEMMA SendPhotoKeeps ==
  ASSUME DeliveryInv, SendPhoto
  PROVE  DeliveryInv'
<1>1. /\ pc = "photos" /\ photos # answer.images
      /\ input' = input /\ answer' = answer /\ parts' = parts /\ buffer' = buffer
      /\ shown' = shown
  BY DEF SendPhoto, downloadVars
<1>2. /\ answer \in Answers /\ attempted \subseteq {"notice", "answer"} /\ "answer" \in attempted
      /\ photos \in Seq({"image", "broken"}) /\ Len(photos) <= Len(answer.images)
      /\ \A i \in 1 .. Len(photos) : photos[i] = answer.images[i]
      /\ WholeText /\ Len(parts) = Len(input)
  BY <1>1 DEF DeliveryInv, MessageTyped, InTurn, PhotosFollow, AskedWhole
<1>3. answer.images \in Seq({"image", "broken"}) /\ Len(answer.images) \in Nat /\ Len(photos) \in Nat
  <2>1. answer.images \in Seq({"image", "broken"})
    BY <1>2, DeliveryConstants
  <2> QED
    BY <1>2, <2>1, LenProperties
<1>4. Len(photos) + 1 <= Len(answer.images)
  <2>1. Len(photos) # Len(answer.images)
    BY <1>1, <1>2, <1>3, SeqEqual
  <2> QED
    BY <1>2, <1>3, <2>1
<1>5. /\ photos' \in Seq({"image", "broken"}) /\ Len(photos') <= Len(answer'.images)
      /\ \A i \in 1 .. Len(photos') : photos'[i] = answer'.images[i]
  <2>1. CASE answer.images[Len(photos) + 1] = "image" /\ photos' = Append(photos, "image")
    <3>1. /\ photos' \in Seq({"image", "broken"}) /\ Len(photos') = Len(photos) + 1
          /\ \A i \in 1 .. Len(photos) : photos'[i] = photos[i]
          /\ photos'[Len(photos) + 1] = "image"
      BY <1>2, <2>1, AppendProperties
    <3>2. ASSUME NEW i \in 1 .. Len(photos')
          PROVE  photos'[i] = answer.images[i]
      <4>1. i \in 1 .. Len(photos) \/ i = Len(photos) + 1
        BY <1>3, <3>1
      <4> QED
        BY <1>2, <2>1, <3>1, <4>1
    <3> QED
      BY <1>1, <1>4, <3>1, <3>2
  <2>2. CASE UNCHANGED photos
    BY <1>1, <1>2, <2>2
  <2> QED
    BY <2>1, <2>2 DEF SendPhoto
<1>6. Downloaded'
  BY <1>1 DEF DeliveryInv, Downloaded
<1>7. CASE UNCHANGED <<pc, out, attempted, error>>
  <2>1. MessageTyped'
    BY <1>1, <1>7 DEF DeliveryInv, MessageTyped
  <2>2. AskedWhole' /\ AnsweredOrTold'
    BY <1>1, <1>2, <1>7 DEF AskedWhole, AnsweredOrTold
  <2>3. /\ ShownInARow' /\ RestInARow' /\ WholeText' = WholeText
        /\ \A k \in Kinds \ attempted' : shown'[k] = <<>>
    BY <1>1, <1>7, SameTexts
  <2>4. InTurn'
    BY <1>1, <1>2, <1>7, <2>3 DEF InTurn
  <2>5. PhotosFollow'
    BY <1>2, <1>5, <2>3 DEF PhotosFollow
  <2> QED
    BY <1>1, <1>6, <1>7, <2>1, <2>2, <2>3, <2>4, <2>5 DEF DeliveryInv
<1>8. CASE Reply("failure")
  <2>1. "failure" \in Kinds /\ "failure" \notin attempted /\ attempted \subseteq BeforeIt("failure")
    BY <1>2 DEF Kinds, BeforeIt
  <2>2. /\ pc' = "sending" /\ out'.kind = "failure" /\ error' \in Errors
        /\ attempted' = attempted \cup {"failure"}
        /\ InTurn' /\ ShownInARow' /\ RestInARow'
    BY <1>1, <1>8, <2>1, ReplyIs
  <2>3. MessageTyped'
    BY <1>1, <2>1, <2>2 DEF DeliveryInv, MessageTyped, RestInARow, Rest
  <2>4. AskedWhole' /\ AnsweredOrTold'
    BY <2>2 DEF AskedWhole, AnsweredOrTold
  <2>5. PhotosFollow'
    BY <1>5, <2>2 DEF PhotosFollow
  <2> QED
    BY <1>6, <2>2, <2>3, <2>4, <2>5 DEF DeliveryInv
<1> QED
  BY <1>7, <1>8 DEF SendPhoto

\* The turn ends, or is cut short, where nothing is sent.
LEMMA EndKeeps ==
  ASSUME DeliveryInv, pc' \in {"done", "dropped"}, AnsweredOrTold',
         UNCHANGED <<input, answer, downloadVars, out, error, shown, photos, attempted>>
  PROVE  DeliveryInv'
<1>1. /\ input' = input /\ answer' = answer /\ parts' = parts /\ buffer' = buffer
      /\ shown' = shown /\ photos' = photos /\ out' = out /\ error' = error
      /\ attempted' = attempted
  BY DEF downloadVars
<1>2. MessageTyped' /\ Downloaded'
  BY <1>1 DEF DeliveryInv, MessageTyped, Downloaded
<1>3. AskedWhole'
  BY DEF AskedWhole
<1>4. ShownInARow' /\ RestInARow' /\ \A k \in Kinds \ attempted' : shown'[k] = <<>>
  BY <1>1, SameTexts
<1>5. InTurn'
  BY <1>4 DEF InTurn
<1>6. PhotosFollow'
  BY <1>1 DEF DeliveryInv, PhotosFollow
<1> QED
  BY <1>2, <1>3, <1>4, <1>5, <1>6 DEF DeliveryInv

LEMMA PhotosDoneKeeps ==
  ASSUME DeliveryInv, PhotosDone
  PROVE  DeliveryInv'
<1>1. /\ photos = answer.images /\ pc' = "done" /\ WholeText
      /\ UNCHANGED <<input, answer, downloadVars, out, error, screenVars, attempted>>
  BY DEF PhotosDone, DeliveryInv, PhotosFollow
<1>2. answer' = answer /\ shown' = shown /\ photos' = photos
  BY <1>1 DEF screenVars
<1>3. WholeText'
  BY <1>1, <1>2 DEF WholeText
<1>4. AnsweredOrTold'
  BY <1>1, <1>2, <1>3 DEF AnsweredOrTold, WholeText
<1> QED
  BY <1>1, <1>2, <1>4, EndKeeps

LEMMA AbortedKeeps ==
  ASSUME DeliveryInv, Aborted
  PROVE  DeliveryInv'
<1>1. /\ pc' = "dropped"
      /\ UNCHANGED <<input, answer, downloadVars, out, error, screenVars, attempted>>
  BY DEF Aborted
<1>2. AnsweredOrTold' /\ shown' = shown /\ photos' = photos
  BY <1>1 DEF AnsweredOrTold, screenVars
<1> QED
  BY <1>1, <1>2, EndKeeps

LEMMA SendModelPickerKeeps ==
  ASSUME DeliveryInv, SendModelPicker
  PROVE  DeliveryInv'
<1>1. pc = "status" /\ UNCHANGED <<input, answer, downloadVars, shown, photos>> /\ attempted = {}
  BY DEF SendModelPicker, DeliveryInv, InTurn
<1>2. CASE pc' = "done" /\ UNCHANGED <<out, attempted, error>>
  <2>1. AnsweredOrTold'
    BY <1>1, <1>2 DEF AnsweredOrTold
  <2> QED
    BY <1>1, <1>2, <2>1, EndKeeps
<1>3. CASE Reply("picker")
  <2>1. "picker" \in Kinds /\ "picker" \notin attempted /\ attempted \subseteq BeforeIt("picker")
    BY <1>1 DEF Kinds
  <2>2. /\ pc' = "sending" /\ out'.kind = "picker" /\ error' \in Errors
        /\ attempted' = attempted \cup {"picker"}
        /\ InTurn' /\ ShownInARow' /\ RestInARow'
    BY <1>1, <1>3, <2>1, ReplyIs
  <2>3. MessageTyped' /\ Downloaded'
    BY <1>1, <2>1, <2>2 DEF DeliveryInv, MessageTyped, Downloaded, downloadVars, RestInARow, Rest
  <2>4. AskedWhole' /\ AnsweredOrTold'
    BY <2>2 DEF AskedWhole, AnsweredOrTold
  <2>5. PhotosFollow'
    BY <1>1, <2>2 DEF DeliveryInv, PhotosFollow
  <2> QED
    BY <2>2, <2>3, <2>4, <2>5 DEF DeliveryInv
<1> QED
  BY <1>2, <1>3 DEF SendModelPicker

-----------------------------------------------------------------------------
LEMMA DeliveryInvInit == DeliveryInit => DeliveryInv
<1> SUFFICES ASSUME DeliveryInit
             PROVE  DeliveryInv
  OBVIOUS
<1>1. <<>> \in Pieces /\ Len(<<>>) = 0
  BY DEF Pieces
<1>2. \A k \in Kinds : shown[k] = <<>>
  BY DEF DeliveryInit
<1>3. MessageTyped
  BY <1>1 DEF DeliveryInit, MessageTyped, Errors
<1>4. Downloaded
  <2>1. Len(input) \in Nat
    <3>1. input \in Seq([announced : Nat \cup {Unknown}, length : Nat \cup {Unknown}, bytes : Nat])
      BY DeliveryConstants DEF DeliveryInit
    <3> QED
      BY <3>1, LenProperties
  <2> QED
    BY <1>1, <2>1 DEF DeliveryInit, Downloaded
<1>5. AskedWhole /\ InTurn /\ RestInARow /\ AnsweredOrTold
  BY <1>2 DEF DeliveryInit, AskedWhole, InTurn, RestInARow, AnsweredOrTold
<1>6. ShownInARow
  BY <1>1, <1>2 DEF ShownInARow
<1>7. PhotosFollow
  <2>1. answer.images \in Seq({"image", "broken"})
    BY DeliveryConstants DEF DeliveryInit
  <2>2. Len(answer.images) \in Nat
    BY <2>1, LenProperties
  <2> QED
    BY <1>1, <2>2 DEF DeliveryInit, PhotosFollow
<1> QED
  BY <1>3, <1>4, <1>5, <1>6, <1>7 DEF DeliveryInv, DeliveryInit

LEMMA DeliveryInvStep == DeliveryInv /\ [DeliveryNext]_deliveryVars => DeliveryInv'
<1> SUFFICES ASSUME DeliveryInv, [DeliveryNext]_deliveryVars
             PROVE  DeliveryInv'
  OBVIOUS
<1>1. CASE UNCHANGED deliveryVars
  BY <1>1 DEF deliveryVars, downloadVars, screenVars, DeliveryInv, MessageTyped, Downloaded,
     AskedWhole, InTurn, ShownInARow, RestInARow, Rest, PhotosFollow, WholeText, AnsweredOrTold,
     Starts, Ends, NextOf, Body
<1>2. CASE AskForFile \/ ReadChunk \/ FileDone \/ DownloadBreaks
  BY <1>2, AskForFileKeeps, ReadChunkKeeps, FileDoneKeeps, DownloadBreaksKeeps
<1>3. CASE Prepare \/ ProviderAnswers
  BY <1>3, PrepareKeeps, ProviderAnswersKeeps
<1>4. CASE SendRich \/ SendHtml \/ SendPlain \/ SendEnds
  BY <1>4, SendRichKeeps, SendHtmlKeeps, SendPlainKeeps, SendEndsKeeps
<1>5. CASE SendPhoto \/ PhotosDone \/ SendModelPicker \/ Aborted
  BY <1>5, SendPhotoKeeps, PhotosDoneKeeps, SendModelPickerKeeps, AbortedKeeps
<1> QED
  BY <1>1, <1>2, <1>3, <1>4, <1>5 DEF DeliveryNext

LEMMA AlwaysDeliveryInv == DeliverySpec => []DeliveryInv
BY DeliveryInvInit, DeliveryInvStep, PTL DEF DeliverySpec

\* DeliveryTypeOK is an invariant of every instance: a turn is always in one of its
\* steps, with a reply in one of its forms and parts and bytes that are counted.
THEOREM DeliveryTypeCorrect == DeliverySpec => []DeliveryTypeOK
<1>1. DeliveryInv => DeliveryTypeOK
  <2> SUFFICES ASSUME DeliveryInv
               PROVE  DeliveryTypeOK
    OBVIOUS
  <2>1. buffer \in Nat \cup {Unknown}
    BY DeliveryConstants DEF DeliveryInv, Downloaded
  <2>2. out.form \in {"rich", "html", "plain", "failed"}
    BY DEF DeliveryInv, MessageTyped, Outgoing, NoReply
  <2> QED
    BY <2>1, <2>2 DEF DeliveryInv, MessageTyped, Downloaded, DeliveryTypeOK
<1> QED
  BY <1>1, AlwaysDeliveryInv, PTL

\* OnlyWholeInput: however the chunks of however many files arrive, get_file_bytes
\* never holds more than MAX_ATTACHMENT_BYTES, and a turn reaches the provider only
\* with every attachment of the message, none cut short.
THEOREM MessagesAreWhole == DeliverySpec => []OnlyWholeInput
<1>1. DeliveryInv => OnlyWholeInput
  <2> SUFFICES ASSUME DeliveryInv
               PROVE  OnlyWholeInput
    OBVIOUS
  <2>1. buffer <= MaxBytes
    BY DeliveryConstants DEF DeliveryInv, Downloaded, Unknown
  <2>2. ASSUME pc \in {"ask", "photos"}
        PROVE  parts = [i \in DOMAIN input |-> input[i].bytes]
    <3>1. input \in Seq([announced : Nat \cup {Unknown}, length : Nat \cup {Unknown}, bytes : Nat])
      BY DeliveryConstants DEF DeliveryInv, MessageTyped
    <3>2. DOMAIN input = 1 .. Len(input)
      BY <3>1, LenProperties
    <3>3. /\ parts \in Seq(Nat) /\ Len(parts) = Len(input)
          /\ \A i \in 1 .. Len(parts) : parts[i] = input[i].bytes
      BY <2>2 DEF DeliveryInv, Downloaded, AskedWhole
    <3>4. parts = [i \in 1 .. Len(parts) |-> parts[i]]
      BY <3>3, LenProperties
    <3> QED
      BY <3>2, <3>3, <3>4
  <2> QED
    BY <2>1, <2>2 DEF OnlyWholeInput
<1> QED
  BY <1>1, AlwaysDeliveryInv, PTL

\* ShownOnceInOrder: for every text and every size of a piece, what send_message has
\* shown of it is a beginning of it, each character once and in its order, whatever
\* requests were refused, lost or answered late and in whatever form they were sent.
THEOREM RepliesAreInOrder == DeliverySpec => []ShownOnceInOrder
<1>1. DeliveryInv => ShownOnceInOrder
  <2> SUFFICES ASSUME DeliveryInv
               PROVE  ShownOnceInOrder
    OBVIOUS
  <2>1. ASSUME NEW k \in Kinds, NEW i \in DOMAIN shown[k]
        PROVE  shown[k][i][1] = IF i = 1 THEN Trimmed(Body(k))[1] ELSE shown[k][i - 1][2] + 1
    <3>1. shown[k] \in Seq(Nat \X Nat)
      BY DEF DeliveryInv, MessageTyped, Pieces
    <3>2. i \in 1 .. Len(shown[k])
      BY <3>1, LenProperties
    <3> QED
      BY <3>2 DEF DeliveryInv, ShownInARow, Starts
  <2>2. IsPrefix(photos, answer.images)
    <3>1. /\ photos \in Seq({"image", "broken"}) /\ Len(photos) <= Len(answer.images)
          /\ \A i \in 1 .. Len(photos) : photos[i] = answer.images[i]
      BY DEF DeliveryInv, PhotosFollow
    <3>2. answer.images \in Seq({"image", "broken"})
      BY DeliveryConstants DEF DeliveryInv, MessageTyped
    <3>3. Len(photos) \in Nat
      BY <3>1, LenProperties
    <3>4. SubSeq(photos, 1, Len(photos)) = SubSeq(answer.images, 1, Len(photos))
      BY <3>1, <3>2, <3>3
    <3> QED
      BY <3>1, <3>4 DEF IsPrefix
  <2> QED
    BY <2>1, <2>2 DEF ShownOnceInOrder
<1> QED
  BY <1>1, AlwaysDeliveryInv, PTL

\* AnsweredOrTold: a turn that ends after an answer has shown all of its text and every
\* image, or has gone on to tell the user that it failed.
THEOREM AnsweredInFull == DeliverySpec => []AnsweredOrTold
<1>1. DeliveryInv => AnsweredOrTold
  BY DEF DeliveryInv
<1> QED
  BY <1>1, AlwaysDeliveryInv, PTL

-----------------------------------------------------------------------------
(* How long a piece is, and that sending comes to an end.                   *)

\* No request carries nothing, or more characters than its form allows.
PieceFits ==
  pc = "sending" /\ HasPiece =>
    Size(Piece) \in 1 .. (IF out.form = "rich" THEN RichSize ELSE TextSize)

\* The order in which the forms of a piece are tried.
Forms == [rich |-> 1, html |-> 2, plain |-> 3]

\* A later request of a reply is for a later position, or for the same one in a later
\* form: no request is ever made twice.
Advances ==
  pc = "sending" /\ HasPiece /\ pc' = "sending" /\ HasPiece' /\ out'.kind = out.kind =>
    \/ Piece'[1] > Piece[1]
    \/ Piece'[1] = Piece[1] /\ Forms[out'.form] > Forms[out.form]

LEMMA HeadFits ==
  ASSUME NEW s, NEW from \in Nat, NEW to \in Nat, NEW size \in Nat, InARow(s, from, to, size),
         s # <<>>
  PROVE  Size(Head(s)) \in 1 .. size
<1>1. s \in Seq(Nat \X Nat) /\ 1 \in 1 .. Len(s)
  BY LenProperties, EmptySeq DEF InARow, Pieces
<1>2. Head(s) = s[1] /\ s[1] \in Nat \X Nat
  BY <1>1, HeadTailProperties, ElementOfSeq
<1>3. s[1][1] <= s[1][2] /\ s[1][2] < s[1][1] + size
  BY <1>1 DEF InARow
<1> QED
  BY <1>2, <1>3 DEF Size

\* PieceFits: every request of send_message carries a character at least, and at most
\* RICH_CHUNK_SIZE of them as rich text and TEXT_CHUNK_SIZE as HTML or plain text,
\* whatever the text and where its lines end.
THEOREM PiecesFit == DeliverySpec => []PieceFits
<1>1. DeliveryInv => PieceFits
  <2> SUFFICES ASSUME DeliveryInv, pc = "sending", HasPiece
               PROVE  Size(Piece) \in 1 .. (IF out.form = "rich" THEN RichSize ELSE TextSize)
    BY DEF PieceFits
  <2> DEFINE n == NextOf(out.kind)
             e == Ends(out.kind)
             r == out.rich
             l == out.legacy
  <2>1. /\ Rest(out, n, e) /\ n \in Nat /\ e \in Nat /\ RichSize \in Nat /\ TextSize \in Nat
    BY PieceIs, DeliveryConstants
  <2> HIDE DEF n, e
  <2>2. CASE out.form = "rich" /\ r # <<>>
    <3>1. l = <<>> /\ InARow(r, n, e, RichSize)
      BY <2>1, <2>2 DEF Rest
    <3>2. Piece = Head(r)
      BY <3>1 DEF Piece
    <3> HIDE DEF r
    <3>3. Size(Head(r)) \in 1 .. RichSize
      BY <2>1, <2>2, <3>1, HeadFits
    <3> QED
      BY <2>2, <3>2, <3>3
  <2>3. CASE out.form \in {"html", "plain"}
    <3> DEFINE h == Head(r)[2]
    <3>1. l # <<>> /\ InARow(l, n, h, TextSize) /\ h \in Nat
      <4>1. Head(r) \in Nat \X Nat
        BY <2>1, <2>3 DEF Rest
      <4> QED
        BY <2>1, <2>3, <4>1 DEF Rest
    <3>2. Piece = Head(l)
      BY <3>1 DEF Piece
    <3> HIDE DEF h, l
    <3>3. Size(Head(l)) \in 1 .. TextSize
      BY <2>1, <3>1, HeadFits
    <3> QED
      BY <2>3, <3>2, <3>3
  <2> QED
    BY <2>2, <2>3 DEF HasPiece
<1> QED
  BY <1>1, AlwaysDeliveryInv, PTL

\* The next request is for what follows on the shown.
PieceFollows ==
  pc = "sending" /\ HasPiece =>
    /\ Piece[1] = NextOf(out.kind) /\ Piece[1] <= Piece[2] /\ Piece[1] \in Nat /\ Piece[2] \in Nat
    /\ out.form \in {"rich", "html", "plain"}

LEMMA PieceFollowsOn == DeliveryInv => PieceFollows
<1> SUFFICES ASSUME DeliveryInv, pc = "sending", HasPiece
             PROVE  /\ Piece[1] = NextOf(out.kind) /\ Piece[1] <= Piece[2]
                    /\ Piece[1] \in Nat /\ Piece[2] \in Nat
                    /\ out.form \in {"rich", "html", "plain"}
  BY DEF PieceFollows
<1>1. /\ Piece \in Nat \X Nat /\ Piece[1] = NextOf(out.kind) /\ Piece[1] <= Piece[2]
  BY PieceIs
<1>2. out.form \in {"rich", "html", "plain"}
  BY DEF HasPiece
<1> QED
  BY <1>1, <1>2

\* One request: after it the next piece, the same piece in the next form, or none.
LEMMA RequestAdvances ==
  ASSUME DeliveryInv, PieceFollows', pc = "sending", HasPiece, NEW requests, Answered(requests),
         answer' = answer, pc' = "sending", HasPiece',
         requests["none"] = PieceDone, requests["other"] = GivenUp,
         \A e \in {"markup", "noMethod"} :
           \/ requests[e] = GivenUp
           \/ /\ requests[e].kind = out.kind /\ requests[e].form \in {"html", "plain"}
              /\ Forms[requests[e].form] > Forms[out.form]
  PROVE  \/ Piece'[1] > Piece[1]
         \/ Piece'[1] = Piece[1] /\ Forms[out'.form] > Forms[out.form]
<1>0. PICK k : k = out.kind
  OBVIOUS
<1>1. /\ Piece \in Nat \X Nat /\ Piece[1] = NextOf(k) /\ Piece[1] <= Piece[2]
      /\ out \in Outgoing
  BY <1>0, PieceIs
<1>2. out' = requests[error'] /\ Piece'[1] = NextOf(out.kind)'
  BY DEF Answered, PieceFollows
<1>3. out'.kind = k => Piece'[1] = NextOf(k)'
  BY <1>2 DEF NextOf, Starts, Body
<1>4. out' # GivenUp
  <2>1. GivenUp.form = "failed"
    BY <1>1 DEF Outgoing, GivenUp
  <2> QED
    BY <2>1 DEF HasPiece
<1>5. CASE Accepted /\ error' = "none"
  <2>1. out'.kind = k
    BY <1>0, <1>2, <1>5, PieceDoneIs
  <2>2. NextOf(k)' = Piece[2] + 1
    BY <1>0, <1>5, <2>1, AcceptedIs
  <2> QED
    BY <1>1, <1>3, <2>1, <2>2
<1>6. CASE Accepted /\ error' = "other"
  BY <1>2, <1>4, <1>6
<1>7. CASE error' \in Refusals /\ UNCHANGED shown
  <2>1. error' \in {"markup", "noMethod"}
    BY <1>2, <1>4, <1>7 DEF Refusals
  <2>2. out'.kind = k /\ Forms[out'.form] > Forms[out.form]
    BY <1>0, <1>2, <1>4, <2>1
  <2>3. NextOf(k)' = NextOf(k)
    BY <1>7, SameTexts
  <2> QED
    BY <1>1, <1>3, <2>2, <2>3
<1> QED
  BY <1>5, <1>6, <1>7 DEF Answered

\* Advances: each request of send_message is for a later position than the one before
\* it, or for the same one in the next of its three forms, so that a reply of n pieces
\* takes no more than a bounded number of requests, and none is ever made twice.
THEOREM RequestsAdvance == DeliverySpec => [][Advances]_deliveryVars
<1>1. ASSUME DeliveryInv, PieceFollows', DeliveryNext, pc = "sending", HasPiece, pc' = "sending",
             HasPiece', out'.kind = out.kind
      PROVE  \/ Piece'[1] > Piece[1]
             \/ Piece'[1] = Piece[1] /\ Forms[out'.form] > Forms[out.form]
  <2>1. out \in Outgoing
    BY <1>1, PieceIs
  <2>2. CASE SendRich
    <3> DEFINE o == [out EXCEPT !.legacy = ChunkText(Body(out.kind), Head(out.rich), TextSize),
                                !.form = "html"]
               requests == [e \in Errors |->
                 IF e = "none" THEN PieceDone
                 ELSE IF ShouldFallbackFromRich(e) THEN o ELSE GivenUp]
    <3>1. Answered(requests) /\ answer' = answer /\ out.form = "rich"
      BY <2>2 DEF SendRich
    <3>2. o.kind = out.kind /\ o.form = "html"
      <4> HIDE DEF DeliveryInv
      <4> QED
        BY <2>1 DEF Outgoing
    <3>3. Forms[o.form] > Forms[out.form]
      BY <3>1, <3>2 DEF Forms
    <3> HIDE DEF o
    <3>4. /\ requests["none"] = PieceDone /\ requests["other"] = GivenUp
          /\ \A e \in {"markup", "noMethod"} : requests[e] = o
      BY DEF Errors, ShouldFallbackFromRich
    <3> HIDE DEF requests
    <3> QED
      BY <1>1, <3>1, <3>2, <3>3, <3>4, RequestAdvances
  <2>3. CASE SendHtml
    <3> DEFINE o == [out EXCEPT !.form = "plain"]
               requests == [e \in Errors |->
                 IF e = "none" THEN PieceDone
                 ELSE IF ShouldFallbackFromHtml(e) THEN o ELSE GivenUp]
    <3>1. Answered(requests) /\ answer' = answer /\ out.form = "html"
      BY <2>3 DEF SendHtml
    <3>2. o.kind = out.kind /\ o.form = "plain"
      BY <2>1 DEF Outgoing
    <3>3. Forms[o.form] > Forms[out.form]
      BY <3>1, <3>2 DEF Forms
    <3> HIDE DEF o
    <3>4. /\ requests["none"] = PieceDone /\ requests["other"] = GivenUp
          /\ \A e \in {"markup", "noMethod"} : requests[e] \in {o, GivenUp}
      BY DEF Errors, ShouldFallbackFromHtml
    <3> HIDE DEF requests
    <3> QED
      BY <1>1, <3>1, <3>2, <3>3, <3>4, RequestAdvances
  <2>4. CASE SendPlain
    <3> DEFINE requests == [e \in Errors |-> IF e = "none" THEN PieceDone ELSE GivenUp]
    <3>1. Answered(requests) /\ answer' = answer
      BY <2>4 DEF SendPlain
    <3>2. /\ requests["none"] = PieceDone /\ requests["other"] = GivenUp
          /\ \A e \in {"markup", "noMethod"} : requests[e] = GivenUp
      BY DEF Errors
    <3> HIDE DEF requests
    <3> QED
      BY <1>1, <3>1, <3>2, RequestAdvances
  <2>5. CASE SendEnds
    <3>1. out.rich = <<>>
      BY <2>5 DEF SendEnds
    <3>2. Rest(out, NextOf(out.kind), Ends(out.kind))
      BY <1>1, PieceIs
    <3> QED
      BY <1>1, <3>1, <3>2 DEF Rest, HasPiece
  <2>6. pc = "sending" => SendRich \/ SendHtml \/ SendPlain \/ SendEnds \/ Aborted
    BY <1>1 DEF DeliveryNext, AskForFile, ReadChunk, FileDone, DownloadBreaks, Downloading,
       Prepare, ProviderAnswers, SendPhoto, PhotosDone, SendModelPicker
  <2>7. ~Aborted
    BY <1>1 DEF Aborted
  <2> QED
    BY <1>1, <2>2, <2>3, <2>4, <2>5, <2>6, <2>7
<1>2. DeliveryInv /\ PieceFollows' /\ [DeliveryNext]_deliveryVars => [Advances]_deliveryVars
  BY <1>1 DEF Advances
<1> QED
  BY <1>2, AlwaysDeliveryInv, PieceFollowsOn, PTL DEF DeliverySpec
=============================================================================
