------------------------------ MODULE Commands ------------------------------
(***************************************************************************)
(* What a Telegram text means (src/commands.rs): is it a command of this bot, *)
(* and what does it ask for, given the room it was sent in and its sender?    *)
(* Pure operators; the handlers that carry the actions out are in Restart.    *)
(*                                                                         *)
(* A text is a name, the bot it names after an `@', and the rest as a          *)
(* sequence of tokens; tokens are compared in lower case and written so here.  *)
(* A text that does not begin with a slash has no name.  Actions that only     *)
(* show something are not told apart.                                          *)
(***************************************************************************)
EXTENDS Naturals, Sequences, FiniteSets, Functions

CONSTANTS
  Keys,          \* model keys that config.toml may hold
  Chats,         \* chat ids, as the tokens that parse as one
  BotName        \* the bot's username, or NoName

NoName == "-"      \* no name, no bot, no key, no level
NoRole == <<>>

Modes == {"chat", "message"}
Levels == {"off", "low", "medium", "high", "max"}
Features == {"web", "images"}
KnownCommands == {"new", "id", "mode", "model", "role", "reasoning", "websearch", "imagegen",
                  "allow", "deny", "pair", "ollama", "shutdown", "help"}

RoomSettings == [model : Keys \cup {NoName}, mode : Modes, role : Seq(STRING),
                 thinking : Levels \cup {NoName}, features : SUBSET Features]

DefaultSettings == [model |-> NoName, mode |-> "chat", role |-> NoRole,
                    thinking |-> NoName, features |-> {}]

ForOtherBot(text) == text.bot # NoName /\ BotName # NoName /\ text.bot # BotName

\* parse
IsCommand(text) == text.name \in KnownCommands /\ ~ForOtherBot(text)
IsIgnored(text) == text.name # NoName /\ ForOtherBot(text)

-----------------------------------------------------------------------------
(* Actions.  A context holds the settings of the room, the key of the default  *)
(* model, the configured keys, the key the room is pinned to, what its model   *)
(* can do, and what check_privileged says of the sender.                       *)

Show == [op |-> "show"]
Reject(why) == [op |-> "reject", why |-> why]

\* owner_gate: an action of owners, if the sender is one and the message fresh.
Gated(context, action) ==
  CASE context.access = "allowed"  -> action
    [] context.access = "notOwner" -> Reject("OwnerNotAllowed")
    [] context.access = "stale"    -> Reject("OwnerStale")

RouteMode(args) ==
  IF args = <<>> THEN Show
  ELSE IF Head(args) \in Modes THEN [op |-> "setMode", mode |-> Head(args)]
  ELSE Reject("UnknownMode")

Effective(context) ==
  IF context.pinned # NoName THEN context.pinned
  ELSE IF context.settings.model # NoName THEN context.settings.model
  ELSE context.default

RoutePin(args, context) ==
  LET key == IF Len(args) > 1 THEN args[2] ELSE Effective(context)
  IN  Gated(context, IF key \in context.keys THEN [op |-> "pin", key |-> key]
                     ELSE Reject("UnknownModel"))

RouteAdd(args, context) ==
  Gated(context, IF Len(args) > 1 THEN [op |-> "add", key |-> args[2]] ELSE Show)

RouteSelect(key, context) ==
  CASE context.pinned # NoName -> Reject("PinnedModel")
    [] context.pinned = NoName /\ key \in context.keys -> [op |-> "setModel", key |-> key]
    [] OTHER -> Reject("UnknownModel")

\* pin, unpin and add work in pinned rooms too, and take precedence over keys.
RouteModel(args, context) ==
  IF args = <<>> THEN Show
  ELSE CASE Head(args) = "pin"   -> RoutePin(args, context)
         [] Head(args) = "unpin" -> Gated(context, [op |-> "unpin"])
         [] Head(args) = "add"   -> RouteAdd(args, context)
         [] OTHER -> RouteSelect(Head(args), context)

RouteRole(args) ==
  IF args = <<>> THEN Show
  ELSE [op |-> "setRole",
        role |-> IF Len(args) = 1 /\ Head(args) \in {"clear", "off", "none", "reset"}
                 THEN NoRole ELSE args]

RouteReasoning(args) ==
  IF args = <<>> THEN Show
  ELSE IF Head(args) \in {"default", "model", "reset"}
       THEN [op |-> "setThinking", level |-> NoName]
  ELSE IF Head(args) \in Levels THEN [op |-> "setThinking", level |-> Head(args)]
  ELSE Reject("UnknownReasoning")

On == {"on", "true", "yes", "enable", "enabled"}
Off == {"off", "false", "no", "disable", "disabled"}

\* A feature is not switched on in a room whose model cannot have it.
Gate(feature, enabled, context) ==
  IF enabled /\ feature \notin context.can THEN Reject("CapabilityUnsupported")
  ELSE [op |-> "setFeature", feature |-> feature, enabled |-> enabled]

\* Mutant: any other word is taken for no word.
FeatureWordOrToggle(feature, args, context) ==
  Gate(feature, IF args # <<>> /\ Head(args) \in On \cup Off THEN Head(args) \in On
                ELSE feature \notin context.settings.features, context)

\* route_web_search and route_image_generation: no argument toggles.
RouteFeature(feature, args, context) ==
  IF args = <<>> THEN Gate(feature, feature \notin context.settings.features, context)
  ELSE IF Head(args) = "status" THEN Show
  ELSE IF Head(args) \in On \cup Off THEN Gate(feature, Head(args) \in On, context)
  ELSE Reject("UnknownBoolean")

RouteApproval(command, args, context) ==
  Gated(context,
    CASE args = <<>> -> Reject("MissingChatId")
      [] args # <<>> /\ Head(args) \in Chats -> [op |-> command, chat |-> Head(args)]
      [] OTHER -> Reject("InvalidChatId"))

RoutePair(args) ==
  IF args = <<>> THEN Reject("MissingPairingCode") ELSE [op |-> "pair", code |-> Head(args)]

RouteOllama(args, context) ==
  Gated(context, IF args # <<>> /\ Head(args) = "unload" THEN [op |-> "unload"]
                 ELSE Reject("UnknownOllamaAction"))

Resolve(command, args, context) ==
  CASE command = "new" -> [op |-> "reset"]
    [] command \in {"id", "help"} -> Show
    [] command = "mode" -> RouteMode(args)
    [] command = "model" -> RouteModel(args, context)
    [] command = "role" -> RouteRole(args)
    [] command = "reasoning" -> RouteReasoning(args)
    [] command = "websearch" -> RouteFeature("web", args, context)
    [] command = "imagegen" -> RouteFeature("images", args, context)
    [] command \in {"allow", "deny"} -> RouteApproval(command, args, context)
    [] command = "pair" -> RoutePair(args)
    [] command = "ollama" -> RouteOllama(args, context)
    [] command = "shutdown" -> Gated(context, [op |-> "shutdown"])
=============================================================================
