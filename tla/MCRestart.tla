------------------------------ MODULE MCRestart ------------------------------
(* Constants for TLC: an allowed chat, a pinned one and an unknown one, three    *)
(* models of which one is a preset that is not configured yet, an owner and a    *)
(* guest.                                                                      *)
EXTENDS Restart

MCEntry == [k \in Keys |->
  [key |-> "token", name |-> "named",
   wire |-> IF k = "local" THEN "compat" ELSE "responses",
   url |-> IF k = "local" THEN "httpLocal" ELSE "none",
   insecure |-> FALSE,
   secret |-> IF k = "local" THEN "none" ELSE "named"]]

MCCan == [k \in Keys |-> CASE k = "local" -> {} [] k = "gpt" -> {"web", "images"} [] OTHER -> {"web"}]

MCConfig == [models |-> {"gpt", "local"},
             pins |-> [k \in Keys |-> [c \in Chats |-> IF k = "local" /\ c = "2" THEN 1 ELSE 0]],
             allowed |-> {"1"}, owners |-> {"owner"}]

Text(name, args) == [name |-> name, bot |-> NoName, args |-> args]
From(sender, chat, texts) == {[kind |-> "message", chat |-> chat, sender |-> sender, text |-> t] : t \in texts}

MCMessages ==
  From("owner", "1",
       {Text("model", <<"pin">>), Text("model", <<"pin", "local">>), Text("model", <<"unpin">>),
        Text("model", <<"add", "xai">>), Text("deny", <<"2">>), Text("deny", <<"1">>),
        Text("allow", <<"2">>), Text("shutdown", <<>>), Text("role", <<"tutor">>)})
  \cup From("guest", "1",
       {Text("model", <<"local">>), Text("model", <<"pin">>), Text("websearch", <<>>),
        Text("websearch", <<"status">>), Text("imagegen", <<"on">>), Text("reasoning", <<"high">>)})
  \cup From("guest", "2", {Text("mode", <<"message">>),
                           [name |-> "help", bot |-> "other", args |-> <<>>], Text(NoName, <<>>)})
  \cup From("guest", "3", {Text("pair", <<"code">>)})
  \cup {[kind |-> "join", chat |-> "2", sender |-> s, text |-> Text(NoName, <<>>)] :
          s \in {"owner", "guest"}}
=============================================================================
