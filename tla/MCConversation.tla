--------------------------- MODULE MCConversation ---------------------------
(* Two requests; a name with a v1 file and a Feishu conversation.           *)
EXTENDS Conversation

MCDefaultModel == [v \in {"v1", "v2"} |-> IF v = "v1" THEN "m1" ELSE "m2"]
MCAllowedModels == [v \in {"v1", "v2"} |-> IF v = "v1" THEN {"m1", "m2"} ELSE {"m2"}]
MCAsk(entry, of, owner, version, model, source) ==
  [entry |-> entry, of |-> of, owner |-> owner, version |-> version,
   model |-> model, source |-> source]
MCAsks == {MCAsk("compat", "n", "local", None, None, "http"),
           MCAsk("compat", "n", "local", None, "m2", "feishu"),
           MCAsk("compat", "q1", "local", None, None, "http"),
           MCAsk("control", "q1", "alice", None, None, "http"),
           MCAsk("new", None, "alice", None, None, "http"),
           MCAsk("external", "c", "alice", None, None, "feishu"),
           MCAsk("external", "c", "alice", "v2", None, "feishu"),
           MCAsk("external", "c", "bob", None, "m1", "feishu")}
MCAsksOfName == {a \in MCAsks : a.of = "n"}
MCLegacy == [n \in {"n"} |-> <<"x", "y">>]
MCSize == [x \in {"q1", "q2", "x", "y"} |-> IF x = "q1" THEN 2 ELSE 1]
=============================================================================
