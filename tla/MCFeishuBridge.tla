--------------------------- MODULE MCFeishuBridge ---------------------------
(* One run: of a Feishu message with or without an image, or of a client    *)
(* that sends two files with the same content and one with another.         *)
EXTENDS FeishuBridge

MCRuns == {1}
MCSessionOf == [r \in MCRuns |-> "s"]
MCDigests == {"a", "b"}
MCMessages == {<<>>, <<"a">>}
MCFiles == <<"a", "a", "b">>
=============================================================================
