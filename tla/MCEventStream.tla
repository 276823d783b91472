--------------------------- MODULE MCEventStream ----------------------------
(* One run, executed by one process, and the client that follows it.        *)
EXTENDS EventStream

MCRuns == {1}
MCSessionOf == [r \in MCRuns |-> "s"]
=============================================================================
