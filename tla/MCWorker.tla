------------------------------ MODULE MCWorker ------------------------------
(* Two runs of one session, or one run; the worker process and its restart. *)
EXTENDS Worker

MCRuns == {1, 2}
MCSessionOf == [r \in MCRuns |-> "s"]

MCOneRun == {1}
MCSessionOfOne == [r \in MCOneRun |-> "s"]
=============================================================================
