----------------------------- MODULE MCRunStore -----------------------------
(* Two runs of one session, two executors.                                  *)
EXTENDS RunStore, TLC

MCRuns == {1, 2}
MCSessionOf == [r \in MCRuns |-> "s"]
MCSymmetry == Permutations(Executors)
=============================================================================
