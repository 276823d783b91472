----------------------------- MODULE RunContract -----------------------------
(***************************************************************************)
(* What the run table promises, without executors, leases or clocks.       *)
(*                                                                         *)
(* A run waits, is executed by one attempt after another, and ends once.   *)
(* Attempts are numbered; only the last one may supply the result; a run   *)
(* whose cancellation was asked for is never attempted again; a session    *)
(* executes one run at a time.  Several runs may move in one step, because *)
(* one transaction of the scheduler expires, requeues and leases.          *)
(***************************************************************************)
EXTENDS Naturals

CONSTANTS Runs, SessionOf

VARIABLE run   \* run[r] = [phase, attempt, cancel, result]

Phases == {"absent", "waiting", "active", "ended"}

Init == run = [r \in Runs |-> [phase |-> "absent", attempt |-> 0,
                               cancel |-> FALSE, result |-> 0]]

-----------------------------------------------------------------------------
(* The moves of one run, from record a to record b.                        *)

Submit(a, b) == /\ a.phase = "absent" /\ b.phase = "waiting"
                /\ b.attempt = a.attempt /\ ~b.cancel /\ b.result = 0

\* A new attempt, of a waiting run or of an active one whose executor is gone.
Attempt(a, b) == /\ a.phase \in {"waiting", "active"} /\ b.phase = "active"
                 /\ ~a.cancel /\ ~b.cancel
                 /\ b.attempt = a.attempt + 1 /\ b.result = 0

\* The executor is gone and the run waits again.
GiveUp(a, b) == /\ a.phase = "active" /\ b.phase = "waiting"
                /\ b.attempt = a.attempt /\ b.cancel = a.cancel /\ b.result = 0

AskCancel(a, b) == /\ a.phase = "active" /\ b.phase = "active"
                   /\ b.attempt = a.attempt /\ b.cancel /\ b.result = 0

\* Canceled or expired before an executor had it: there is no result.
Drop(a, b) == /\ a.phase = "waiting" /\ b.phase = "ended"
              /\ b.attempt = a.attempt /\ b.result = 0
              /\ a.cancel => b.cancel

\* The attempt in progress, and no earlier one, supplies the result.
Complete(a, b) == /\ a.phase = "active" /\ b.phase = "ended"
                  /\ b.attempt = a.attempt /\ b.cancel = a.cancel
                  /\ b.result = b.attempt

Move(a, b) == \/ b = a
              \/ Submit(a, b) \/ Attempt(a, b) \/ GiveUp(a, b)
              \/ AskCancel(a, b) \/ Drop(a, b) \/ Complete(a, b)

\* One run of a session is active at a time.
Exclusive(table) == \A r, q \in Runs :
    /\ table[r].phase = "active" /\ table[q].phase = "active"
    /\ SessionOf[r] = SessionOf[q]
    => r = q

Next == /\ run' \in [Runs -> [phase : Phases, attempt : Nat,
                              cancel : BOOLEAN, result : Nat]]
        /\ \A r \in Runs : Move(run[r], run'[r])
        /\ Exclusive(run')

Spec == Init /\ [][Next]_run
=============================================================================
