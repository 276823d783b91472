------------------------------ MODULE RunStore ------------------------------
(***************************************************************************)
(* The run table of control_plane.py and the lease protocol on it.         *)
(*                                                                         *)
(* Every operation of ControlPlane is one BEGIN IMMEDIATE transaction      *)
(* under the connection's lock, so every operation is one action.  The     *)
(* callers (request threads, executors, the scheduler, the bridge) are     *)
(* left unconstrained: they may call any operation at any time with any    *)
(* lease they were ever granted, stale ones included.                      *)
(*                                                                         *)
(* Time is abstracted to one deadline per run, 900 s after creation while  *)
(* the run is PREPARING and lease_expires_at while it is leased; it may    *)
(* pass at any moment, which covers every clock reading and every delay.   *)
(***************************************************************************)
EXTENDS Naturals, Sequences, FiniteSets

CONSTANTS
  Runs,        \* the runs, named by their rank in (created_at, id); a run also
               \* stands for its idempotency key, which is unique in the table
  SessionOf,   \* the session of each run
  Executors,   \* executor ids: one per control-plane process
  None,        \* SQL NULL
  MaxEpoch,    \* bound: leases per run
  MaxRepeats   \* bound: repeatable events in the logs, of all the runs together

ASSUME RunsAssumption == Runs \subseteq Nat /\ None \notin Executors
ASSUME BoundsAssumption == MaxEpoch \in Nat /\ MaxRepeats \in Nat

VARIABLES
  row,      \* row[r]: the run's row; "ABSENT" before the INSERT
  log,      \* log[r]: run_events of the run, in event_id order
  grants    \* history: every lease a claim has returned

vars == <<row, log, grants>>

Terminal == {"SUCCEEDED", "FAILED", "CANCELED", "EXPIRED"}
Active   == {"LEASED", "RUNNING"}
Statuses == {"ABSENT", "PREPARING", "QUEUED"} \cup Active \cup Terminal

\* What an executor reports to finish_run.
Outcomes == {"SUCCEEDED", "FAILED", "CANCELED"}

\* attempt is incremented with lease_epoch by both claims: epoch is both.
\* result is the epoch of the executor whose response or error the row holds.
Row == [status : Statuses, manifest : {"PENDING", "FINALIZED"}, epoch : Nat,
        executor : Executors \cup {None}, deadline : {"none", "ahead", "past"},
        cancel : BOOLEAN, result : Nat]

\* update: what the executor's notification callbacks append (deltas, tool
\* calls and results, action records).
\* cancel.requested: the status event of a cancel request on an active run.
Kinds == {"preparing", "queued", "input.manifest", "status",
          "cancel.requested", "update", "done", "error"}
Closing == {"done", "error"}
Event == [kind : Kinds, epoch : Nat]
Lease == [run : Runs, epoch : Nat, executor : Executors]

Sessions == {SessionOf[r] : r \in Runs}

NewRow == [status |-> "ABSENT", manifest |-> "PENDING", epoch |-> 0,
           executor |-> None, deadline |-> "none", cancel |-> FALSE,
           result |-> 0]

Init == /\ row = [r \in Runs |-> NewRow]
        /\ log = [r \in Runs |-> <<>>]
        /\ grants = {}

-----------------------------------------------------------------------------
(* Helpers                                                                 *)

\* _append_event_locked, for the executor of epoch e.
Entry(k, e) == [kind |-> k, epoch |-> e]

\* The transaction that rewrites one row and appends to its log.
Commit(r, new, entries) == /\ row' = [row EXCEPT ![r] = new]
                           /\ log' = [log EXCEPT ![r] = @ \o entries]

\* What callers may repeat without bound once a run is queued is bounded here.
Repeats(r) == {j \in 1..Len(log[r]) :
  /\ log[r][j].kind \in {"input.manifest", "cancel.requested", "update"}
  /\ \E i \in 1..(j - 1) : log[r][i].kind = "queued"}
Room == Cardinality(UNION {{r} \X Repeats(r) : r \in Runs}) < MaxRepeats

\* WHERE lease_epoch = ? AND executor_id = ?, with the caller's lease g.
HoldsAnyEpoch(g) == row[g.run].executor = g.executor
Holds(g) == /\ row[g.run].epoch = g.epoch
            /\ row[g.run].executor = g.executor

\* Mutation bodies for the checks' mutants stand beside what they mutate.
SweepKeepsLease(w) ==
  IF w.status = "PREPARING" /\ w.deadline = "past"
  THEN [w EXCEPT !.status = "EXPIRED", !.deadline = "none"]
  ELSE IF w.status = "RUNNING" /\ w.deadline = "past"
  THEN [w EXCEPT !.status = "QUEUED", !.cancel = FALSE,
                 !.executor = None, !.deadline = "none"]
  ELSE w

SweepEager(w) ==
  IF w.status \in Active \cup {"PREPARING"}
  THEN [w EXCEPT !.status = "QUEUED", !.executor = None, !.deadline = "none"]
  ELSE w

\* The two UPDATEs a claim_next_run starts with: preparations that timed out
\* expire, runs whose lease ran out are queued again.
Sweep(w) ==
  IF w.status = "PREPARING" /\ w.deadline = "past"
  THEN [w EXCEPT !.status = "EXPIRED", !.deadline = "none"]
  ELSE IF w.status \in Active /\ w.deadline = "past"
  THEN [w EXCEPT !.status = "QUEUED", !.executor = None, !.deadline = "none"]
  ELSE w

SessionIdle(table, s) ==
  \A q \in Runs : SessionOf[q] = s => table[q].status \notin Active

ClaimableWhileBusy(table) ==
  {r \in Runs : table[r].status = "QUEUED" /\ ~table[r].cancel}
ClaimableCanceled(table) ==
  {r \in Runs : table[r].status = "QUEUED" /\ SessionIdle(table, SessionOf[r])}

\* The WHERE of the two claims.
Claimable(table) ==
  {r \in Runs : /\ table[r].status = "QUEUED"
                /\ ~table[r].cancel
                /\ SessionIdle(table, SessionOf[r])}

LeasedSameEpoch(w, e) == [w EXCEPT !.status = "LEASED", !.executor = e,
                                   !.deadline = "ahead"]

\* The row a claim by executor e leaves behind.
Leased(w, e) == [w EXCEPT !.status = "LEASED", !.epoch = @ + 1,
                          !.executor = e, !.deadline = "ahead"]

\* Lease r of table to e.
Grant(table, r, e) ==
  /\ table[r].epoch < MaxEpoch
  /\ row' = [table EXCEPT ![r] = Leased(table[r], e)]
  /\ log' = [log EXCEPT ![r] = Append(@, Entry("status", table[r].epoch + 1))]
  /\ grants' = grants \cup
               {[run |-> r, epoch |-> table[r].epoch + 1, executor |-> e]}

-----------------------------------------------------------------------------
(* Requests                                                                *)

CreateRunAsCreated(r) ==
  /\ row[r].status = "ABSENT"
  /\ Commit(r, [NewRow EXCEPT !.status = "CREATED", !.deadline = "ahead"],
            <<Entry("preparing", 0)>>)
  /\ UNCHANGED grants

\* create_run, with the initial status asked for.  A row with the key is
\* returned as it is: no step.
CreateRun(r) ==
  /\ row[r].status = "ABSENT"
  /\ \/ Commit(r, [NewRow EXCEPT !.status = "PREPARING", !.deadline = "ahead"],
               <<Entry("preparing", 0)>>)
     \/ Commit(r, [NewRow EXCEPT !.status = "QUEUED", !.manifest = "FINALIZED"],
               <<Entry("queued", 0)>>)
  /\ UNCHANGED grants

FinalizeQueuesOnly(r) ==
  /\ row[r].status = "PREPARING"
  /\ Commit(r, [row[r] EXCEPT !.status = "QUEUED", !.deadline = "none"],
            <<Entry("input.manifest", 0), Entry("queued", 0)>>)
  /\ UNCHANGED grants

FinalizeRequeues(r) ==
  /\ row[r].status \in {"PREPARING", "QUEUED"} \cup Active \cup Terminal
  /\ Commit(r, [row[r] EXCEPT !.manifest = "FINALIZED", !.status = "QUEUED",
                              !.deadline = "none"],
            <<Entry("input.manifest", 0), Entry("queued", 0)>>)
  /\ UNCHANGED grants

\* finalize_input_manifest: queues a run in preparation; repeated later, it
\* only logs.  For a terminal run it raises.
FinalizeInputManifest(r) ==
  /\ \/ /\ row[r].status = "PREPARING"
        /\ Commit(r, [row[r] EXCEPT !.manifest = "FINALIZED", !.status = "QUEUED",
                                    !.deadline = "none"],
                  <<Entry("input.manifest", 0), Entry("queued", 0)>>)
     \/ /\ row[r].status \in {"QUEUED"} \cup Active
        /\ Room
        /\ Commit(r, [row[r] EXCEPT !.manifest = "FINALIZED"],
                  <<Entry("input.manifest", 0)>>)
  /\ UNCHANGED grants

CancelEndsActive(r) ==
  Commit(r, [row[r] EXCEPT !.status = "CANCELED", !.cancel = TRUE,
                           !.deadline = "none"],
         <<Entry("done", 0)>>)

CancelAnnouncesDone(r) ==
  /\ row[r].status \in {"PREPARING", "QUEUED"} \cup Active
  /\ Commit(r, [row[r] EXCEPT !.cancel = TRUE], <<Entry("done", 0)>>)

\* _request_cancel_locked, for a run that is not terminal (else: no step).
Cancel(r) ==
  \/ /\ row[r].status \in {"PREPARING", "QUEUED"}
     /\ Commit(r, [row[r] EXCEPT !.status = "CANCELED", !.cancel = TRUE,
                                 !.deadline = "none"],
               <<Entry("done", 0)>>)
  \/ /\ row[r].status \in Active
     /\ Room
     /\ Commit(r, [row[r] EXCEPT !.cancel = TRUE], <<Entry("cancel.requested", 0)>>)

RequestCancel(r) == Cancel(r) /\ UNCHANGED grants

\* cancel_latest_active_run_for_internal_bridge
CancelLatestActiveRun(s) ==
  \E r \in Runs :
    LET unfinished(q) == /\ SessionOf[q] = s
                         /\ row[q].status \notin Terminal \cup {"ABSENT"}
    IN /\ unfinished(r)
       /\ \A q \in Runs : unfinished(q) => q <= r
       /\ Cancel(r)
       /\ UNCHANGED grants

-----------------------------------------------------------------------------
(* Leases                                                                  *)

\* claim_run: a request thread claims the run it has just created.  No sweep.
ClaimRun(r, e) == r \in Claimable(row) /\ Grant(row, r, e)

\* claim_next_run: the scheduler sweeps, then leases the oldest claimable run.
ClaimNextRun(e) ==
  LET swept == [r \in Runs |-> Sweep(row[r])]
      ready == Claimable(swept)
  IN \/ \E r \in ready : (\A q \in ready : r <= q) /\ Grant(swept, r, e)
     \/ /\ ready = {}
        /\ row' = swept
        /\ UNCHANGED <<log, grants>>

\* mark_running
MarkRunning(g) ==
  /\ row[g.run].status = "LEASED"
  /\ Holds(g)
  /\ Commit(g.run, [row[g.run] EXCEPT !.status = "RUNNING", !.deadline = "ahead"],
            <<Entry("status", g.epoch)>>)
  /\ UNCHANGED grants

\* heartbeat_lease: revives a lease that ran out and was not yet swept.
HeartbeatLease(g) ==
  /\ row[g.run].status = "RUNNING"
  /\ Holds(g)
  /\ row' = [row EXCEPT ![g.run].deadline = "ahead"]
  /\ UNCHANGED <<log, grants>>

\* finish_run
FinishRun(g, outcome) ==
  /\ row[g.run].status \in Active
  /\ Holds(g)
  /\ Commit(g.run, [row[g.run] EXCEPT !.status = outcome, !.deadline = "none",
                                      !.result = g.epoch],
            <<Entry(IF outcome = "SUCCEEDED" THEN "done" ELSE "error", g.epoch)>>)
  /\ UNCHANGED grants

\* append_event from an executor: neither the lease nor the status is checked.
AppendEvent(g) ==
  /\ Room
  /\ log' = [log EXCEPT ![g.run] = Append(@, Entry("update", g.epoch))]
  /\ UNCHANGED <<row, grants>>

\* The run's deadline passes.
DeadlinePasses(r) ==
  /\ row[r].deadline = "ahead"
  /\ row' = [row EXCEPT ![r].deadline = "past"]
  /\ UNCHANGED <<log, grants>>

-----------------------------------------------------------------------------
Next ==
  \/ \E r \in Runs : CreateRun(r)
  \/ \E r \in Runs : FinalizeInputManifest(r)
  \/ \E r \in Runs : RequestCancel(r)
  \/ \E s \in Sessions : CancelLatestActiveRun(s)
  \/ \E r \in Runs, e \in Executors : ClaimRun(r, e)
  \/ \E e \in Executors : ClaimNextRun(e)
  \/ \E g \in grants : MarkRunning(g)
  \/ \E g \in grants : HeartbeatLease(g)
  \/ \E g \in grants, outcome \in Outcomes : FinishRun(g, outcome)
  \/ \E g \in grants : AppendEvent(g)
  \/ \E r \in Runs : DeadlinePasses(r)

Spec == Init /\ [][Next]_vars

-----------------------------------------------------------------------------
(* Properties                                                              *)

TypeOK == /\ row \in [Runs -> Row]
          /\ log \in [Runs -> Seq(Event)]
          /\ grants \subseteq Lease

(* A session has at most one leased or running run (invariant 4 of the      *)
(* design), although two claim paths, the sweep and stale executors race.   *)
OneActiveRunPerSession == \A r, q \in Runs :
  /\ row[r].status \in Active /\ row[q].status \in Active
  /\ SessionOf[r] = SessionOf[q]
  => r = q

(* No executor of an earlier epoch ever supplies a run's result: what the   *)
(* row holds was written under the newest lease ever granted on the run.    *)
ResultOfNewestLease == \A r \in Runs : \A g \in grants :
  g.run = r /\ row[r].result # 0 => g.epoch <= row[r].result

(* An active run is held by exactly the newest lease granted on it, so at   *)
(* most one executor passes the WHERE of mark_running, heartbeat, finish.   *)
HeldByNewestLease == \A r \in Runs : row[r].status \in Active =>
  /\ \E g \in grants : g.run = r /\ Holds(g)
  /\ \A g \in grants : g.run = r => g.epoch <= row[r].epoch
  /\ \A g, h \in grants : g.run = r /\ h.run = r /\ g.epoch = h.epoch => g = h

(* A run's log closes at most once, exactly when the run ends other than by *)
(* the silent preparation timeout: a retried run is not closed early.       *)
Closings(entries) == {i \in 1..Len(entries) : entries[i].kind \in Closing}
ClosedOnce == \A r \in Runs :
  /\ \A i, j \in Closings(log[r]) : i = j
  /\ Closings(log[r]) # {} <=> row[r].status \in Outcomes

(* An executor only ever sees a run whose input manifest is final.          *)
LeasedOnlyWhenFinalized == \A r \in Runs :
  row[r].epoch > 0 \/ row[r].status = "QUEUED" => row[r].manifest = "FINALIZED"

(* The strengthening that makes the invariants above inductive: what one   *)
(* row says about itself, and how the granted leases sit under the rows.    *)
RowOK(w) ==
  /\ w.status \in {"ABSENT", "PREPARING"} => w.epoch = 0 /\ ~w.cancel
  /\ w.status \in Terminal => w.deadline = "none"
  /\ w.result # 0 => w.status \in Outcomes /\ w.result = w.epoch
  /\ w.epoch > 0 \/ w.status \in {"QUEUED"} \cup Active => w.manifest = "FINALIZED"

LeasesNumbered ==
  /\ \A g \in grants : 0 < g.epoch /\ g.epoch <= row[g.run].epoch
  /\ \A g, h \in grants : g.run = h.run /\ g.epoch = h.epoch => g = h

ActiveHeld == \A r \in Runs :
  row[r].status \in Active => \E g \in grants : g.run = r /\ Holds(g)

(* What an induction on the steps needs: the running invariants with RowOK. *)
IInv == /\ TypeOK
        /\ OneActiveRunPerSession
        /\ \A r \in Runs : RowOK(row[r])
        /\ LeasesNumbered
        /\ ActiveHeld
        /\ ClosedOnce

(* A terminal run is immutable: no later finalize, cancel, sweep, heartbeat *)
(* or stale executor changes its row.  The one column that may still change *)
(* is event_seq, which counts the events and is no part of the row here but *)
(* the length of the log.                                                   *)
TerminalIsFinal == [][\A r \in Runs :
  row[r].status \in Terminal => row'[r] = row[r]]_vars

(* Once cancellation was asked for, the run is never leased again, whatever *)
(* happens to the lease it had.                                             *)
NoLeaseAfterCancel == [][\A r \in Runs :
  row[r].cancel => row'[r].cancel /\ row'[r].epoch = row[r].epoch]_vars

Phase(status) == CASE status = "ABSENT" -> "absent"
                   [] status \in {"PREPARING", "QUEUED"} -> "waiting"
                   [] status \in Active -> "active"
                   [] OTHER -> "ended"

\* What the contract sees of a row.
Seen(w) == [phase |-> Phase(w.status), attempt |-> w.epoch,
            cancel |-> w.cancel, result |-> w.result]

Contract == INSTANCE RunContract WITH run <- [r \in Runs |-> Seen(row[r])]

(* The table with its leases keeps the promise of RunContract.              *)
ImplementsContract == Contract!Spec
=============================================================================
