------------------------------- MODULE Worker -------------------------------
(***************************************************************************)
(* The worker process of server.py over the run table: the scheduler       *)
(* thread, the /chat and /chat/stream request threads, the tasks that      *)
(* execute leased runs, their heartbeats, and the semaphore _slots.        *)
(*                                                                         *)
(* One process lives at a time; a crash loses its tasks and a restart has  *)
(* a new EXECUTOR_ID.  Unlike in RunStore, a lease is used only by the     *)
(* task that got it, one operation after the other.  What goes wrong from  *)
(* outside (a crash, a thread that dies or stalls, a client that leaves, a *)
(* full disk) is counted in faults.                                        *)
(***************************************************************************)
EXTENDS RunStore

CONSTANTS
  MaxParallel,  \* MAX_PARALLEL_SESSIONS
  MaxFaults,    \* bound: faults in a behaviour
  MaxAbandoned  \* bound: abandoned streams in a behaviour, beyond them

ASSUME WorkerAssumption == /\ Executors \subseteq Nat /\ 1 \in Executors
                           /\ MaxParallel \in Nat \ {0}
                           /\ MaxFaults \in Nat /\ MaxAbandoned \in Nat

VARIABLES
  boot,    \* EXECUTOR_ID of the living process; its successor's is boot + 1
  slots,   \* permits left in the semaphore _slots
  tasks,   \* the threads that hold, or should hold, one permit each
  mode,    \* "up"; "closing": close_runtime has shut the pool down;
           \* "halted": and the scheduler's thread is gone
  faults

wvars == <<row, log, grants, boot, slots, tasks, mode, faults>>
store == <<row, log, grants>>

\* created: /chat or /chat/stream between its create_run and its claim_run.
\* claimed: before mark_running.  waiting: for the session's lock in run_turn.
\* turn: inside harness.run.  answered: harness.run returned.  raised: an
\* exception on its way to fail_run_best_effort.  An outcome: about to call
\* finish_run with it.
Places == {"created", "claimed", "waiting", "turn", "answered", "raised"}
          \cup Outcomes

\* beat: the task's heartbeat thread is alive.
Task == [run : Runs, epoch : Nat, path : {"scheduled", "chat", "stream"},
         pc : Places, beat : BOOLEAN]

WInit == /\ Init
         /\ boot = 1
         /\ slots = MaxParallel
         /\ tasks = {}
         /\ mode = "up"
         /\ faults = 0

-----------------------------------------------------------------------------
LeaseOf(t) == [run |-> t.run, epoch |-> t.epoch, executor |-> boot]

\* The WHERE of mark_running, heartbeat_lease and finish_run fails for t.
Stale(t) == ~(row[t.run].status \in Active /\ Holds(LeaseOf(t)))

Become(t, u) == tasks' = (tasks \ {t}) \cup {u} /\ UNCHANGED slots
Goto(t, pc)  == Become(t, [t EXCEPT !.pc = pc])

LeaveTwice(t) == tasks' = tasks \ {t} /\ slots' = slots + 2
LeaveWithPermit(t) == tasks' = tasks \ {t} /\ UNCHANGED slots

\* The finally clause: the permit goes back.
Leave(t) == tasks' = tasks \ {t} /\ slots' = slots + 1

Calm  == UNCHANGED <<boot, mode, faults>>
Fault == faults < MaxFaults /\ faults' = faults + 1 /\ UNCHANGED <<boot, mode>>

-----------------------------------------------------------------------------
(* Requests                                                                *)

\* The control-plane API and the bridge: operations without a permit.
ApiRequest == /\ \/ \E r \in Runs : \/ CreateRun(r)
                                    \/ FinalizeInputManifest(r)
                                    \/ RequestCancel(r)
                 \/ \E s \in Sessions : CancelLatestActiveRun(s)
              /\ UNCHANGED <<boot, slots, tasks, mode, faults>>

\* /chat and /chat/stream take a permit (or answer 429: no step), then create
\* a queued run with a fresh key.
ChatCreate(r, path) ==
  /\ slots > 0
  /\ CreateRun(r) /\ row'[r].status = "QUEUED"
  /\ tasks' = tasks \cup {[run |-> r, epoch |-> 0, path |-> path,
                           pc |-> "created", beat |-> FALSE]}
  /\ slots' = slots - 1
  /\ Calm

ChatClaimUnchecked(t) ==
  /\ t.pc = "created"
  /\ \/ ClaimRun(t.run, boot)
     \/ row[t.run].status \in Active /\ UNCHANGED store
  /\ Become(t, [t EXCEPT !.pc = "claimed", !.epoch = row'[t.run].epoch])
  /\ Calm

\* ... and claim it.  A refusal (the session is busy, the run was canceled or
\* the scheduler was faster) leaves the run as it is.
ChatClaim(t) ==
  /\ t.pc = "created"
  /\ \/ /\ ClaimRun(t.run, boot)
        /\ Become(t, [t EXCEPT !.pc = "claimed", !.epoch = row'[t.run].epoch])
     \/ /\ t.run \notin Claimable(row)
        /\ Leave(t)
        /\ UNCHANGED store
  /\ Calm

\* A client of /chat/stream that is gone when the SSE response begins: the
\* exception leaves stream_chat before the worker is submitted.
StreamAbandoned(t) ==
  /\ t.path = "stream" /\ t.pc = "claimed"
  /\ tasks' = tasks \ {t}
  /\ faults < MaxFaults + MaxAbandoned /\ faults' = faults + 1
  /\ UNCHANGED <<store, slots, boot, mode>>

-----------------------------------------------------------------------------
(* The scheduler                                                           *)

\* scheduler_loop: a permit is taken for claim_next_run and kept for a run.
Schedule ==
  /\ slots > 0 /\ mode = "up"
  /\ ClaimNextRun(boot)
  /\ LET new == grants' \ grants
     IN /\ tasks' = tasks \cup {[run |-> g.run, epoch |-> g.epoch, beat |-> FALSE,
                                 path |-> "scheduled", pc |-> "claimed"] : g \in new}
        /\ slots' = slots - Cardinality(new)
  /\ Calm

-----------------------------------------------------------------------------
(* execute_run_with_lease                                                  *)

StartUnmarked(t) == /\ t.pc = "claimed"
                    /\ Become(t, [t EXCEPT !.pc = "waiting", !.beat = TRUE])
                    /\ UNCHANGED store /\ Calm

\* mark_running, then the heartbeat thread and run_turn.
Start(t) ==
  /\ t.pc = "claimed"
  /\ \/ /\ MarkRunning(LeaseOf(t))
        /\ Become(t, [t EXCEPT !.pc = "waiting", !.beat = TRUE])
     \/ Stale(t) /\ Leave(t) /\ UNCHANGED store
  /\ Calm

\* run_turn takes session_lock(session_id).
EnterTurn(t) ==
  /\ t.pc = "waiting"
  /\ \A u \in tasks : u.pc = "turn" => SessionOf[u.run] # SessionOf[t.run]
  /\ Goto(t, "turn")
  /\ UNCHANGED store /\ Calm

\* The notification callbacks: every task's action records, and the deltas and
\* tool events of the scheduler's and the stream's.
Notify(t) == /\ t.pc = "turn"
             /\ AppendEvent(LeaseOf(t))
             /\ UNCHANGED <<boot, slots, tasks, mode, faults>>

EndTurn(t) == /\ t.pc = "turn"
              /\ \E pc \in {"answered", "raised"} : Goto(t, pc)
              /\ UNCHANGED store /\ Calm

\* cancel_requested, read in a transaction of its own before finish_run, comes
\* before an error that turn_error finds in the turn.
Settle(t) ==
  /\ t.pc = "answered"
  /\ IF Holds(LeaseOf(t)) /\ row[t.run].cancel
     THEN Goto(t, "CANCELED")
     ELSE \E pc \in {"FAILED", "SUCCEEDED"} : Goto(t, pc)
  /\ UNCHANGED store /\ Calm

\* finish_run, or fail_run_best_effort after an exception; lease_lost is final
\* for the task either way.
Finish(t) ==
  /\ t.pc \in Outcomes \cup {"raised"}
  /\ \/ FinishRun(LeaseOf(t), IF t.pc = "raised" THEN "FAILED" ELSE t.pc)
     \/ Stale(t) /\ UNCHANGED store
  /\ Leave(t)
  /\ Calm

\* mark_running, cancel_requested, materialize_run_artifacts or finish_run raises:
\* only the scheduler's and the stream's tasks catch it and fail the run; /chat
\* answers 500 and leaves it.  So does whoever fails to record a failure.
StepRaises(t) ==
  /\ t.pc \in {"claimed", "answered", "raised"} \cup Outcomes
  /\ IF t.path = "chat" \/ t.pc = "raised" THEN Leave(t)
     ELSE Become(t, [t EXCEPT !.pc = "raised", !.beat = FALSE])
  /\ Fault
  /\ UNCHANGED store

-----------------------------------------------------------------------------
(* Heartbeats, time, crashes, shutdown                                     *)

Heartbeat(t) ==
  /\ t.beat
  /\ \/ HeartbeatLease(LeaseOf(t)) /\ UNCHANGED <<slots, tasks>>
     \/ Stale(t) /\ Become(t, [t EXCEPT !.beat = FALSE]) /\ UNCHANGED store
  /\ Calm

\* An exception in heartbeat() ends the thread; the turn goes on.
HeartbeatDies(t) == /\ t.beat
                    /\ Become(t, [t EXCEPT !.beat = FALSE])
                    /\ Fault
                    /\ UNCHANGED store

\* Somebody is about to start the run or to renew its lease.
Attended(r) == \E t \in tasks : /\ t.run = r /\ Holds(LeaseOf(t))
                                /\ t.beat \/ t.pc = "claimed"

\* Preparations and unattended leases run out; no lease does so while the
\* scheduler's loop ends.
TimePasses(r) == /\ mode # "closing"
                 /\ row[r].status = "PREPARING" \/ ~Attended(r)
                 /\ DeadlinePasses(r)
                 /\ UNCHANGED <<boot, slots, tasks, mode, faults>>

\* The process sleeps through the lease of a task.
Stall(r) == /\ row[r].status \in Active /\ Attended(r)
            /\ DeadlinePasses(r)
            /\ Fault
            /\ UNCHANGED <<slots, tasks>>

\* The process dies and is started again.
Crash == /\ boot + 1 \in Executors /\ faults < MaxFaults
         /\ boot' = boot + 1
         /\ slots' = MaxParallel
         /\ tasks' = {}
         /\ mode' = "up"
         /\ faults' = faults + 1
         /\ UNCHANGED store

\* The pool's tasks; those of /chat run in daemon threads.
Pooled == {t \in tasks : t.path # "chat" /\ t.pc # "created"}

\* SIGTERM: close_runtime sets _scheduler_stop and shuts the pool down; futures
\* that no thread has taken up are canceled.  It counts as a fault.
Shutdown == /\ mode = "up" /\ boot + 1 \in Executors /\ faults < MaxFaults
            /\ mode' = "closing"
            /\ \E canceled \in SUBSET {t \in Pooled : t.pc = "claimed"} :
                 tasks' = tasks \ canceled
            /\ faults' = faults + 1
            /\ UNCHANGED <<store, boot, slots>>

\* The scheduler's loop ends.  Its inner loop does not look at _scheduler_stop:
\* it may lease one more run, and submit raises in its thread.
SchedulerEnds == /\ mode = "closing" /\ mode' = "halted"
                 /\ \/ ClaimNextRun(boot) /\ slots > 0 /\ slots' = slots - 1
                    \/ UNCHANGED <<store, slots>>
                 /\ UNCHANGED <<boot, tasks, faults>>

\* submit raises in stream_chat.
SubmitRefused(t) == /\ mode # "up" /\ t.path = "stream" /\ t.pc = "claimed"
                    /\ LeaveWithPermit(t)
                    /\ UNCHANGED store /\ Calm

\* The pool's turns are over: the process ends, with the threads of /chat, and
\* is started again.
Exit == /\ mode = "halted" /\ Pooled = {}
        /\ boot' = boot + 1 /\ mode' = "up"
        /\ slots' = MaxParallel
        /\ tasks' = {}
        /\ UNCHANGED <<store, faults>>

-----------------------------------------------------------------------------
Advance(t) == ChatClaim(t) \/ Start(t) \/ EnterTurn(t) \/ EndTurn(t)
              \/ Settle(t) \/ Finish(t)

WNext ==
  \/ ApiRequest
  \/ \E r \in Runs, path \in {"chat", "stream"} : ChatCreate(r, path)
  \/ Schedule
  \/ \E t \in tasks : Advance(t)
  \/ \E t \in tasks : Notify(t)
  \/ \E t \in tasks : Heartbeat(t)
  \/ \E t \in tasks : HeartbeatDies(t)
  \/ \E t \in tasks : StreamAbandoned(t)
  \/ \E t \in tasks : StepRaises(t)
  \/ \E r \in Runs : TimePasses(r)
  \/ \E r \in Runs : Stall(r)
  \/ Crash
  \/ Shutdown
  \/ SchedulerEnds
  \/ \E t \in tasks : SubmitRefused(t)
  \/ Exit

\* A task's thread runs and harness.run ends (it has a request timeout), the
\* scheduler's thread wakes every 0.25 s, heartbeats renew, time goes on; a
\* process that is shut down ends when its pool has.
WSpec == /\ WInit /\ [][WNext]_wvars
         /\ WF_wvars(\E t \in tasks : Advance(t))
         /\ WF_wvars(\E t \in tasks : Heartbeat(t))
         /\ WF_wvars(Schedule)
         /\ WF_wvars(SchedulerEnds \/ Exit)
         /\ WF_wvars(\E r \in Runs : TimePasses(r))

-----------------------------------------------------------------------------
(* Properties                                                              *)

WTypeOK == /\ TypeOK
           /\ boot \in Executors
           /\ slots \in 0..MaxParallel
           /\ tasks \subseteq Task
           /\ mode \in {"up", "closing", "halted"}
           /\ faults \in 0..(MaxFaults + MaxAbandoned)

(* Every execution of a run after its first is explained by a fault: no     *)
(* interleaving of the scheduler, /chat, cancels and heartbeats makes the   *)
(* worker execute a prompt twice.                                           *)
RetriesNeedFaults == \A r \in Runs : row[r].epoch <= 1 + faults

(* Every permit of the semaphore is there or held by one task: no path of   *)
(* the request and scheduler threads returns one twice, and until a process *)
(* is shut down each one that is lost is explained by a fault.              *)
PermitsKept == /\ slots + Cardinality(tasks) <= MaxParallel
               /\ mode = "up" => MaxParallel <= slots + Cardinality(tasks) + faults

(* A lease is executed by one task: a stale task and its successor never    *)
(* share the epoch that fences them off from each other.                    *)
OneTaskPerLease == \A t, u \in tasks :
  t.run = u.run /\ t.epoch = u.epoch => t = u

(* As long as nothing goes wrong outside, somebody attends to every active  *)
(* run, at the place its status says: none is left to its lease's end.      *)
LeasesAttended == faults = 0 => \A r \in Runs : row[r].status \in Active =>
  \E t \in tasks : /\ t.run = r /\ ~Stale(t)
                   /\ t.pc = "claimed" <=> row[r].status = "LEASED"
                   /\ t.beat <=> row[r].status = "RUNNING"

\* Streams that were abandoned took every permit, and nobody holds one.
PermitsGone == mode = "up" /\ slots = 0 /\ tasks = {}

(* Every run that is submitted ends, through crashes, shutdowns, lost       *)
(* heartbeats and abandoned streams, unless it was both canceled and struck *)
(* by a fault (CanceledRunsEnd), or the permits are gone for ever           *)
(* (LeasedRunsEnd).                                                         *)
SubmittedRunsEnd == \A r \in Runs :
  \/ row[r].status # "ABSENT" ~>
       row[r].status \in Terminal \/ (row[r].cancel /\ faults > 0)
  \/ <>[]PermitsGone

(* "POST /v1/runs/{run_id}/cancel records cancellation intent ... it        *)
(* reaches a durable terminal boundary" (protocol/README.md): a run whose   *)
(* cancellation was asked for ends.                                         *)
CanceledRunsEnd == \A r \in Runs : row[r].cancel ~> row[r].status \in Terminal

(* "The Agent continues to a durable idle boundary after a client           *)
(* disconnects" (stream_chat): a run that was leased to a stream ends even  *)
(* if its client leaves.                                                    *)
LeasedRunsEnd == \A r \in Runs :
  row[r].status = "LEASED" ~> row[r].status \in Terminal \/ row[r].cancel

(* append_event compares no lease, so a turn that lost its own goes on      *)
(* writing to the log; until a fault takes a lease away, what a turn writes *)
(* comes from the lease in force, and before the log is closed.             *)
StaleUpdatesNeedFaults == [][faults = 0 =>
  \A r \in Runs : \A i \in DOMAIN log'[r] \ DOMAIN log[r] :
    log'[r][i].kind = "update" => /\ row[r].status \in Active
                                  /\ log'[r][i].epoch = row[r].epoch]_wvars
=============================================================================
