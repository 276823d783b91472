---------------------------- MODULE WorkerProofs ----------------------------
(***************************************************************************)
(* Theorems of Worker, over the invariant of RunStore: for every set of    *)
(* runs and sessions, and any number of permits, processes and faults.     *)
(***************************************************************************)
EXTENDS Worker, RunStoreProofs, FiniteSetTheorems

-----------------------------------------------------------------------------
(* The inductive invariant.                                                *)

Waiting == {"ABSENT", "PREPARING", "QUEUED"}

\* A task of the living process attends to the run, under the lease in force,
\* at the place the status says.
Secure(r) ==
  /\ row[r].status \in Active /\ row[r].deadline = "ahead"
  /\ \E t \in tasks : /\ t.run = r /\ Holds(LeaseOf(t))
                      /\ t.pc = "claimed" <=> row[r].status = "LEASED"
                      /\ t.beat <=> row[r].status = "RUNNING"

\* Every lease but one was paid for with a fault, and that one too if the run
\* may be leased again.  While a process ends nobody is looked after, so a
\* fault is still to spare there: the shutdown was one.
Paid(r) ==
  IF mode = "up"
  THEN \/ row[r].epoch <= faults
       \/ /\ row[r].epoch <= faults + 1
          /\ row[r].status \in Terminal \/ Secure(r)
  ELSE /\ row[r].epoch <= faults
       /\ \/ row[r].status \in Waiting
          \/ mode = "closing" /\ row[r].deadline = "past"
          => row[r].epoch < faults

\* What a task holds: before its claim nothing, then a lease of this process.
TaskOK(t) == IF t.pc = "created"
             THEN t.epoch = 0 /\ ~t.beat /\ row[t.run].status # "ABSENT"
             ELSE LeaseOf(t) \in grants

ProcessOK == /\ boot \in Executors /\ faults \in 0..(MaxFaults + MaxAbandoned)
             /\ mode \in {"up", "closing", "halted"}
             /\ mode # "up" => boot + 1 \in Executors

\* No permit is returned twice.
PermitsOnce == slots + Cardinality(tasks) <= MaxParallel

TasksOK == /\ tasks \subseteq Task /\ IsFiniteSet(tasks) /\ slots \in Nat
           /\ PermitsOnce
           /\ \A t \in tasks : TaskOK(t)
           /\ OneTaskPerLease

WInv == IInv /\ ProcessOK /\ TasksOK /\ \A r \in Runs : Paid(r)

-----------------------------------------------------------------------------
(* What the table does.                                                    *)

(* A claim adds a lease; nothing takes one back.                           *)
LEMMA GrantsGrow == ASSUME [Next]_vars PROVE grants \subseteq grants'
<1>1. ASSUME NEW r \in Runs, CreateRun(r) PROVE grants' = grants
  BY <1>1 DEF CreateRun
<1>2. ASSUME NEW r \in Runs, FinalizeInputManifest(r) PROVE grants' = grants
  BY <1>2 DEF FinalizeInputManifest
<1>3. ASSUME NEW r \in Runs, RequestCancel(r) PROVE grants' = grants
  BY <1>3 DEF RequestCancel
<1>4. ASSUME NEW s \in Sessions, CancelLatestActiveRun(s) PROVE grants' = grants
  BY <1>4 DEF CancelLatestActiveRun
<1>5. ASSUME NEW r \in Runs, NEW e \in Executors, ClaimRun(r, e)
      PROVE  grants \subseteq grants'
  BY <1>5 DEF ClaimRun, Grant
<1>6. ASSUME NEW e \in Executors, ClaimNextRun(e) PROVE grants \subseteq grants'
  BY <1>6 DEF ClaimNextRun, Grant
<1>7. ASSUME NEW g \in grants, NEW outcome \in Outcomes,
             MarkRunning(g) \/ HeartbeatLease(g) \/ FinishRun(g, outcome) \/ AppendEvent(g)
      PROVE  grants' = grants
  BY <1>7 DEF MarkRunning, HeartbeatLease, FinishRun, AppendEvent
<1>8. ASSUME NEW r \in Runs, DeadlinePasses(r) PROVE grants' = grants
  BY <1>8 DEF DeadlinePasses
<1>9. "FAILED" \in Outcomes
  BY DEF Outcomes
<1> QED BY <1>1, <1>2, <1>3, <1>4, <1>5, <1>6, <1>7, <1>8, <1>9 DEF Next, vars

(* A row that was inserted stays.                                          *)
LEMMA RowsStay ==
  ASSUME IInv, [Next]_vars, NEW r \in Runs, row[r].status # "ABSENT"
  PROVE  row'[r].status # "ABSENT"
<1>1. RowStep(row[r], row'[r])
  BY StepRows
<1>2. Seen(row[r]).phase # "absent"
  BY DEF Seen, Phase, Active
<1>3. Seen(row'[r]).phase # "absent"
  BY <1>1, <1>2 DEF RowStep, Contract!Move, Contract!Submit, Contract!Attempt,
     Contract!GiveUp, Contract!AskCancel, Contract!Drop, Contract!Complete
<1> QED BY <1>3 DEF Seen, Phase, Active

(* The newest lease on an active run has its row's epoch, which is not 0.  *)
LEMMA ActiveEpoch ==
  ASSUME IInv, NEW r \in Runs, row[r].status \in Active
  PROVE  row[r].epoch \in Nat /\ row[r].epoch > 0
<1>1. PICK g \in grants : g.run = r /\ Holds(g)
  BY DEF IInv, ActiveHeld
<1>2. g.epoch > 0 /\ g.epoch \in Nat
  BY DEF IInv, LeasesNumbered, TypeOK, Lease
<1> QED BY <1>1, <1>2 DEF Holds

\* The table a claim may find: as it is, or after the sweep.
Swept(table) == /\ table \in [Runs -> Row]
                /\ \A q \in Runs : table[q] \in {row[q], Sweep(row[q])}

(* The row that a claim leaves behind, and where it comes from.            *)
LEMMA LeasedRow ==
  ASSUME IInv, NEW r \in Runs, NEW e \in Executors, NEW table,
         Swept(table), Grant(table, r, e), r \in Claimable(table)
  PROVE  /\ row[r].epoch \in Nat /\ table[r].epoch = row[r].epoch
         /\ row'[r].epoch = row[r].epoch + 1 /\ row'[r].executor = e
         /\ row'[r].status = "LEASED"
         /\ row'[r].deadline = "ahead"
         /\ \A q \in Runs \ {r} : row'[q] = table[q]
         /\ \/ row[r].status = "QUEUED"
            \/ /\ table[r] # row[r]
               /\ row[r].status \in Active /\ row[r].deadline = "past"
<1>1. row[r] \in Row /\ Sweep(row[r]).epoch = row[r].epoch /\ Sweep(row[r]) \in Row
  BY SweepFields, SweepType DEF IInv, TypeOK
<1>swept. table[r] \in {row[r], Sweep(row[r])} /\ table \in [Runs -> Row]
  BY DEF Swept
<1>2. table[r].epoch = row[r].epoch
  BY <1>1, <1>swept
<1>3. row[r].epoch \in Nat
  BY <1>1 DEF Row
<1>4. /\ row'[r] = Leased(table[r], e)
      /\ \A q \in Runs \ {r} : row'[q] = table[q]
  BY <1>swept DEF Grant
<1>5. /\ row'[r].epoch = row[r].epoch + 1 /\ row'[r].executor = e
      /\ row'[r].status = "LEASED" /\ row'[r].deadline = "ahead"
  <2>1. table[r] \in Row
    BY <1>swept
  <2> QED BY <1>2, <1>4, <2>1 DEF Leased, Row
<1>6. table[r].status = "QUEUED"
  BY DEF Claimable
<1>7. \/ row[r].status = "QUEUED"
      \/ table[r] # row[r] /\ row[r].status \in Active /\ row[r].deadline = "past"
  <2>1. CASE table[r] = row[r]
    BY <1>6, <2>1
  <2>2. CASE table[r] # row[r]
    <3>1. table[r] = Sweep(row[r])
      BY <2>2, <1>swept
    <3>2. Sweep(row[r]).status = "QUEUED"
      BY <3>1, <1>6
    <3>3. CASE row[r].status = "PREPARING" /\ row[r].deadline = "past"
      BY <3>2, <3>3, <1>1 DEF Sweep, Row
    <3>4. CASE row[r].status \in Active /\ row[r].deadline = "past"
      BY <2>2, <3>4
    <3>5. CASE Sweep(row[r]) = row[r]
      BY <3>2, <3>5
    <3> QED BY <3>3, <3>4, <3>5 DEF Sweep
  <2> QED BY <2>1, <2>2
<1> QED BY <1>2, <1>3, <1>4, <1>5, <1>7

(* A claim's lease is newer than every other on its run.                   *)
LEMMA FreshLease ==
  ASSUME IInv, NEW r \in Runs, NEW e \in Executors, NEW table,
         Swept(table), Grant(table, r, e), r \in Claimable(table)
  PROVE  \E g \in Lease \ grants :
           /\ g.run = r /\ g.epoch = row[r].epoch + 1 /\ g.executor = e
           /\ grants' = grants \cup {g}
<1> DEFINE g == [run |-> r, epoch |-> row[r].epoch + 1, executor |-> e]
<1>1. row[r].epoch \in Nat /\ table[r].epoch = row[r].epoch
  BY LeasedRow
<1>2. g \in Lease /\ grants' = grants \cup {g}
  BY <1>1 DEF Grant, Lease
<1>3. g \notin grants
  <2>1. \A h \in grants : h.run = r => h.epoch <= row[r].epoch
    BY DEF IInv, LeasesNumbered
  <2> QED BY <1>1, <2>1
<1> QED BY <1>2, <1>3

-----------------------------------------------------------------------------
(* What happens to the tasks.                                              *)

(* A step that leaves no task without its permit and takes away nobody's   *)
(* lease: every new task is one of the old or has what it should.          *)
LEMMA TasksStay ==
  ASSUME WInv, [Next]_vars, boot' = boot, tasks' \subseteq tasks, slots' \in Nat,
         slots' + Cardinality(tasks') <= MaxParallel
  PROVE  TasksOK'
<1>1. /\ \A t \in tasks : TaskOK(t) /\ t.run \in Runs
      /\ tasks \subseteq Task /\ IsFiniteSet(tasks) /\ OneTaskPerLease
  BY DEF WInv, TasksOK, Task
<1>2. IsFiniteSet(tasks')
  BY <1>1, FS_Subset
<1>3. ASSUME NEW t \in tasks' PROVE TaskOK(t)'
  BY <1>1, RowsStay, GrantsGrow DEF TaskOK, LeaseOf, WInv
<1> QED BY <1>1, <1>2, <1>3 DEF TasksOK, PermitsOnce, OneTaskPerLease

(* One more element in a finite set.                                       *)
LEMMA OneMore ==
  ASSUME NEW S, NEW x, IsFiniteSet(S)
  PROVE  /\ IsFiniteSet(S \cup {x})
         /\ Cardinality(S) \in Nat /\ Cardinality(S \cup {x}) \in Nat
         /\ Cardinality(S \cup {x}) <= Cardinality(S) + 1
<1>1. IsFiniteSet(S \cup {x})
  BY FS_AddElement
<1>2. Cardinality(S) \in Nat /\ Cardinality(S \cup {x}) \in Nat
  BY <1>1, FS_CardinalityType
<1>3. Cardinality(S \cup {x}) = IF x \in S THEN Cardinality(S) ELSE Cardinality(S) + 1
  BY FS_AddElement
<1> QED BY <1>1, <1>2, <1>3

(* A task gets on, and no other task has its lease.                        *)
LEMMA TaskBecomes ==
  ASSUME WInv, [Next]_vars, boot' = boot, NEW t \in tasks, NEW u \in Task,
         Become(t, u), TaskOK(u)',
         \A v \in tasks \ {t} : v.run = u.run => v.epoch # u.epoch
  PROVE  TasksOK'
<1>1. /\ \A v \in tasks : TaskOK(v) /\ v.run \in Runs
      /\ tasks \subseteq Task /\ IsFiniteSet(tasks) /\ OneTaskPerLease
      /\ slots \in Nat /\ slots + Cardinality(tasks) <= MaxParallel
  BY DEF WInv, TasksOK, Task, PermitsOnce
<1>2. slots' = slots /\ tasks' = (tasks \ {t}) \cup {u}
  BY DEF Become
<1>3. /\ IsFiniteSet(tasks \ {t}) /\ Cardinality(tasks \ {t}) = Cardinality(tasks) - 1
      /\ Cardinality(tasks) \in Nat
  BY <1>1, FS_RemoveElement, FS_CardinalityType
<1>4. IsFiniteSet(tasks') /\ Cardinality(tasks') <= Cardinality(tasks) /\ Cardinality(tasks') \in Nat
  <2> DEFINE S == tasks \ {t}
  <2>1. IsFiniteSet(S) /\ tasks' = S \cup {u} /\ Cardinality(S) = Cardinality(tasks) - 1
    BY <1>2, <1>3
  <2> HIDE DEF S
  <2>2. /\ IsFiniteSet(S \cup {u})
        /\ Cardinality(S) \in Nat /\ Cardinality(S \cup {u}) \in Nat
        /\ Cardinality(S \cup {u}) <= Cardinality(S) + 1
    BY <2>1, OneMore
  <2> QED BY <1>3, <2>1, <2>2
<1>5. PermitsOnce' /\ slots' \in Nat
  BY <1>1, <1>2, <1>3, <1>4, WorkerAssumption DEF PermitsOnce
<1>6. ASSUME NEW v \in tasks' PROVE TaskOK(v)'
  <2>1. CASE v \in tasks
    BY <1>1, <2>1, RowsStay, GrantsGrow DEF TaskOK, LeaseOf, WInv
  <2> QED BY <1>2, <2>1
<1>7. OneTaskPerLease'
  BY <1>1, <1>2 DEF OneTaskPerLease
<1> QED BY <1>1, <1>2, <1>4, <1>5, <1>6, <1>7 DEF TasksOK

(* A task gets on, with the lease it has.                                  *)
LEMMA TaskMoves ==
  ASSUME WInv, [Next]_vars, boot' = boot, NEW t \in tasks, NEW u \in Task,
         Become(t, u), u.run = t.run, u.epoch = t.epoch,
         t.pc # "created", u.pc # "created"
  PROVE  TasksOK'
<1>1. TaskOK(t) /\ \A v \in tasks \ {t} : v.run = t.run => v.epoch # t.epoch
  BY DEF WInv, TasksOK, OneTaskPerLease
<1>2. TaskOK(u)'
  BY <1>1, GrantsGrow DEF TaskOK, LeaseOf
<1> QED BY <1>1, <1>2, TaskBecomes

(* A task is over, and its permit goes back or is lost.                    *)
LEMMA TaskLeaves ==
  ASSUME WInv, [Next]_vars, boot' = boot, NEW t \in tasks,
         tasks' = tasks \ {t}, slots' \in {slots, slots + 1}
  PROVE  TasksOK'
<1>1. /\ IsFiniteSet(tasks) /\ slots \in Nat /\ slots + Cardinality(tasks) <= MaxParallel
  BY DEF WInv, TasksOK, PermitsOnce
<1>2. Cardinality(tasks') = Cardinality(tasks) - 1 /\ Cardinality(tasks) \in Nat
  BY <1>1, FS_RemoveElement, FS_CardinalityType
<1> QED BY <1>1, <1>2, TasksStay, WorkerAssumption

(* A permit is taken for a new task, whose lease no other task has.        *)
LEMMA TaskEnters ==
  ASSUME WInv, [Next]_vars, boot' = boot, NEW u \in Task, slots > 0,
         tasks' = tasks \cup {u}, slots' = slots - 1, TaskOK(u)',
         \A t \in tasks : t.run = u.run => t.epoch # u.epoch
  PROVE  TasksOK'
<1>1. /\ \A v \in tasks : TaskOK(v) /\ v.run \in Runs
      /\ tasks \subseteq Task /\ IsFiniteSet(tasks) /\ OneTaskPerLease
      /\ slots \in Nat /\ slots + Cardinality(tasks) <= MaxParallel
  BY DEF WInv, TasksOK, Task, PermitsOnce
<1>2. /\ IsFiniteSet(tasks') /\ Cardinality(tasks') <= Cardinality(tasks) + 1
      /\ Cardinality(tasks) \in Nat /\ Cardinality(tasks') \in Nat
  BY <1>1, OneMore
<1>3. slots' \in Nat /\ PermitsOnce'
  BY <1>1, <1>2, WorkerAssumption DEF PermitsOnce
<1>4. ASSUME NEW v \in tasks' PROVE TaskOK(v)'
  <2>1. CASE v \in tasks
    BY <1>1, <2>1, RowsStay, GrantsGrow DEF TaskOK, LeaseOf, WInv
  <2> QED BY <2>1
<1>5. OneTaskPerLease'
  BY <1>1 DEF OneTaskPerLease
<1> QED BY <1>1, <1>2, <1>3, <1>4, <1>5 DEF TasksOK

(* The lease of a claim, which the process has just been granted, is no    *)
(* task's yet.                                                             *)
LEMMA LeaseUntaken ==
  ASSUME WInv, NEW t \in tasks
  PROVE  /\ row[t.run].epoch \in Nat
         /\ t.epoch <= row[t.run].epoch /\ t.epoch \in Nat /\ t.run \in Runs
         /\ row[t.run].status # "ABSENT"
<1>1. /\ TaskOK(t) /\ t.epoch \in Nat /\ t.run \in Runs
      /\ row[t.run] \in Row /\ RowOK(row[t.run])
  BY DEF WInv, TasksOK, Task, IInv, TypeOK
<1>2. row[t.run].epoch \in Nat
  BY <1>1 DEF Row
<1>3. CASE t.pc = "created"
  BY <1>1, <1>2, <1>3 DEF TaskOK
<1>4. CASE t.pc # "created"
  <2>1. LeaseOf(t).epoch > 0 /\ LeaseOf(t).epoch <= row[LeaseOf(t).run].epoch
    BY <1>1, <1>4 DEF TaskOK, WInv, IInv, LeasesNumbered
  <2>2. t.epoch > 0 /\ t.epoch <= row[t.run].epoch
    BY <2>1 DEF LeaseOf
  <2> QED BY <1>1, <1>2, <2>2 DEF RowOK
<1> QED BY <1>3, <1>4

-----------------------------------------------------------------------------
(* What happens to the leases.                                             *)

(* A run with the lease in force looks the same to its task.               *)
Same(r) == /\ row'[r].status = row[r].status /\ row'[r].epoch = row[r].epoch
           /\ row'[r].executor = row[r].executor
           /\ row'[r].deadline \in {row[r].deadline, "ahead"}

(* A step that grants no lease and puts no run up for another.             *)
Gentle(r) == /\ row'[r].epoch = row[r].epoch
             /\ \/ row'[r].status \in Terminal
                \/ row[r].status \in Waiting /\ row'[r].status \in Waiting
                \/ Same(r)

(* Whoever attends to a run goes on to do so.                              *)
LEMMA SecureStays ==
  ASSUME NEW r \in Runs, Secure(r), Same(r), boot' = boot,
         \A t \in tasks : t.run = r /\ Holds(LeaseOf(t)) =>
           \E u \in tasks' : /\ u.run = r /\ u.epoch = t.epoch /\ u.beat = t.beat
                             /\ u.pc = "claimed" <=> t.pc = "claimed"
  PROVE  Secure(r)'
<1>1. PICK t \in tasks : /\ t.run = r /\ Holds(LeaseOf(t))
                         /\ t.pc = "claimed" <=> row[r].status = "LEASED"
                         /\ t.beat <=> row[r].status = "RUNNING"
  BY DEF Secure
<1>2. PICK u \in tasks' : /\ u.run = r /\ u.epoch = t.epoch /\ u.beat = t.beat
                          /\ u.pc = "claimed" <=> t.pc = "claimed"
  BY <1>1
<1>3. Holds(LeaseOf(u))'
  BY <1>1, <1>2 DEF Holds, LeaseOf, Same
<1> QED BY <1>1, <1>2, <1>3 DEF Secure, Same

(* A gentle step on r keeps account, if r is still attended to.            *)
LEMMA PaidStays ==
  ASSUME WInv, IInv', NEW r \in Runs, Gentle(r), mode' = mode, faults' = faults,
         mode = "up" /\ Secure(r) /\ Same(r) => Secure(r)'
  PROVE  Paid(r)'
<1>1. /\ row[r] \in Row /\ row'[r] \in Row /\ Paid(r) /\ faults \in Nat
      /\ row'[r].status \in Terminal => row'[r].deadline = "none"
  BY DEF WInv, IInv, TypeOK, RowOK, ProcessOK
<1>2. row[r].epoch \in Nat /\ row[r].status \in Statuses
  BY <1>1 DEF Row
<1> USE DEF Waiting, Terminal, Active, Statuses
<1>3. CASE row'[r].status \in Terminal
  BY <1>1, <1>2, <1>3 DEF Paid, Gentle
<1>4. CASE row[r].status \in Waiting /\ row'[r].status \in Waiting
  BY <1>1, <1>2, <1>4 DEF Paid, Gentle, Secure
<1>5. CASE Same(r)
  BY <1>1, <1>2, <1>5 DEF Paid, Same
<1> QED BY <1>3, <1>4, <1>5 DEF Gentle

(* A fault pays for whatever the run may go through next.                  *)
LEMMA FaultPays ==
  ASSUME WInv, NEW r \in Runs, row'[r].epoch = row[r].epoch, faults' = faults + 1,
         row'[r].status = row[r].status,
         mode' \in {mode, "up"} \/ row'[r] = row[r]
  PROVE  Paid(r)'
<1>1. /\ row[r] \in Row /\ Paid(r) /\ faults \in Nat
      /\ row[r].status \in Terminal => row[r].deadline = "none"
  BY DEF WInv, IInv, TypeOK, ProcessOK, RowOK
<1>2. row[r].epoch \in Nat /\ row[r].status \in Statuses
  BY <1>1 DEF Row
<1> USE DEF Waiting, Terminal, Active, Statuses
<1>3. row[r].epoch <= faults'
  BY <1>1, <1>2 DEF Paid
<1>4. CASE mode # "up"
  BY <1>1, <1>2, <1>4 DEF Paid
<1>5. CASE mode = "up" /\ mode' = "up"
  BY <1>3, <1>5 DEF Paid
<1>6. CASE mode = "up" /\ mode' # "up"
  <2>1. row'[r] = row[r]
    BY <1>6
  <2>2. row[r].status \in Waiting \/ row[r].deadline = "past"
        => row[r].status \notin Terminal /\ ~Secure(r)
    BY <1>1 DEF Secure
  <2> QED BY <1>1, <1>2, <1>3, <1>6, <2>1, <2>2 DEF Paid
<1> QED BY <1>4, <1>5, <1>6

(* A run that a claim does not lease keeps account through its sweep.      *)
LEMMA SweepPaid ==
  ASSUME WInv, NEW q \in Runs, row'[q] \in {row[q], Sweep(row[q])},
         boot' = boot, faults' = faults,
         \/ mode' = mode /\ (mode = "up" \/ row'[q] = row[q])
         \/ mode = "closing" /\ mode' = "halted",
         mode' = "up" => \A t \in tasks : t.run = q => t \in tasks'
  PROVE  Paid(q)'
<1> USE DEF Waiting, Terminal, Active, Statuses
<1>1. /\ row[q] \in Row /\ Paid(q) /\ faults \in Nat
      /\ Sweep(row[q]).epoch = row[q].epoch /\ row[q].epoch \in Nat
  BY SweepFields DEF WInv, ProcessOK, IInv, TypeOK, Row
<1>2. row'[q].epoch = row[q].epoch
  BY <1>1
<1>3. CASE mode' = "up"
  <2>1. mode = "up"
    BY <1>3
  <2>2. CASE row[q].epoch <= faults
    BY <1>2, <1>3, <2>2 DEF Paid
  <2>3. CASE row[q].status \in Terminal
    <3>1. row'[q] = row[q]
      BY <2>3 DEF Sweep
    <3> QED BY <1>1, <1>3, <2>1, <2>3, <3>1 DEF Paid, Secure
  <2>4. CASE Secure(q)
    <3>1. row'[q] = row[q]
      BY <2>4 DEF Sweep, Secure
    <3>2. Same(q)
      BY <3>1 DEF Same
    <3>3. Secure(q)'
      BY <1>3, <2>4, <3>2, SecureStays
    <3> QED BY <1>1, <1>2, <1>3, <2>1, <3>3 DEF Paid
  <2> QED BY <1>1, <2>1, <2>2, <2>3, <2>4 DEF Paid
<1>4. CASE mode' # "up"
  <2>1. mode # "up"
    BY <1>4
  <2>2. CASE row'[q] = row[q]
    BY <1>1, <1>4, <2>1, <2>2 DEF Paid
  <2>3. CASE row'[q] # row[q]
    <3>1. row[q].deadline = "past"
      BY <2>3 DEF Sweep
    <3> QED BY <1>1, <1>2, <1>4, <2>1, <2>3, <3>1 DEF Paid
  <2> QED BY <2>2, <2>3
<1> QED BY <1>3, <1>4

(* The lease of a claim by a living process: the run was paid for, and is  *)
(* attended to by the new task; the other runs keep account.               *)
LEMMA GrantPaid ==
  ASSUME WInv, IInv', [Next]_vars, NEW r \in Runs, NEW table,
         \/ table = row
         \/ table = [q \in Runs |-> Sweep(row[q])] /\ mode # "halted",
         Grant(table, r, boot), r \in Claimable(table),
         boot' = boot, faults' = faults,
         \/ mode' = mode /\ (mode = "closing" => table = row)
         \/ mode = "closing" /\ mode' = "halted",
         mode' = "up" =>
           /\ \E u \in tasks' : /\ u.run = r /\ u.epoch = row[r].epoch + 1
                                /\ u.pc = "claimed" /\ ~u.beat
           /\ \A q \in Runs \ {r} : \A t \in tasks : t.run = q => t \in tasks'
  PROVE  \A q \in Runs : Paid(q)'
<1> USE DEF Waiting, Terminal, Active, Statuses
<1>0. boot \in Executors /\ faults \in Nat /\ \A q \in Runs : Paid(q) /\ row[q] \in Row
  BY DEF WInv, ProcessOK, IInv, TypeOK
<1>1. /\ row'[r].epoch = row[r].epoch + 1 /\ row'[r].executor = boot
      /\ row'[r].status = "LEASED" /\ row'[r].deadline = "ahead"
      /\ \A q \in Runs \ {r} : row'[q] = table[q]
      /\ \/ row[r].status = "QUEUED"
         \/ /\ table[r] # row[r]
            /\ row[r].status \in Active /\ row[r].deadline = "past"
  <2>1. Swept(table)
    BY SweepType DEF WInv, IInv, TypeOK, Swept
  <2>2. IInv
    BY DEF WInv
  <2> HIDE DEF Waiting, Terminal, Active, Statuses
  <2> QED BY <1>0, <2>1, <2>2, LeasedRow
<1>2. row[r].epoch \in Nat /\ row[r].epoch <= faults
      /\ (mode # "up" => row[r].epoch < faults)
  <2>1. row[r].epoch \in Nat
    BY <1>0 DEF Row
  <2>2. ~Secure(r) /\ row[r].status \notin Terminal
    BY <1>1 DEF Secure
  <2> QED BY <1>0, <1>1, <2>1, <2>2 DEF Paid, ProcessOK, WInv
<1>3. Paid(r)'
  <2>1. CASE mode' = "up"
    <3>1. PICK u \in tasks' : /\ u.run = r /\ u.epoch = row[r].epoch + 1
                              /\ u.pc = "claimed" /\ ~u.beat
      BY <2>1
    <3>2. Holds(LeaseOf(u))'
      BY <1>1, <3>1 DEF Holds, LeaseOf
    <3>3. Secure(r)'
      BY <1>1, <3>1, <3>2 DEF Secure
    <3> QED BY <1>0, <1>1, <1>2, <2>1, <3>3 DEF Paid
  <2>2. CASE mode' # "up"
    <3>1. mode # "up"
      BY <2>2 DEF WInv, ProcessOK
    <3> QED BY <1>0, <1>1, <1>2, <2>2, <3>1 DEF Paid
  <2> QED BY <2>1, <2>2
<1>4. ASSUME NEW q \in Runs \ {r} PROVE Paid(q)'
  <2>1. row'[q] \in {row[q], Sweep(row[q])} /\ (table = row => row'[q] = row[q])
    BY <1>1
  <2>2. \/ mode' = mode /\ (mode = "up" \/ row'[q] = row[q])
        \/ mode = "closing" /\ mode' = "halted"
    BY <2>1 DEF WInv, ProcessOK
  <2> QED BY <2>1, <2>2, SweepPaid
<1> QED BY <1>3, <1>4

-----------------------------------------------------------------------------
(* The steps of the worker.                                                *)

(* What a task does to the table is a step of the table, under a lease     *)
(* that was granted.                                                       *)
LEMMA StepTable == WInv /\ [WNext]_wvars => [Next]_vars
<1> SUFFICES ASSUME WInv, [WNext]_wvars PROVE [Next]_vars
  OBVIOUS
<1>boot. boot \in Executors
  BY DEF WInv, ProcessOK
<1>lease. \A t \in tasks : t.run \in Runs /\ (t.pc # "created" => LeaseOf(t) \in grants)
  BY DEF WInv, TasksOK, TaskOK, Task
<1>beat. \A t \in tasks : t.beat => t.pc # "created"
  BY DEF WInv, TasksOK, TaskOK
<1>1. CASE ApiRequest
  BY <1>1 DEF ApiRequest, Next
<1>2. CASE \E r \in Runs, path \in {"chat", "stream"} : ChatCreate(r, path)
  BY <1>2 DEF ChatCreate, Next
<1>3. CASE Schedule
  BY <1>3, <1>boot DEF Schedule, Next
<1>4. ASSUME NEW t \in tasks, Advance(t) PROVE [Next]_vars
  <2>1. CASE ChatClaim(t)
    BY <2>1, <1>boot, <1>lease DEF ChatClaim, Next, vars, store
  <2>2. CASE Start(t)
    BY <2>2, <1>lease DEF Start, Next, vars, store
  <2>3. CASE EnterTurn(t) \/ EndTurn(t) \/ Settle(t)
    BY <2>3 DEF EnterTurn, EndTurn, Settle, vars, store
  <2>4. CASE Finish(t)
    <3>1. t.pc # "created" /\ (IF t.pc = "raised" THEN "FAILED" ELSE t.pc) \in Outcomes
      BY <2>4 DEF Finish, Outcomes
    <3> QED BY <2>4, <3>1, <1>lease DEF Finish, Next, vars, store
  <2> QED BY <1>4, <2>1, <2>2, <2>3, <2>4 DEF Advance
<1>5. ASSUME NEW t \in tasks, Notify(t) PROVE [Next]_vars
  BY <1>5, <1>lease DEF Notify, Next
<1>6. ASSUME NEW t \in tasks, Heartbeat(t) PROVE [Next]_vars
  BY <1>6, <1>lease, <1>beat DEF Heartbeat, Next, vars, store
<1>7. ASSUME NEW t \in tasks,
             HeartbeatDies(t) \/ StreamAbandoned(t) \/ StepRaises(t) \/ SubmitRefused(t)
      PROVE  [Next]_vars
  BY <1>7 DEF HeartbeatDies, StreamAbandoned, StepRaises, SubmitRefused, vars, store
<1>8. ASSUME NEW r \in Runs, TimePasses(r) \/ Stall(r) PROVE [Next]_vars
  BY <1>8 DEF TimePasses, Stall, Next
<1>9. CASE Crash \/ Shutdown \/ Exit
  BY <1>9 DEF Crash, Shutdown, Exit, vars, store
<1>10. CASE SchedulerEnds
  BY <1>10, <1>boot DEF SchedulerEnds, Next, vars, store
<1>11. CASE UNCHANGED wvars
  BY <1>11 DEF wvars, vars
<1> QED BY <1>1, <1>2, <1>3, <1>4, <1>5, <1>6, <1>7, <1>8, <1>9, <1>10, <1>11 DEF WNext

\* What requests do to the table before any claim.
Submission == \/ \E r \in Runs : \/ CreateRun(r)
                               \/ FinalizeInputManifest(r)
                               \/ RequestCancel(r)
              \/ \E x \in Sessions : CancelLatestActiveRun(x)

(* They grant nothing and revoke nothing.                                  *)
LEMMA ApiGentle == ASSUME WInv, Submission, NEW q \in Runs PROVE Gentle(q)
<1> USE DEF Active, Waiting, Terminal
<1>1. row \in [Runs -> Row] /\ row[q] \in Row
  BY DEF WInv, IInv, TypeOK
<1>stay. ASSUME row'[q] = row[q] PROVE Gentle(q)
  BY <1>stay DEF Gentle, Same
<1>commit. ASSUME NEW r \in Runs, NEW new, NEW es, Commit(r, new, es)
           PROVE  row'[r] = new /\ \A p \in Runs \ {r} : row'[p] = row[p]
  BY <1>1, <1>commit DEF Commit
<1>cancel. ASSUME NEW r \in Runs, Cancel(r) PROVE Gentle(q)
  <2>1. CASE q = r
    <3>1. \/ row'[q] = [row[q] EXCEPT !.status = "CANCELED", !.cancel = TRUE,
                                     !.deadline = "none"]
          \/ row'[q] = [row[q] EXCEPT !.cancel = TRUE]
      BY <1>cancel, <1>commit, <2>1 DEF Cancel
    <3> QED BY <1>1, <3>1 DEF Gentle, Same, Row
  <2>2. CASE q # r
    BY <1>cancel, <1>commit, <1>stay, <2>2 DEF Cancel
  <2> QED BY <2>1, <2>2
<1>2. ASSUME NEW r \in Runs, CreateRun(r) PROVE Gentle(q)
  <2>1. CASE q = r
    <3>1. row[q].status = "ABSENT" /\ RowOK(row[q])
      BY <1>2, <2>1 DEF CreateRun, WInv, IInv
    <3>2. row[q].epoch = 0
      BY <3>1 DEF RowOK
    <3>3. \/ row'[q] = [NewRow EXCEPT !.status = "PREPARING", !.deadline = "ahead"]
          \/ row'[q] = [NewRow EXCEPT !.status = "QUEUED", !.manifest = "FINALIZED"]
      BY <1>2, <1>commit, <2>1 DEF CreateRun
    <3> QED BY <3>1, <3>2, <3>3 DEF Gentle, NewRow
  <2>2. CASE q # r
    BY <1>2, <1>commit, <1>stay, <2>2 DEF CreateRun
  <2> QED BY <2>1, <2>2
<1>3. ASSUME NEW r \in Runs, FinalizeInputManifest(r) PROVE Gentle(q)
  <2>1. CASE q = r
    <3>1. \/ /\ row[q].status = "PREPARING"
             /\ row'[q] = [row[q] EXCEPT !.manifest = "FINALIZED", !.status = "QUEUED",
                                        !.deadline = "none"]
          \/ row'[q] = [row[q] EXCEPT !.manifest = "FINALIZED"]
      BY <1>3, <1>commit, <2>1 DEF FinalizeInputManifest
    <3> QED BY <1>1, <3>1 DEF Gentle, Same, Row
  <2>2. CASE q # r
    BY <1>3, <1>commit, <1>stay, <2>2 DEF FinalizeInputManifest
  <2> QED BY <2>1, <2>2
<1>4. ASSUME NEW r \in Runs, RequestCancel(r) PROVE Gentle(q)
  BY <1>4, <1>cancel DEF RequestCancel
<1>5. ASSUME NEW x \in Sessions, CancelLatestActiveRun(x) PROVE Gentle(q)
  BY <1>5, <1>cancel DEF CancelLatestActiveRun
<1> QED BY <1>2, <1>3, <1>4, <1>5 DEF Submission

(* The invariant is kept by a step that neither faults nor grants.         *)
LEMMA QuietKeeps ==
  ASSUME WInv, IInv', TasksOK', Calm, \A r \in Runs : Gentle(r),
         \A r \in Runs : mode = "up" /\ Secure(r) /\ Same(r) => Secure(r)'
  PROVE  WInv'
<1>1. ProcessOK'
  BY DEF Calm, WInv, ProcessOK
<1>2. \A r \in Runs : Paid(r)'
  BY PaidStays DEF Calm
<1> QED BY <1>1, <1>2 DEF WInv

(* ... and by any fault that leaves the process and its table's epochs.    *)
LEMMA FaultKeeps ==
  ASSUME WInv, IInv', TasksOK', UNCHANGED <<boot, mode>>, faults' = faults + 1,
         faults < MaxFaults + MaxAbandoned,
         \A r \in Runs : row'[r].epoch = row[r].epoch /\ row'[r].status = row[r].status
  PROVE  WInv'
<1>1. ProcessOK'
  BY WorkerAssumption DEF WInv, ProcessOK
<1>2. \A r \in Runs : Paid(r)'
  BY FaultPays
<1> QED BY <1>1, <1>2 DEF WInv

(* A task that takes no step of the table: it moves on in its place, or it *)
(* leaves without a lease in force.                                        *)
LEMMA TaskStep ==
  ASSUME WInv, IInv', UNCHANGED store, Calm, NEW t \in tasks,
         \/ \E u \in Task : /\ Become(t, u) /\ u.run = t.run /\ u.epoch = t.epoch
                           /\ t.pc # "created" /\ u.pc # "created"
                           /\ \/ u.beat = t.beat /\ (u.pc = "claimed" <=> t.pc = "claimed")
                              \/ Stale(t)
         \/ Leave(t) /\ (Stale(t) \/ t.pc = "created")
         \/ LeaveWithPermit(t) /\ mode # "up"
  PROVE  WInv'
<1>1. [Next]_vars /\ boot' = boot
  BY DEF store, vars, Calm
<1>2. slots \in Nat /\ t \in Task
  BY DEF WInv, TasksOK
<1>3. TasksOK'
  <2>1. CASE \E u \in Task : /\ Become(t, u) /\ u.run = t.run /\ u.epoch = t.epoch
                             /\ t.pc # "created" /\ u.pc # "created"
    BY <1>1, <2>1, TaskMoves
  <2>2. CASE Leave(t) \/ LeaveWithPermit(t)
    BY <1>1, <2>2, TaskLeaves DEF Leave, LeaveWithPermit
  <2> QED BY <2>1, <2>2
<1>4. \A r \in Runs : Same(r) /\ Gentle(r)
  BY DEF store, Same, Gentle
<1>5. ASSUME NEW r \in Runs, mode = "up", Secure(r) PROVE Secure(r)'
  <2>0. row[r].status \in Active /\ row[r].epoch > 0 /\ row[r].epoch \in Nat
    BY <1>5, ActiveEpoch DEF Secure, WInv
  <2>1. t.pc = "created" => t.epoch = 0
    BY DEF WInv, TasksOK, TaskOK
  <2>2. t.run = r /\ Holds(LeaseOf(t)) => ~Stale(t) /\ t.pc # "created"
    BY <2>0, <2>1 DEF Stale, Holds, LeaseOf
  <2>3. CASE ~(t.run = r /\ Holds(LeaseOf(t)))
    <3>1. tasks \ {t} \subseteq tasks'
      BY DEF Become, Leave, LeaveWithPermit
    <3>2. \A v \in tasks : v.run = r /\ Holds(LeaseOf(v)) => v \in tasks'
      BY <2>3, <3>1
    <3> QED BY <1>1, <1>4, <1>5, <3>2, SecureStays
  <2>4. CASE t.run = r /\ Holds(LeaseOf(t))
    <3>1. PICK u \in Task : /\ Become(t, u) /\ u.run = t.run /\ u.epoch = t.epoch
                            /\ u.beat = t.beat /\ (u.pc = "claimed" <=> t.pc = "claimed")
      BY <1>5, <2>2, <2>4
    <3>2. \A v \in tasks : v.run = r /\ Holds(LeaseOf(v)) =>
            \E w \in tasks' : /\ w.run = r /\ w.epoch = v.epoch /\ w.beat = v.beat
                              /\ w.pc = "claimed" <=> v.pc = "claimed"
      BY <2>4, <3>1 DEF Become
    <3> QED BY <1>1, <1>4, <1>5, <3>2, SecureStays
  <2> QED BY <2>3, <2>4
<1> QED BY <1>3, <1>4, <1>5, QuietKeeps

(* A run with another task's step keeps its own task.                      *)
LEMMA OthersSecure ==
  ASSUME NEW t, NEW q \in Runs, q # t.run, tasks \ {t} \subseteq tasks', boot' = boot,
         row'[q] = row[q]
  PROVE  Gentle(q) /\ (Secure(q) => Secure(q)')
<1>1. Same(q) /\ Gentle(q)
  BY DEF Same, Gentle
<1>2. \A v \in tasks : v.run = q => v \in tasks'
  OBVIOUS
<1> QED BY <1>1, <1>2, SecureStays

(* mark_running: from the claim to the heartbeat.                          *)
LEMMA MarkKeeps ==
  ASSUME WInv, IInv', NEW t \in tasks, t.pc = "claimed", MarkRunning(LeaseOf(t)),
         Become(t, [t EXCEPT !.pc = "waiting", !.beat = TRUE]), Calm, TasksOK'
  PROVE  WInv'
<1> DEFINE r == t.run
<1>1. t \in Task /\ r \in Runs /\ row[r] \in Row /\ row \in [Runs -> Row]
  BY DEF WInv, TasksOK, Task, IInv, TypeOK
<1>2. PICK u \in tasks' : /\ u.run = r /\ u.epoch = t.epoch
                          /\ u.pc = "waiting" /\ u.beat
  <2>1. [t EXCEPT !.pc = "waiting", !.beat = TRUE] \in tasks'
    BY DEF Become
  <2> QED BY <1>1, <2>1 DEF Task
<1>0. tasks \ {t} \subseteq tasks'
  BY DEF Become
<1>3. /\ row'[r] = [row[r] EXCEPT !.status = "RUNNING", !.deadline = "ahead"]
      /\ \A q \in Runs \ {r} : row'[q] = row[q]
      /\ row[r].status = "LEASED" /\ Holds(LeaseOf(t))
  BY <1>1 DEF MarkRunning, Commit, LeaseOf
<1>4. /\ row'[r].status = "RUNNING" /\ row'[r].deadline = "ahead"
      /\ row'[r].epoch = row[r].epoch /\ row'[r].executor = row[r].executor
  BY <1>1, <1>3 DEF Row
<1>5. Secure(r)'
  <2>1. Holds(LeaseOf(u))'
    <3>1. row[r].epoch = t.epoch /\ row[r].executor = boot /\ boot' = boot
      BY <1>3 DEF Holds, LeaseOf, Calm
    <3> QED BY <1>2, <1>4, <3>1 DEF Holds, LeaseOf
  <2> QED BY <1>2, <1>4, <2>1 DEF Secure, Active
<1>6. Paid(r)'
  <2>1. /\ Paid(r) /\ faults' = faults /\ mode' = mode
        /\ row[r].status \notin Terminal \cup Waiting
        /\ row'[r].status \notin Waiting
    BY <1>1, <1>3, <1>4 DEF WInv, Calm, Terminal, Waiting
  <2> QED BY <1>4, <1>5, <2>1 DEF Paid
<1>7. ASSUME NEW q \in Runs, q # r PROVE Paid(q)'
  <2>1. Gentle(q) /\ (Secure(q) => Secure(q)')
    BY <1>0, <1>3, <1>7, OthersSecure DEF Calm
  <2> QED BY <2>1, PaidStays DEF Calm
<1> QED BY <1>6, <1>7 DEF WInv, ProcessOK, Calm

(* finish_run, under the lease in force.                                   *)
LEMMA FinishKeeps ==
  ASSUME WInv, IInv', NEW t \in tasks, NEW outcome \in Outcomes,
         FinishRun(LeaseOf(t), outcome), Leave(t), Calm, TasksOK'
  PROVE  WInv'
<1> DEFINE r == t.run
<1>1. r \in Runs /\ row[r] \in Row /\ row \in [Runs -> Row]
  BY DEF WInv, TasksOK, Task, IInv, TypeOK
<1>2. /\ row'[r] = [row[r] EXCEPT !.status = outcome, !.deadline = "none",
                                 !.result = t.epoch]
      /\ \A q \in Runs \ {r} : row'[q] = row[q]
  BY <1>1 DEF FinishRun, Commit, LeaseOf
<1>3. row'[r].status \in Terminal /\ row'[r].epoch = row[r].epoch
  BY <1>1, <1>2 DEF Row, Terminal, Outcomes
<1>4. Gentle(r) /\ ~Same(r)
  <2>1. row[r].status \in Active
    BY DEF FinishRun, LeaseOf
  <2> QED BY <1>3, <2>1 DEF Gentle, Same, Active, Terminal
<1>5. ASSUME NEW q \in Runs, q # r PROVE Gentle(q) /\ (Secure(q) => Secure(q)')
  BY <1>2, <1>5, OthersSecure DEF Calm, Leave
<1>6. \A q \in Runs : Gentle(q)
  BY <1>4, <1>5
<1>7. \A q \in Runs : mode = "up" /\ Secure(q) /\ Same(q) => Secure(q)'
  BY <1>4, <1>5
<1> QED BY <1>6, <1>7, QuietKeeps

(* The two claims of request threads and of the scheduler.                 *)
LEMMA ClaimKeeps ==
  ASSUME WInv, IInv', [Next]_vars, NEW t \in tasks, t.pc = "created",
         ClaimRun(t.run, boot), Calm,
         Become(t, [t EXCEPT !.pc = "claimed", !.epoch = row'[t.run].epoch])
  PROVE  WInv'
<1> DEFINE r == t.run
<1>1. /\ t \in Task /\ r \in Runs /\ row \in [Runs -> Row] /\ boot \in Executors
      /\ ~t.beat /\ boot' = boot /\ mode' = mode /\ faults' = faults
  BY DEF WInv, TasksOK, Task, IInv, TypeOK, ProcessOK, TaskOK, Calm
<1>2. r \in Claimable(row) /\ Grant(row, r, boot) /\ Swept(row)
  BY <1>1 DEF ClaimRun, Swept
<1>3. row'[r].epoch = row[r].epoch + 1 /\ row[r].epoch \in Nat
  BY <1>1, <1>2, LeasedRow DEF WInv
<1>4. PICK g \in Lease \ grants : /\ g.run = r /\ g.epoch = row[r].epoch + 1
                                 /\ g.executor = boot /\ grants' = grants \cup {g}
  BY <1>1, <1>2, FreshLease DEF WInv
<1>5. PICK u \in Task : /\ Become(t, u)
                        /\ u.run = r /\ u.epoch = row[r].epoch + 1
                        /\ u.pc = "claimed" /\ ~u.beat
  <2> DEFINE v == [t EXCEPT !.pc = "claimed", !.epoch = row[r].epoch + 1]
  <2>1. Become(t, v)
    BY <1>3
  <2>2. row[r].epoch + 1 \in Nat /\ "claimed" \in Places
    BY <1>3 DEF Places
  <2>3. v \in Task
    BY <1>1, <2>2 DEF Task
  <2>4. v.run = r /\ v.epoch = row[r].epoch + 1 /\ v.pc = "claimed" /\ ~v.beat
    BY <1>1 DEF Task
  <2> QED BY <2>1, <2>3, <2>4
<1>10. u \in tasks' /\ tasks \ {t} \subseteq tasks'
  BY <1>5 DEF Become
<1>6. TaskOK(u)'
  <2>1. LeaseOf(u)' = g
    BY <1>1, <1>4, <1>5 DEF LeaseOf, Lease
  <2> QED BY <1>4, <1>5, <2>1 DEF TaskOK
<1>7. \A v \in tasks \ {t} : v.run = u.run => v.epoch # u.epoch
  BY <1>3, <1>5, LeaseUntaken
<1>8. TasksOK'
  BY <1>1, <1>5, <1>6, <1>7, TaskBecomes
<1>9. \A q \in Runs : Paid(q)'
  <2>1. \A q \in Runs \ {r} : \A v \in tasks : v.run = q => v \in tasks'
    BY <1>10
  <2>2. \E v \in tasks' : /\ v.run = r /\ v.epoch = row[r].epoch + 1
                          /\ v.pc = "claimed" /\ ~v.beat
    BY <1>5, <1>10
  <2> QED BY <1>1, <1>2, <2>1, <2>2, GrantPaid
<1> QED BY <1>1, <1>8, <1>9 DEF WInv, ProcessOK

\* What a claim_next_run does to the table.
SweptRow == [q \in Runs |-> Sweep(row[q])]

(* It leases one run of the table that the sweep left, or only sweeps.     *)
LEMMA NextClaim ==
  ASSUME WInv, ClaimNextRun(boot)
  PROVE  \/ \E r \in Runs : r \in Claimable(SweptRow) /\ Grant(SweptRow, r, boot)
         \/ row' = SweptRow /\ grants' = grants
<1>1. Claimable(SweptRow) \subseteq Runs
  BY DEF Claimable
<1> QED BY <1>1 DEF ClaimNextRun, SweptRow

(* Rows after a sweep alone.                                               *)
LEMMA SweptRows ==
  ASSUME WInv PROVE Swept(SweptRow) /\ \A q \in Runs : SweptRow[q] = Sweep(row[q])
  BY SweepType DEF WInv, IInv, TypeOK, Swept, SweptRow

(* The scheduler: a permit, a lease and a task together, or nothing.       *)
LEMMA ScheduleKeeps ==
  ASSUME WInv, IInv', [Next]_vars, Schedule PROVE WInv'
<1>1. /\ boot' = boot /\ mode' = mode /\ faults' = faults /\ mode = "up"
      /\ boot \in Executors /\ slots > 0 /\ slots \in Nat
  BY DEF Schedule, Calm, WInv, ProcessOK, TasksOK
<1>2. /\ tasks' = tasks \cup {[run |-> g.run, epoch |-> g.epoch, beat |-> FALSE,
                               path |-> "scheduled", pc |-> "claimed"]
                               : g \in grants' \ grants}
      /\ slots' = slots - Cardinality(grants' \ grants)
  BY DEF Schedule
<1>process. ProcessOK'
  BY <1>1 DEF WInv, ProcessOK
<1>3. ASSUME NEW r \in Runs, r \in Claimable(SweptRow), Grant(SweptRow, r, boot)
      PROVE  WInv'
  <2>1. row'[r].epoch = row[r].epoch + 1 /\ row[r].epoch \in Nat
    BY <1>1, <1>3, LeasedRow, SweptRows DEF WInv
  <2>2. PICK g \in Lease \ grants : /\ g.run = r /\ g.epoch = row[r].epoch + 1
                                   /\ g.executor = boot /\ grants' = grants \cup {g}
    BY <1>1, <1>3, FreshLease, SweptRows DEF WInv
  <2>3. grants' \ grants = {g}
    BY <2>2
  <2> DEFINE u == [run |-> g.run, epoch |-> g.epoch, beat |-> FALSE,
                   path |-> "scheduled", pc |-> "claimed"]
  <2>4. tasks' = tasks \cup {u} /\ slots' = slots - 1
    <3>1. Cardinality({g}) = 1
      BY FS_Singleton
    <3> QED BY <1>2, <2>3, <3>1
  <2>5. u \in Task /\ u.run = r /\ u.epoch = row[r].epoch + 1 /\ u.pc = "claimed" /\ ~u.beat
    BY <2>1, <2>2 DEF Task, Places
  <2>6. TaskOK(u)'
    <3>1. [run |-> u.run, epoch |-> u.epoch, executor |-> boot] = g
      BY <2>2 DEF Lease
    <3> QED BY <1>1, <2>2, <2>5, <3>1 DEF TaskOK, LeaseOf
  <2>7. \A t \in tasks : t.run = u.run => t.epoch # u.epoch
    BY <2>1, <2>5, LeaseUntaken
  <2>8. TasksOK'
    BY <1>1, <2>4, <2>5, <2>6, <2>7, TaskEnters
  <2>9. \E v \in tasks' : /\ v.run = r /\ v.epoch = row[r].epoch + 1
                          /\ v.pc = "claimed" /\ ~v.beat
    BY <2>4, <2>5
  <2>10. \A q \in Runs \ {r} : \A t \in tasks : t.run = q => t \in tasks'
    BY <2>4
  <2>11. \A q \in Runs : Paid(q)'
    BY <1>1, <1>3, <2>9, <2>10, GrantPaid DEF SweptRow
  <2> QED BY <1>process, <2>8, <2>11 DEF WInv
<1>4. CASE row' = SweptRow /\ grants' = grants
  <2>1. tasks' = tasks /\ slots' = slots
    <3>1. grants' \ grants = {} /\ Cardinality({}) = 0
      BY <1>4, FS_EmptySet
    <3> QED BY <1>1, <1>2, <3>1
  <2>2. TasksOK'
    BY <1>1, <2>1, TasksStay DEF WInv, TasksOK, PermitsOnce
  <2>3. \A q \in Runs : Paid(q)'
    BY <1>1, <1>4, <2>1, SweptRows, SweepPaid
  <2> QED BY <1>process, <2>2, <2>3 DEF WInv
<1> QED BY <1>3, <1>4, NextClaim DEF Schedule

(* The scheduler's last claim: its lease has no task, and the shutdown     *)
(* paid for it.                                                            *)
LEMMA SchedulerEndsKeeps ==
  ASSUME WInv, IInv', [Next]_vars, SchedulerEnds PROVE WInv'
<1>1. /\ boot' = boot /\ mode = "closing" /\ mode' = "halted" /\ faults' = faults
      /\ tasks' = tasks /\ slots \in Nat /\ slots' \in Nat /\ slots' <= slots
      /\ Cardinality(tasks) \in Nat /\ slots + Cardinality(tasks) <= MaxParallel
  BY FS_CardinalityType DEF SchedulerEnds, WInv, TasksOK, PermitsOnce
<1>2. ProcessOK' /\ TasksOK'
  <2>1. slots' + Cardinality(tasks') <= MaxParallel
    BY <1>1, WorkerAssumption
  <2> QED BY <1>1, <2>1, TasksStay DEF WInv, ProcessOK
<1>3. ASSUME NEW r \in Runs, r \in Claimable(SweptRow), Grant(SweptRow, r, boot)
      PROVE  \A q \in Runs : Paid(q)'
  BY <1>1, <1>3, GrantPaid DEF SweptRow
<1>4. CASE row' = SweptRow \/ row' = row
  <2>1. \A q \in Runs : row'[q] \in {row[q], Sweep(row[q])}
    BY <1>4, SweptRows
  <2> QED BY <1>1, <1>2, <2>1, SweepPaid DEF WInv
<1> QED BY <1>2, <1>3, <1>4, NextClaim DEF SchedulerEnds, store, WInv

(* Steps of the table with the tasks as they were, or one more.            *)
LEMMA TableKeeps ==
  ASSUME WInv, IInv', TasksOK', Calm, tasks \subseteq tasks', \A r \in Runs : Gentle(r)
  PROVE  WInv'
<1>1. ASSUME NEW r \in Runs, Secure(r), Same(r) PROVE Secure(r)'
  BY <1>1, SecureStays DEF Calm
<1> QED BY <1>1, QuietKeeps

(* /chat and /chat/stream: the run is created with a permit in hand.       *)
LEMMA ChatCreateKeeps ==
  ASSUME WInv, IInv', [Next]_vars, NEW r \in Runs, NEW path \in {"chat", "stream"},
         ChatCreate(r, path)
  PROVE  WInv'
<1>1. \A q \in Runs : Gentle(q)
  BY ApiGentle DEF ChatCreate, Submission
<1>2. PICK u \in Task : /\ tasks' = tasks \cup {u} /\ u.run = r /\ u.epoch = 0
                        /\ u.pc = "created" /\ ~u.beat
  <2> DEFINE v == [run |-> r, epoch |-> 0, path |-> path, pc |-> "created", beat |-> FALSE]
  <2>1. v \in Task
    BY DEF Task, Places
  <2> QED BY <2>1 DEF ChatCreate
<1>3. TaskOK(u)'
  BY <1>2 DEF TaskOK, ChatCreate
<1>4. \A t \in tasks : t.run # u.run
  BY <1>2, LeaseUntaken DEF ChatCreate, CreateRun
<1>5. TasksOK'
  BY <1>2, <1>3, <1>4, TaskEnters DEF ChatCreate, Calm
<1> QED BY <1>1, <1>2, <1>5, TableKeeps DEF ChatCreate

(* Between two operations of the table: the thread of a task goes on.      *)
LEMMA AdvanceKeeps ==
  ASSUME WInv, IInv', [Next]_vars, NEW t \in tasks, Advance(t) PROVE WInv'
<1>1. t \in Task /\ (t.beat => t.pc # "created")
  BY DEF WInv, TasksOK, TaskOK
<1>boot. Advance(t) => boot' = boot /\ Calm
  BY DEF Advance, ChatClaim, Start, EnterTurn, EndTurn, Settle, Finish, Calm
<1>moves. ASSUME NEW pc \in Places, t.pc \notin {"created", "claimed"},
                 pc \notin {"created", "claimed"}, Goto(t, pc), UNCHANGED store
          PROVE  WInv'
  <2>1. PICK u \in Task : /\ Become(t, u) /\ u.run = t.run /\ u.epoch = t.epoch
                          /\ u.pc = pc /\ u.beat = t.beat
    <3> DEFINE v == [t EXCEPT !.pc = pc]
    <3>1. v \in Task /\ v.run = t.run /\ v.epoch = t.epoch /\ v.pc = pc /\ v.beat = t.beat
      BY <1>1 DEF Task
    <3> QED BY <1>moves, <3>1 DEF Goto
  <2> QED BY <1>moves, <1>boot, <2>1, TaskStep
<1>2. CASE ChatClaim(t)
  <2>1. CASE ClaimRun(t.run, boot)
    BY <1>2, <1>boot, <2>1, ClaimKeeps DEF ChatClaim, Claimable, ClaimRun
  <2>2. CASE Leave(t) /\ UNCHANGED store
    BY <1>2, <1>boot, <2>2, TaskStep DEF ChatClaim
  <2> QED BY <1>2, <2>1, <2>2 DEF ChatClaim
<1>3. CASE Start(t)
  <2>1. CASE MarkRunning(LeaseOf(t)) /\ Become(t, [t EXCEPT !.pc = "waiting", !.beat = TRUE])
    <3>1. t.pc = "claimed"
      BY <1>3 DEF Start
    <3>2. PICK u \in Task : /\ Become(t, u) /\ u.run = t.run /\ u.epoch = t.epoch
                            /\ u.pc = "waiting"
      <4> DEFINE v == [t EXCEPT !.pc = "waiting", !.beat = TRUE]
      <4>1. v \in Task /\ v.run = t.run /\ v.epoch = t.epoch /\ v.pc = "waiting"
        BY <1>1 DEF Task, Places
      <4> QED BY <2>1, <4>1
    <3>3. TasksOK'
      BY <1>boot, <3>1, <3>2, TaskMoves
    <3> QED BY <1>boot, <2>1, <3>1, <3>3, MarkKeeps
  <2>2. CASE Stale(t) /\ Leave(t) /\ UNCHANGED store
    BY <1>boot, <2>2, TaskStep
  <2> QED BY <1>3, <2>1, <2>2 DEF Start
<1>4. CASE EnterTurn(t)
  BY <1>4, <1>moves DEF EnterTurn, Places
<1>5. CASE EndTurn(t)
  BY <1>5, <1>moves DEF EndTurn, Places
<1>6. CASE Settle(t)
  BY <1>6, <1>moves DEF Settle, Places, Outcomes
<1>7. CASE Finish(t)
  <2> DEFINE outcome == IF t.pc = "raised" THEN "FAILED" ELSE t.pc
  <2>1. outcome \in Outcomes
    BY <1>7 DEF Finish, Outcomes
  <2>2. CASE FinishRun(LeaseOf(t), outcome)
    <3>1. Leave(t) /\ slots \in Nat
      BY <1>7 DEF Finish, WInv, TasksOK
    <3>2. TasksOK'
      BY <1>boot, <3>1, TaskLeaves DEF Leave
    <3> QED BY <1>boot, <2>1, <2>2, <3>1, <3>2, FinishKeeps
  <2>3. CASE Stale(t) /\ UNCHANGED store
    BY <1>7, <1>boot, <2>3, TaskStep DEF Finish
  <2> QED BY <1>7, <2>2, <2>3 DEF Finish
<1> QED BY <1>2, <1>3, <1>4, <1>5, <1>6, <1>7 DEF Advance

(* Heartbeats: the lease is renewed, or found lost.                        *)
LEMMA HeartbeatKeeps ==
  ASSUME WInv, IInv', [Next]_vars, NEW t \in tasks, Heartbeat(t) PROVE WInv'
<1>1. /\ t \in Task /\ t.run \in Runs /\ t.pc # "created" /\ Calm
      /\ row \in [Runs -> Row]
  BY DEF WInv, TasksOK, TaskOK, Task, Heartbeat, IInv, TypeOK
<1>2. CASE HeartbeatLease(LeaseOf(t)) /\ UNCHANGED <<slots, tasks>>
  <2>1. row' = [row EXCEPT ![t.run].deadline = "ahead"]
    BY <1>2 DEF HeartbeatLease, LeaseOf
  <2>2. \A q \in Runs : Gentle(q)
    BY <1>1, <2>1 DEF Gentle, Same, Row
  <2>3. TasksOK'
    BY <1>1, <1>2, TasksStay DEF WInv, TasksOK, PermitsOnce, Calm
  <2> QED BY <1>1, <1>2, <2>2, <2>3, TableKeeps
<1>3. CASE Stale(t) /\ Become(t, [t EXCEPT !.beat = FALSE]) /\ UNCHANGED store
  <2>1. PICK u \in Task : /\ Become(t, u) /\ u.run = t.run /\ u.epoch = t.epoch
                          /\ u.pc = t.pc
    <3> DEFINE v == [t EXCEPT !.beat = FALSE]
    <3>1. v \in Task /\ v.run = t.run /\ v.epoch = t.epoch /\ v.pc = t.pc
      BY <1>1 DEF Task
    <3> QED BY <1>3, <3>1
  <2> QED BY <1>1, <1>3, <2>1, TaskStep
<1> QED BY <1>2, <1>3 DEF Heartbeat

(* Faults of one task.                                                     *)
LEMMA TaskFaultKeeps ==
  ASSUME WInv, IInv', [Next]_vars, NEW t \in tasks,
         HeartbeatDies(t) \/ StreamAbandoned(t) \/ StepRaises(t)
  PROVE  WInv'
<1>1. /\ t \in Task /\ (t.beat => t.pc # "created") /\ slots \in Nat
      /\ faults' = faults + 1 /\ faults < MaxFaults + MaxAbandoned
      /\ UNCHANGED store /\ boot' = boot /\ mode' = mode
  BY WorkerAssumption DEF WInv, TasksOK, TaskOK, ProcessOK, HeartbeatDies,
     StreamAbandoned, StepRaises, Fault
<1>moves. ASSUME NEW u \in Task, Become(t, u), u.run = t.run, u.epoch = t.epoch,
                 t.pc # "created", u.pc # "created"
          PROVE  TasksOK'
  BY <1>1, <1>moves, TaskMoves
<1>2. CASE HeartbeatDies(t)
  <2> DEFINE v == [t EXCEPT !.beat = FALSE]
  <2>1. v \in Task /\ v.run = t.run /\ v.epoch = t.epoch /\ v.pc = t.pc
    BY <1>1 DEF Task
  <2>2. TasksOK'
    BY <1>1, <1>2, <2>1, <1>moves DEF HeartbeatDies
  <2> QED BY <1>1, <2>2, FaultKeeps DEF store
<1>3. CASE tasks' = tasks \ {t} /\ slots' \in {slots, slots + 1}
  BY <1>1, <1>3, TaskLeaves, FaultKeeps DEF store
<1>4. CASE StepRaises(t) /\ Become(t, [t EXCEPT !.pc = "raised", !.beat = FALSE])
  <2> DEFINE v == [t EXCEPT !.pc = "raised", !.beat = FALSE]
  <2>1. v \in Task /\ v.run = t.run /\ v.epoch = t.epoch /\ v.pc = "raised"
    BY <1>1 DEF Task, Places
  <2>2. TasksOK'
    BY <1>4, <2>1, <1>moves DEF StepRaises, Outcomes
  <2> QED BY <1>1, <2>2, FaultKeeps DEF store
<1> QED BY <1>2, <1>3, <1>4 DEF StreamAbandoned, StepRaises, Leave

(* Time: what nobody attends to was paid for before.                       *)
LEMMA TimeKeeps ==
  ASSUME WInv, IInv', [Next]_vars, NEW r \in Runs, TimePasses(r) PROVE WInv'
<1> USE DEF Active, Waiting, Terminal, Statuses
<1>1. /\ row \in [Runs -> Row] /\ row' = [row EXCEPT ![r].deadline = "past"]
      /\ row[r].deadline = "ahead" /\ mode # "closing"
      /\ boot' = boot /\ mode' = mode /\ faults' = faults /\ tasks' = tasks /\ slots' = slots
  BY DEF WInv, IInv, TypeOK, TimePasses, DeadlinePasses
<1>2. TasksOK' /\ ProcessOK'
  BY <1>1, TasksStay DEF WInv, TasksOK, PermitsOnce, ProcessOK
<1>3. /\ row[r] \in Row /\ row'[r].status = row[r].status /\ row'[r].epoch = row[r].epoch
      /\ Paid(r) /\ RowOK(row[r])
  BY <1>1 DEF Row, WInv, IInv
<1>4. row[r].status \in Active => ~Secure(r)
  <2>1. Secure(r) => Attended(r)
    BY DEF Secure, Attended
  <2> QED BY <2>1 DEF TimePasses
<1>5. Paid(r)'
  <2>1. row[r].status \notin Terminal
    BY <1>1, <1>3 DEF RowOK
  <2>2. ~Secure(r)
    BY <1>4 DEF Secure
  <2> QED BY <1>1, <1>3, <2>1, <2>2 DEF Paid
<1>6. ASSUME NEW q \in Runs, q # r PROVE Paid(q)'
  <2>1. Same(q) /\ Gentle(q)
    BY <1>1, <1>6 DEF Same, Gentle
  <2>2. Secure(q) => Secure(q)'
    BY <1>1, <2>1, SecureStays
  <2> QED BY <1>1, <2>1, <2>2, PaidStays
<1> QED BY <1>2, <1>5, <1>6 DEF WInv

(* A process that sleeps through a lease.                                  *)
LEMMA StallKeeps ==
  ASSUME WInv, IInv', [Next]_vars, NEW r \in Runs, Stall(r) PROVE WInv'
<1>1. /\ row \in [Runs -> Row] /\ row' = [row EXCEPT ![r].deadline = "past"]
      /\ boot' = boot /\ tasks' = tasks /\ slots' = slots /\ mode' = mode
      /\ faults' = faults + 1 /\ faults < MaxFaults + MaxAbandoned
  BY WorkerAssumption DEF WInv, ProcessOK, IInv, TypeOK, Stall, DeadlinePasses, Fault
<1>2. TasksOK'
  BY <1>1, TasksStay DEF WInv, TasksOK, PermitsOnce
<1>3. \A q \in Runs : row'[q].epoch = row[q].epoch /\ row'[q].status = row[q].status
  BY <1>1 DEF Row
<1> QED BY <1>1, <1>2, <1>3, FaultKeeps

(* A process ends, by a crash or after its pool, and another one starts.   *)
LEMMA RestartKeeps ==
  ASSUME WInv, IInv', [Next]_vars, Crash \/ Exit PROVE WInv'
<1>1. /\ tasks' = {} /\ slots' = MaxParallel /\ mode' = "up" /\ row' = row
      /\ faults \in Nat
      /\ boot' \in Executors /\ faults' \in 0..(MaxFaults + MaxAbandoned)
      /\ \/ faults' = faults + 1
         \/ mode # "up" /\ faults' = faults
  BY WorkerAssumption DEF Crash, Exit, WInv, ProcessOK, store
<1>2. ProcessOK'
  BY <1>1 DEF ProcessOK
<1>3. TasksOK'
  <2>1. IsFiniteSet({}) /\ Cardinality({}) = 0
    BY FS_EmptySet
  <2> QED BY <1>1, <2>1, WorkerAssumption DEF TasksOK, PermitsOnce, OneTaskPerLease
<1>4. ASSUME NEW r \in Runs PROVE Paid(r)'
  <2>1. Paid(r) /\ row[r].epoch \in Nat
    BY DEF WInv, IInv, TypeOK, Row
  <2> QED BY <1>1, <2>1 DEF Paid
<1> QED BY <1>2, <1>3, <1>4 DEF WInv

(* SIGTERM takes the tasks that no thread has taken up, and is a fault.    *)
LEMMA ShutdownKeeps ==
  ASSUME WInv, IInv', [Next]_vars, Shutdown PROVE WInv'
<1>1. /\ tasks' \subseteq tasks /\ slots' = slots /\ boot' = boot /\ row' = row
      /\ mode' = "closing" /\ faults' = faults + 1 /\ faults < MaxFaults
      /\ boot + 1 \in Executors
  BY DEF Shutdown, store
<1>2. TasksOK'
  <2>1. /\ IsFiniteSet(tasks) /\ slots \in Nat /\ slots + Cardinality(tasks) <= MaxParallel
    BY DEF WInv, TasksOK, PermitsOnce
  <2>2. IsFiniteSet(tasks') /\ Cardinality(tasks') <= Cardinality(tasks)
    BY <1>1, <2>1, FS_Subset
  <2>3. Cardinality(tasks) \in Nat /\ Cardinality(tasks') \in Nat
    BY <2>1, <2>2, FS_CardinalityType
  <2> QED BY <1>1, <2>1, <2>2, <2>3, TasksStay, WorkerAssumption
<1>3. ProcessOK'
  BY <1>1, WorkerAssumption DEF WInv, ProcessOK
<1>4. \A r \in Runs : Paid(r)'
  BY <1>1, FaultPays
<1> QED BY <1>2, <1>3, <1>4 DEF WInv

(* The invariant holds at the start: no run, no task, all permits.         *)
LEMMA InitWorker == WInit => WInv
<1> SUFFICES ASSUME WInit PROVE WInv
  OBVIOUS
<1>1. IInv
  BY InitInv DEF WInit
<1>2. ProcessOK
  BY WorkerAssumption DEF WInit, ProcessOK
<1>3. TasksOK
  <2>1. IsFiniteSet({}) /\ Cardinality({}) = 0
    BY FS_EmptySet
  <2> QED BY <2>1, WorkerAssumption DEF WInit, TasksOK, PermitsOnce, OneTaskPerLease
<1>4. \A r \in Runs : Paid(r)
  BY DEF WInit, Init, NewRow, Paid
<1> QED BY <1>1, <1>2, <1>3, <1>4 DEF WInv

(* Every step of the worker keeps it.                                      *)
LEMMA StepWorker == WInv /\ [WNext]_wvars => WInv'
<1> SUFFICES ASSUME WInv, [WNext]_wvars PROVE WInv'
  OBVIOUS
<1>next. [Next]_vars /\ IInv'
  BY StepTable, StepInv DEF WInv
<1>1. CASE ApiRequest
  <2>1. Submission /\ Calm /\ tasks' = tasks /\ slots' = slots /\ boot' = boot
    BY <1>1 DEF ApiRequest, Submission, Calm
  <2>2. TasksOK'
    BY <1>next, <2>1, TasksStay DEF WInv, TasksOK, PermitsOnce
  <2> QED BY <1>next, <2>1, <2>2, ApiGentle, TableKeeps
<1>2. ASSUME NEW t \in tasks, Notify(t) PROVE WInv'
  <2>1. row' = row /\ Calm /\ tasks' = tasks /\ slots' = slots /\ boot' = boot
    BY <1>2 DEF Notify, AppendEvent, Calm
  <2>2. TasksOK'
    BY <1>next, <2>1, TasksStay DEF WInv, TasksOK, PermitsOnce
  <2>3. \A r \in Runs : Gentle(r)
    BY <2>1 DEF Gentle, Same
  <2> QED BY <1>next, <2>1, <2>2, <2>3, TableKeeps
<1>3. ASSUME NEW t \in tasks, SubmitRefused(t) PROVE WInv'
  BY <1>next, <1>3, TaskStep DEF SubmitRefused
<1>4. CASE UNCHANGED wvars
  <2>1. TasksOK'
    BY <1>next, <1>4, TasksStay DEF WInv, TasksOK, PermitsOnce, wvars
  <2>2. \A r \in Runs : Gentle(r)
    BY <1>4 DEF Gentle, Same, wvars
  <2> QED BY <1>next, <1>4, <2>1, <2>2, TableKeeps DEF wvars, Calm
<1> QED BY <1>next, <1>1, <1>2, <1>3, <1>4, ChatCreateKeeps, ScheduleKeeps, AdvanceKeeps,
           HeartbeatKeeps, TaskFaultKeeps, TimeKeeps, StallKeeps, RestartKeeps,
           ShutdownKeeps, SchedulerEndsKeeps DEF WNext

(* The worker's invariant.                                                 *)
THEOREM WorkerInvariance == WSpec => []WInv
<1>1. WInit /\ [][WNext]_wvars => []WInv
  BY InitWorker, StepWorker, PTL
<1> QED BY <1>1, PTL DEF WSpec

-----------------------------------------------------------------------------
(* The permits that are lost.                                              *)

\* While a process is up, every permit is there, held, or paid for by a fault.
PermitsPaid == mode = "up" => MaxParallel <= slots + Cardinality(tasks) + faults

(* A task that becomes another, new one: nobody takes or returns a permit. *)
LEMMA BecomeCounts ==
  ASSUME WInv, NEW t \in tasks, NEW u, Become(t, u), u \notin tasks \ {t}
  PROVE  slots' = slots /\ Cardinality(tasks') = Cardinality(tasks)
<1> DEFINE S == tasks \ {t}
<1>1. IsFiniteSet(tasks) /\ slots' = slots /\ tasks' = S \cup {u} /\ u \notin S
  BY DEF WInv, TasksOK, Become
<1>2. IsFiniteSet(S) /\ Cardinality(S) = Cardinality(tasks) - 1 /\ Cardinality(tasks) \in Nat
  BY <1>1, FS_RemoveElement, FS_CardinalityType
<1> HIDE DEF S
<1>3. Cardinality(S \cup {u}) = Cardinality(S) + 1
  BY <1>1, <1>2, FS_AddElement
<1> QED BY <1>1, <1>2, <1>3

(* ... as one that keeps its lease is.                                     *)
LEMMA MoveCounts ==
  ASSUME WInv, NEW t \in tasks, NEW u, Become(t, u), u.run = t.run, u.epoch = t.epoch
  PROVE  slots' = slots /\ Cardinality(tasks') = Cardinality(tasks)
<1>1. u \notin tasks \ {t}
  BY DEF WInv, TasksOK, OneTaskPerLease
<1> QED BY <1>1, BecomeCounts

(* A permit goes from the semaphore to a new task.                         *)
LEMMA EnterCounts ==
  ASSUME WInv, NEW u, tasks' = tasks \cup {u}, u \notin tasks, slots' = slots - 1
  PROVE  slots' + Cardinality(tasks') = slots + Cardinality(tasks)
<1>1. IsFiniteSet(tasks) /\ Cardinality(tasks) \in Nat /\ slots \in Nat
  BY FS_CardinalityType DEF WInv, TasksOK
<1>2. Cardinality(tasks') = Cardinality(tasks) + 1
  BY <1>1, FS_AddElement
<1> QED BY <1>1, <1>2

(* What the scheduler's permit is taken for: one task, or none.            *)
LEMMA ScheduleCounts ==
  ASSUME WInv, Schedule
  PROVE  slots' + Cardinality(tasks') = slots + Cardinality(tasks)
<1>1. /\ tasks' = tasks \cup {[run |-> g.run, epoch |-> g.epoch, beat |-> FALSE,
                               path |-> "scheduled", pc |-> "claimed"]
                               : g \in grants' \ grants}
      /\ slots' = slots - Cardinality(grants' \ grants) /\ slots \in Nat
  BY DEF Schedule, WInv, TasksOK
<1>2. ASSUME NEW r \in Runs, r \in Claimable(SweptRow), Grant(SweptRow, r, boot)
      PROVE  slots' + Cardinality(tasks') = slots + Cardinality(tasks)
  <2>1. PICK g \in Lease \ grants : /\ g.run = r /\ g.epoch = row[r].epoch + 1
                                   /\ g.executor = boot /\ grants' = grants \cup {g}
    BY <1>2, FreshLease, SweptRows DEF WInv, ProcessOK
  <2>2. grants' \ grants = {g} /\ Cardinality({g}) = 1
    BY <2>1, FS_Singleton
  <2> DEFINE u == [run |-> g.run, epoch |-> g.epoch, beat |-> FALSE,
                   path |-> "scheduled", pc |-> "claimed"]
  <2>3. tasks' = tasks \cup {u} /\ slots' = slots - 1
    BY <1>1, <2>2
  <2>4. u.run = r /\ u.epoch = row[r].epoch + 1
    BY <2>1
  <2>5. u \notin tasks
    <3>1. \A v \in tasks : v.run = r => v.epoch \in Nat /\ v.epoch <= row[r].epoch
      BY LeaseUntaken
    <3>2. row[r].epoch \in Nat
      BY DEF WInv, IInv, TypeOK, Row
    <3> QED BY <2>4, <3>1, <3>2
  <2> QED BY <2>3, <2>5, EnterCounts
<1>3. CASE grants' = grants
  <2>1. grants' \ grants = {} /\ Cardinality({}) = 0
    BY <1>3, FS_EmptySet
  <2>2. tasks' = tasks
    BY <1>1, <2>1
  <2>3. slots' = slots
    BY <1>1, <2>1
  <2> QED BY <2>2, <2>3
<1> QED BY <1>2, <1>3, NextClaim DEF Schedule

(* The thread of a task moves it, or gives its permit back.                *)
LEMMA AdvanceCounts ==
  ASSUME WInv, NEW t \in tasks, Advance(t)
  PROVE  slots' + Cardinality(tasks') = slots + Cardinality(tasks)
<1>0. /\ t \in Task /\ IsFiniteSet(tasks) /\ Cardinality(tasks) \in Nat /\ slots \in Nat
  BY FS_CardinalityType DEF WInv, TasksOK
<1>leave. ASSUME Leave(t) PROVE slots' + Cardinality(tasks') = slots + Cardinality(tasks)
  <2>1. Cardinality(tasks \ {t}) = Cardinality(tasks) - 1
    BY <1>0, FS_RemoveElement
  <2> QED BY <1>0, <1>leave, <2>1 DEF Leave
<1>move. ASSUME NEW pc, NEW beat, Become(t, [t EXCEPT !.pc = pc, !.beat = beat])
         PROVE  slots' + Cardinality(tasks') = slots + Cardinality(tasks)
  <2>1. [t EXCEPT !.pc = pc, !.beat = beat].run = t.run
        /\ [t EXCEPT !.pc = pc, !.beat = beat].epoch = t.epoch
    BY <1>0 DEF Task
  <2> QED BY <1>0, <1>move, <2>1, MoveCounts
<1>goto. ASSUME NEW pc, Goto(t, pc)
         PROVE  slots' + Cardinality(tasks') = slots + Cardinality(tasks)
  <2>1. [t EXCEPT !.pc = pc].run = t.run /\ [t EXCEPT !.pc = pc].epoch = t.epoch
    BY <1>0 DEF Task
  <2> QED BY <1>0, <1>goto, <2>1, MoveCounts DEF Goto
<1>1. CASE ChatClaim(t)
  <2>1. CASE ClaimRun(t.run, boot)
             /\ Become(t, [t EXCEPT !.pc = "claimed", !.epoch = row'[t.run].epoch])
    <3>1. /\ t.run \in Runs /\ boot \in Executors /\ row \in [Runs -> Row]
          /\ Swept(row) /\ IInv
      BY <1>0 DEF Task, WInv, ProcessOK, IInv, TypeOK, Swept
    <3>2. row'[t.run].epoch = row[t.run].epoch + 1 /\ row[t.run].epoch \in Nat
      BY <2>1, <3>1, LeasedRow DEF ClaimRun
    <3>3. \A v \in tasks : v.run = t.run => v.epoch \in Nat /\ v.epoch <= row[t.run].epoch
      BY LeaseUntaken
    <3>4. /\ [t EXCEPT !.pc = "claimed", !.epoch = row'[t.run].epoch].run = t.run
          /\ [t EXCEPT !.pc = "claimed", !.epoch = row'[t.run].epoch].epoch
             = row'[t.run].epoch
      BY <1>0 DEF Task
    <3>5. PICK u : /\ u = [t EXCEPT !.pc = "claimed", !.epoch = row'[t.run].epoch]
                   /\ u.run = t.run /\ u.epoch = row[t.run].epoch + 1
      BY <3>2, <3>4
    <3>6. u.run = t.run /\ u.epoch = row[t.run].epoch + 1
      BY <3>5
    <3>7. u \notin tasks
      BY <3>2, <3>3, <3>6
    <3> QED BY <1>0, <2>1, <3>5, <3>7, BecomeCounts
  <2> QED BY <1>1, <1>leave, <2>1 DEF ChatClaim
<1>2. CASE Start(t)
  BY <1>2, <1>leave, <1>move DEF Start
<1>3. CASE EnterTurn(t) \/ EndTurn(t) \/ Settle(t)
  BY <1>3, <1>goto DEF EnterTurn, EndTurn, Settle
<1>4. CASE Finish(t)
  BY <1>4, <1>leave DEF Finish
<1> QED BY <1>1, <1>2, <1>3, <1>4 DEF Advance

(* Every step of the worker keeps account of the permits.                  *)
LEMMA StepPermits ==
  ASSUME WInv, PermitsPaid, [WNext]_wvars PROVE PermitsPaid'
<1>0. /\ IsFiniteSet(tasks) /\ Cardinality(tasks) \in Nat /\ slots \in Nat
      /\ faults \in Nat /\ MaxParallel \in Nat /\ tasks \subseteq Task
  BY FS_CardinalityType, WorkerAssumption DEF WInv, TasksOK, ProcessOK
<1>more. ASSUME mode' = mode, faults' \in {faults, faults + 1},
                slots' + Cardinality(tasks') = slots + Cardinality(tasks)
         PROVE  PermitsPaid'
  BY <1>0, <1>more DEF PermitsPaid
<1>fault. ASSUME NEW t \in tasks, mode' = mode, faults' = faults + 1,
                 tasks' = tasks \ {t}, slots' \in {slots, slots + 1}
          PROVE  PermitsPaid'
  <2>1. Cardinality(tasks') = Cardinality(tasks) - 1
    BY <1>0, <1>fault, FS_RemoveElement
  <2> QED BY <1>0, <1>fault, <2>1 DEF PermitsPaid
<1>1. CASE ApiRequest \/ (\E t \in tasks : Notify(t)) \/ (\E r \in Runs : TimePasses(r))
  BY <1>1, <1>more DEF ApiRequest, Notify, TimePasses
<1>2. CASE \E r \in Runs, path \in {"chat", "stream"} : ChatCreate(r, path)
  <2>1. PICK r \in Runs, path \in {"chat", "stream"} : ChatCreate(r, path)
    BY <1>2
  <2> DEFINE u == [run |-> r, epoch |-> 0, path |-> path, pc |-> "created", beat |-> FALSE]
  <2>2. tasks' = tasks \cup {u} /\ slots' = slots - 1 /\ u.run = r /\ Calm
        /\ row[r].status = "ABSENT"
    BY <2>1 DEF ChatCreate, CreateRun
  <2>3. u \notin tasks
    BY <2>2, LeaseUntaken
  <2>4. slots' + Cardinality(tasks') = slots + Cardinality(tasks)
    BY <2>2, <2>3, EnterCounts
  <2> QED BY <2>2, <2>4, <1>more DEF Calm
<1>3. CASE Schedule
  BY <1>3, <1>more, ScheduleCounts DEF Schedule, Calm
<1>4. ASSUME NEW t \in tasks, Advance(t) PROVE PermitsPaid'
  <2>1. mode' = mode /\ faults' = faults
    BY <1>4 DEF Advance, ChatClaim, Start, EnterTurn, EndTurn, Settle, Finish, Calm
  <2> QED BY <1>4, <2>1, <1>more, AdvanceCounts
<1>5. ASSUME NEW t \in tasks, Heartbeat(t) \/ HeartbeatDies(t) PROVE PermitsPaid'
  <2>1. mode' = mode /\ faults' \in {faults, faults + 1}
        /\ \/ UNCHANGED <<slots, tasks>>
           \/ Become(t, [t EXCEPT !.beat = FALSE])
    BY <1>5 DEF Heartbeat, HeartbeatDies, Calm, Fault
  <2>2. [t EXCEPT !.beat = FALSE].run = t.run /\ [t EXCEPT !.beat = FALSE].epoch = t.epoch
    BY <1>0 DEF Task
  <2>3. slots' = slots /\ Cardinality(tasks') = Cardinality(tasks)
    BY <2>1, <2>2, MoveCounts
  <2> QED BY <2>1, <2>3, <1>more
<1>6. ASSUME NEW t \in tasks, StreamAbandoned(t) PROVE PermitsPaid'
  BY <1>6, <1>fault DEF StreamAbandoned
<1>7. ASSUME NEW t \in tasks, StepRaises(t) PROVE PermitsPaid'
  <2>1. mode' = mode /\ faults' = faults + 1
    BY <1>7 DEF StepRaises, Fault
  <2>2. CASE Leave(t)
    BY <2>1, <2>2, <1>fault DEF Leave
  <2>3. CASE Become(t, [t EXCEPT !.pc = "raised", !.beat = FALSE])
    <3>1. [t EXCEPT !.pc = "raised", !.beat = FALSE].run = t.run
          /\ [t EXCEPT !.pc = "raised", !.beat = FALSE].epoch = t.epoch
      BY <1>0 DEF Task
    <3>2. slots' = slots /\ Cardinality(tasks') = Cardinality(tasks)
      BY <2>3, <3>1, MoveCounts
    <3> QED BY <2>1, <3>2, <1>more
  <2> QED BY <1>7, <2>2, <2>3 DEF StepRaises
<1>8. ASSUME NEW r \in Runs, Stall(r) PROVE PermitsPaid'
  BY <1>8, <1>more DEF Stall, Fault
<1>9. CASE Crash \/ Exit
  <2>1. tasks' = {} /\ slots' = MaxParallel /\ Cardinality({}) = 0 /\ faults' \in Nat
    BY <1>0, <1>9, FS_EmptySet DEF Crash, Exit
  <2> QED BY <1>0, <2>1 DEF PermitsPaid
<1>10. CASE Shutdown \/ SchedulerEnds \/ \E t \in tasks : SubmitRefused(t)
  BY <1>10 DEF Shutdown, SchedulerEnds, SubmitRefused, Calm, PermitsPaid
<1>11. CASE UNCHANGED wvars
  BY <1>11, <1>more DEF wvars
<1> QED BY <1>1, <1>2, <1>3, <1>4, <1>5, <1>6, <1>7, <1>8, <1>9, <1>10, <1>11 DEF WNext

-----------------------------------------------------------------------------
(* What turns write.                                                       *)

\* Until the first fault every task has the lease in force.
Unharmed == faults = 0 =>
  mode = "up" /\ \A t \in tasks : t.pc # "created" => row[t.run].status \in Active

(* The requests without a permit take no run out of its executor's hands.  *)
LEMMA ApiActive ==
  ASSUME WInv, Submission, NEW q \in Runs, row[q].status \in Active
  PROVE  row'[q].status \in Active
<1> USE DEF Active, Terminal
<1>1. row \in [Runs -> Row] /\ row[q] \in Row
  BY DEF WInv, IInv, TypeOK
<1>cancel. ASSUME NEW r \in Runs, Cancel(r) PROVE row'[q].status \in Active
  BY <1>1, <1>cancel DEF Cancel, Commit, Row
<1>2. ASSUME NEW r \in Runs, CreateRun(r) PROVE row'[q].status \in Active
  BY <1>1, <1>2 DEF CreateRun, Commit
<1>3. ASSUME NEW r \in Runs, FinalizeInputManifest(r) PROVE row'[q].status \in Active
  BY <1>1, <1>3 DEF FinalizeInputManifest, Commit, Row
<1>4. ASSUME NEW r \in Runs, RequestCancel(r) PROVE row'[q].status \in Active
  BY <1>4, <1>cancel DEF RequestCancel
<1>5. ASSUME NEW x \in Sessions, CancelLatestActiveRun(x) PROVE row'[q].status \in Active
  BY <1>5, <1>cancel DEF CancelLatestActiveRun
<1> QED BY <1>2, <1>3, <1>4, <1>5 DEF Submission

(* Until then an active run is in the hands of its one task.               *)
LEMMA Undisturbed ==
  ASSUME WInv, Unharmed, faults = 0
  PROVE  /\ mode = "up"
         /\ \A r \in Runs : row[r].status \in Active => row[r].deadline = "ahead"
         /\ \A t \in tasks : t.pc # "created" =>
              t.run \in Runs /\ t.epoch = row[t.run].epoch /\ t.epoch = 1
<1>1. ASSUME NEW r \in Runs, row[r].status \in Active PROVE row[r].deadline = "ahead"
  <2>1. row[r].epoch \in Nat /\ row[r].epoch > 0 /\ row[r].status \notin Terminal
    BY <1>1, ActiveEpoch DEF WInv, Active, Terminal
  <2>2. Paid(r) /\ mode = "up"
    BY DEF WInv, Unharmed
  <2> QED BY <2>1, <2>2 DEF Paid, Secure
<1>2. ASSUME NEW t \in tasks, t.pc # "created"
      PROVE  t.run \in Runs /\ t.epoch = row[t.run].epoch /\ t.epoch = 1
  <2>1. LeaseOf(t) \in grants /\ t.run \in Runs /\ t.epoch \in Nat
    BY <1>2 DEF WInv, TasksOK, TaskOK, Task
  <2>2. LeaseOf(t).epoch > 0
    BY <2>1 DEF WInv, IInv, LeasesNumbered
  <2>3. t.epoch <= row[t.run].epoch /\ row[t.run].epoch \in Nat
    BY LeaseUntaken
  <2>4. row[t.run].epoch <= 1
    BY <2>1, <2>3 DEF WInv, Paid, Unharmed
  <2> QED BY <2>1, <2>2, <2>3, <2>4 DEF LeaseOf
<1> QED BY <1>1, <1>2 DEF Unharmed

(* Faults are counted, and never forgotten.                                *)
LEMMA FaultsCount ==
  ASSUME [WNext]_wvars PROVE faults' \in {faults, faults + 1}
<1>1. ASSUME NEW t \in tasks, Advance(t) PROVE faults' = faults
  BY <1>1 DEF Advance, ChatClaim, Start, EnterTurn, EndTurn, Settle, Finish, Calm
<1>2. CASE \/ ApiRequest \/ Schedule \/ SchedulerEnds \/ Exit \/ UNCHANGED wvars
           \/ \E r \in Runs, path \in {"chat", "stream"} : ChatCreate(r, path)
           \/ \E t \in tasks : Notify(t) \/ Heartbeat(t) \/ SubmitRefused(t)
           \/ \E r \in Runs : TimePasses(r)
  BY <1>2 DEF ApiRequest, Schedule, SchedulerEnds, Exit, wvars, ChatCreate, Notify, Heartbeat,
     SubmitRefused, TimePasses, Calm
<1>3. CASE \/ Crash \/ Shutdown \/ \E r \in Runs : Stall(r)
           \/ \E t \in tasks : HeartbeatDies(t) \/ StreamAbandoned(t) \/ StepRaises(t)
  BY <1>3 DEF Crash, Shutdown, HeartbeatDies, StreamAbandoned, StepRaises, Stall, Fault
<1> QED BY <1>1, <1>2, <1>3 DEF WNext

(* Every step of the worker keeps the tasks' leases, or is a fault.        *)
LEMMA StepUnharmed ==
  ASSUME WInv, Unharmed, [WNext]_wvars PROVE Unharmed'
<1> SUFFICES ASSUME faults' = 0
             PROVE  /\ mode' = "up"
                    /\ \A t \in tasks' : t.pc # "created" => row'[t.run].status \in Active
  BY DEF Unharmed
<1>0. /\ faults \in Nat /\ tasks \subseteq Task /\ row \in [Runs -> Row] /\ OneTaskPerLease
      /\ boot \in Executors /\ IInv
  BY DEF WInv, ProcessOK, TasksOK, IInv, TypeOK
<1>calm. CASE faults # 0
  BY <1>0, <1>calm, FaultsCount
<1> SUFFICES ASSUME faults = 0
             PROVE  /\ mode' = "up"
                    /\ \A t \in tasks' : t.pc # "created" => row'[t.run].status \in Active
  BY <1>calm
<1>u. /\ mode = "up"
      /\ \A r \in Runs : row[r].status \in Active => row[r].deadline = "ahead"
      /\ \A t \in tasks : t.pc # "created" =>
           t.run \in Runs /\ t.epoch = row[t.run].epoch /\ t.epoch = 1
  BY Undisturbed
<1>a. \A t \in tasks : t.pc # "created" => row[t.run].status \in Active /\ t.run \in Runs
  BY <1>0 DEF Unharmed, Task
<1>stay. ASSUME mode' = mode,
                \A t \in tasks' : t.pc # "created" =>
                  \/ t.run \in Runs /\ row'[t.run].status \in Active
                  \/ \E v \in tasks : v.pc # "created" /\ v.run = t.run,
                \A r \in Runs : row[r].status \in Active => row'[r].status \in Active
         PROVE  /\ mode' = "up"
                /\ \A t \in tasks' : t.pc # "created" => row'[t.run].status \in Active
  BY <1>u, <1>a, <1>stay
<1>become. ASSUME NEW t \in tasks, t.pc # "created", NEW u, Become(t, u), u.run = t.run,
                  mode' = mode, row' = row
           PROVE  /\ mode' = "up"
                  /\ \A v \in tasks' : v.pc # "created" => row'[v.run].status \in Active
  BY <1>become, <1>stay DEF Become
<1>leave. ASSUME NEW t \in tasks, Leave(t), mode' = mode, row' = row
          PROVE  /\ mode' = "up"
                 /\ \A v \in tasks' : v.pc # "created" => row'[v.run].status \in Active
  BY <1>leave, <1>stay DEF Leave
<1>swept. \A q \in Runs : row[q].status \in Active => Sweep(row[q]) = row[q]
  BY <1>u DEF Sweep, Active
<1>1. CASE ApiRequest
  <2>1. Submission /\ tasks' = tasks /\ mode' = mode
    BY <1>1 DEF ApiRequest, Submission
  <2>2. \A r \in Runs : row[r].status \in Active => row'[r].status \in Active
    BY <2>1, ApiActive
  <2> QED BY <2>1, <2>2, <1>stay
<1>2. ASSUME NEW r \in Runs, NEW path \in {"chat", "stream"}, ChatCreate(r, path)
      PROVE  /\ mode' = "up"
             /\ \A t \in tasks' : t.pc # "created" => row'[t.run].status \in Active
  <2>1. Submission /\ mode' = mode
        /\ tasks' = tasks \cup {[run |-> r, epoch |-> 0, path |-> path,
                                  pc |-> "created", beat |-> FALSE]}
    BY <1>2 DEF ChatCreate, Submission, Calm
  <2>2. \A q \in Runs : row[q].status \in Active => row'[q].status \in Active
    BY <2>1, ApiActive
  <2> QED BY <2>1, <2>2, <1>stay
<1>3. CASE Schedule
  <2>1. /\ tasks' = tasks \cup {[run |-> g.run, epoch |-> g.epoch, beat |-> FALSE,
                                 path |-> "scheduled", pc |-> "claimed"]
                                 : g \in grants' \ grants}
        /\ mode' = mode
    BY <1>3 DEF Schedule, Calm
  <2>2. ASSUME NEW r \in Runs, r \in Claimable(SweptRow), Grant(SweptRow, r, boot)
        PROVE  /\ mode' = "up"
               /\ \A t \in tasks' : t.pc # "created" => row'[t.run].status \in Active
    <3>1. /\ row'[r].status = "LEASED" /\ \A q \in Runs \ {r} : row'[q] = Sweep(row[q])
      BY <1>0, <2>2, LeasedRow, SweptRows
    <3>2. \A q \in Runs : row[q].status \in Active => row'[q].status \in Active
      BY <3>1, <1>swept DEF Active
    <3>3. \A g \in grants' \ grants : g.run = r
      BY <2>2 DEF Grant
    <3>4. \A t \in tasks' : t \in tasks \/ t.run = r
      BY <2>1, <3>3
    <3> QED BY <2>1, <3>1, <3>2, <3>4, <1>stay DEF Active
  <2>3. CASE row' = SweptRow /\ grants' = grants
    <3>1. tasks' = tasks
      BY <2>1, <2>3
    <3>2. \A q \in Runs : row[q].status \in Active => row'[q].status \in Active
      BY <2>3, SweptRows, <1>swept
    <3> QED BY <2>1, <3>1, <3>2, <1>stay
  <2> QED BY <1>3, <2>2, <2>3, NextClaim DEF Schedule
<1>4. ASSUME NEW t \in tasks, Advance(t)
      PROVE  /\ mode' = "up"
             /\ \A v \in tasks' : v.pc # "created" => row'[v.run].status \in Active
  <2>0. mode' = mode /\ t \in Task /\ t.run \in Runs
    BY <1>0, <1>4 DEF Advance, ChatClaim, Start, EnterTurn, EndTurn, Settle, Finish, Calm, Task
  <2>1. CASE ClaimRun(t.run, boot)
             /\ Become(t, [t EXCEPT !.pc = "claimed", !.epoch = row'[t.run].epoch])
    <3>1. Swept(row)
      BY <1>0 DEF Swept
    <3>2. row'[t.run].status = "LEASED" /\ \A q \in Runs \ {t.run} : row'[q] = row[q]
      BY <1>0, <2>0, <2>1, <3>1, LeasedRow DEF ClaimRun
    <3>3. \A q \in Runs : row[q].status \in Active => row'[q].status \in Active
      BY <3>2 DEF Active
    <3>4. [t EXCEPT !.pc = "claimed", !.epoch = row'[t.run].epoch].run = t.run
      BY <2>0 DEF Task
    <3>5. \A v \in tasks' : v \in tasks \/ v.run = t.run
      BY <2>1, <3>4 DEF Become
    <3> QED BY <2>0, <3>2, <3>3, <3>5, <1>stay DEF Active
  <2>2. CASE t.pc = "claimed" /\ MarkRunning(LeaseOf(t))
             /\ Become(t, [t EXCEPT !.pc = "waiting", !.beat = TRUE])
    <3>1. row'[t.run].status = "RUNNING" /\ \A q \in Runs \ {t.run} : row'[q] = row[q]
      BY <1>0, <2>0, <2>2 DEF MarkRunning, Commit, LeaseOf, Row
    <3>2. \A q \in Runs : row[q].status \in Active => row'[q].status \in Active
      BY <3>1 DEF Active
    <3>3. [t EXCEPT !.pc = "waiting", !.beat = TRUE].run = t.run
      BY <2>0 DEF Task
    <3>4. \A v \in tasks' : v \in tasks \/ v.run = t.run
      BY <2>2, <3>3 DEF Become
    <3> QED BY <2>0, <3>1, <3>2, <3>4, <1>stay DEF Active
  <2>3. CASE Finish(t)
    <3>1. t.pc # "created" /\ tasks' = tasks \ {t}
      BY <2>3 DEF Finish, Leave, Outcomes
    <3>2. \A q \in Runs \ {t.run} : row'[q] = row[q]
      BY <1>0, <2>0, <2>3 DEF Finish, FinishRun, Commit, LeaseOf, store
    <3>3. \A v \in tasks' : v.pc # "created" => v.run # t.run
      BY <1>0, <1>u, <3>1 DEF OneTaskPerLease
    <3>4. \A v \in tasks' : v.pc # "created" => row'[v.run].status \in Active
      BY <1>a, <3>1, <3>2, <3>3
    <3> QED BY <1>u, <2>0, <3>4
  <2>4. CASE Leave(t) /\ UNCHANGED store
    BY <2>0, <2>4, <1>leave DEF store
  <2>5. CASE EnterTurn(t) \/ EndTurn(t) \/ Settle(t)
    <3>1. PICK pc : Goto(t, pc)
      BY <2>5 DEF EnterTurn, EndTurn, Settle
    <3>2. t.pc # "created" /\ row' = row
      BY <2>5 DEF EnterTurn, EndTurn, Settle, store
    <3>3. [t EXCEPT !.pc = pc].run = t.run
      BY <2>0 DEF Task
    <3> QED BY <2>0, <3>1, <3>2, <3>3, <1>become DEF Goto
  <2> QED BY <1>4, <2>1, <2>2, <2>3, <2>4, <2>5 DEF Advance, ChatClaim, Start
<1>5. ASSUME NEW t \in tasks, Notify(t)
      PROVE  /\ mode' = "up"
             /\ \A v \in tasks' : v.pc # "created" => row'[v.run].status \in Active
  BY <1>5, <1>stay DEF Notify, AppendEvent
<1>6. ASSUME NEW t \in tasks, Heartbeat(t)
      PROVE  /\ mode' = "up"
             /\ \A v \in tasks' : v.pc # "created" => row'[v.run].status \in Active
  <2>0. mode' = mode /\ t \in Task /\ t.pc # "created"
    BY <1>0, <1>6 DEF Heartbeat, Calm, WInv, TasksOK, TaskOK
  <2>1. CASE HeartbeatLease(LeaseOf(t)) /\ UNCHANGED <<slots, tasks>>
    <3>1. \A q \in Runs : row'[q].status = row[q].status
      BY <1>0, <2>1 DEF HeartbeatLease, Row
    <3> QED BY <2>0, <2>1, <3>1, <1>stay
  <2>2. CASE Become(t, [t EXCEPT !.beat = FALSE]) /\ UNCHANGED store
    <3>1. [t EXCEPT !.beat = FALSE].run = t.run
      BY <2>0 DEF Task
    <3> QED BY <2>0, <2>2, <3>1, <1>become DEF store
  <2> QED BY <1>6, <2>1, <2>2 DEF Heartbeat
<1>7. ASSUME NEW r \in Runs, TimePasses(r)
      PROVE  /\ mode' = "up"
             /\ \A v \in tasks' : v.pc # "created" => row'[v.run].status \in Active
  <2>1. \A q \in Runs : row'[q].status = row[q].status
    BY <1>0, <1>7 DEF TimePasses, DeadlinePasses, Row
  <2> QED BY <1>7, <2>1, <1>stay DEF TimePasses
<1>8. CASE SchedulerEnds \/ Exit \/ \E t \in tasks : SubmitRefused(t)
  BY <1>8, <1>u DEF SchedulerEnds, Exit, SubmitRefused
<1>9. CASE UNCHANGED wvars
  BY <1>9, <1>stay DEF wvars
<1>10. CASE \/ Crash \/ Shutdown
            \/ \E t \in tasks : HeartbeatDies(t) \/ StreamAbandoned(t) \/ StepRaises(t)
            \/ \E r \in Runs : Stall(r)
  <2>1. faults' = faults + 1
    BY <1>10 DEF Crash, Shutdown, HeartbeatDies, StreamAbandoned, StepRaises, Stall, Fault
  <2> QED BY <2>1
<1> QED BY <1>1, <1>2, <1>3, <1>4, <1>5, <1>6, <1>7, <1>8, <1>9, <1>10 DEF WNext

\* No turn writes in the step.
NoUpdate == \A r \in Runs : \A i \in DOMAIN log'[r] \ DOMAIN log[r] :
  log'[r][i].kind # "update"

(* A transaction that appends other events.                                *)
LEMMA CommitQuiet ==
  ASSUME WInv, NEW q \in Runs, NEW new, NEW entries \in Seq(Event), Commit(q, new, entries),
         \A k \in 1..Len(entries) : entries[k].kind # "update"
  PROVE  NoUpdate
<1>1. log \in [Runs -> Seq(Event)]
  BY DEF WInv, IInv, TypeOK
<1>2. ASSUME NEW i \in DOMAIN log'[q] \ DOMAIN log[q] PROVE log'[q][i].kind # "update"
  <2> DEFINE old == log[q]
  <2>1. old \in Seq(Event) /\ log'[q] = old \o entries
    BY <1>1 DEF Commit
  <2>2. i \in DOMAIN (old \o entries) /\ i \notin DOMAIN old
    BY <1>2, <2>1
  <2> HIDE DEF old
  <2>3. /\ i - Len(old) \in 1..Len(entries)
        /\ (old \o entries)[i] = entries[i - Len(old)]
    BY <2>1, <2>2
  <2> QED BY <2>1, <2>3
<1>3. \A r \in Runs \ {q} : log'[r] = log[r]
  BY <1>1 DEF Commit
<1> QED BY <1>2, <1>3 DEF NoUpdate

(* The events of the requests and of the executors' operations.            *)
LEMMA QuietOperations ==
  ASSUME WInv
  PROVE  /\ Submission => NoUpdate
         /\ \A r \in Runs : CreateRun(r) => NoUpdate
         /\ \A r \in Runs : ClaimRun(r, boot) => NoUpdate
         /\ ClaimNextRun(boot) => NoUpdate
         /\ \A g \in grants : MarkRunning(g) => NoUpdate
         /\ \A g \in grants, outcome \in Outcomes : FinishRun(g, outcome) => NoUpdate
<1> USE DEF Event, Kinds, Entry
<1>0. /\ grants \subseteq Lease /\ row \in [Runs -> Row] /\ log \in [Runs -> Seq(Event)]
  BY DEF WInv, IInv, TypeOK
<1>one. ASSUME NEW q \in Runs, NEW new, NEW e \in Event, e.kind # "update", Commit(q, new, <<e>>)
        PROVE  NoUpdate
  <2>1. <<e>> \in Seq(Event) /\ \A k \in 1..Len(<<e>>) : <<e>>[k].kind # "update"
    BY <1>one
  <2> QED BY <1>one, <2>1, CommitQuiet
<1>two. ASSUME NEW q \in Runs, NEW new, NEW e \in Event, NEW d \in Event, e.kind # "update",
               d.kind # "update", Commit(q, new, <<e, d>>)
        PROVE  NoUpdate
  <2>1. <<e, d>> \in Seq(Event) /\ \A k \in 1..Len(<<e, d>>) : <<e, d>>[k].kind # "update"
    BY <1>two
  <2> QED BY <1>two, <2>1, CommitQuiet
<1>cancel. ASSUME NEW q \in Runs, Cancel(q) PROVE NoUpdate
  BY <1>cancel, <1>one DEF Cancel
<1>create. ASSUME NEW q \in Runs, CreateRun(q) PROVE NoUpdate
  BY <1>create, <1>one DEF CreateRun
<1>finalize. ASSUME NEW q \in Runs, FinalizeInputManifest(q) PROVE NoUpdate
  BY <1>finalize, <1>one, <1>two DEF FinalizeInputManifest
<1>1. Submission => NoUpdate
  BY <1>cancel, <1>create, <1>finalize DEF Submission, RequestCancel, CancelLatestActiveRun
<1>grant. ASSUME NEW q \in Runs, NEW table \in [Runs -> Row], Grant(table, q, boot)
          PROVE  NoUpdate
  <2>1. table[q].epoch + 1 \in Nat
    BY DEF Row
  <2>2. Entry("status", table[q].epoch + 1) \in Event
    BY <2>1
  <2>3. log' = [log EXCEPT ![q] = @ \o <<Entry("status", table[q].epoch + 1)>>]
    <3>1. log[q] \in Seq(Event)
      BY <1>0
    <3>2. Append(log[q], Entry("status", table[q].epoch + 1))
          = log[q] \o <<Entry("status", table[q].epoch + 1)>>
      BY <2>2, <3>1
    <3> QED BY <1>grant, <3>2 DEF Grant
  <2>5. ASSUME NEW r \in Runs, NEW i \in DOMAIN log'[r] \ DOMAIN log[r]
        PROVE  log'[r][i].kind # "update"
    <3> DEFINE old == log[r]
    <3> DEFINE e == Entry("status", table[q].epoch + 1)
    <3>1. r = q /\ old \in Seq(Event) /\ log'[r] = old \o <<e>> /\ e \in Event
          /\ e.kind = "status"
      BY <1>0, <2>2, <2>3, <2>5
    <3>2. i \in DOMAIN (old \o <<e>>) /\ i \notin DOMAIN old
      BY <2>5, <3>1
    <3> HIDE DEF old, e
    <3>3. (old \o <<e>>)[i] = e
      BY <3>1, <3>2
    <3> QED BY <3>1, <3>3
  <2> QED BY <2>5 DEF NoUpdate
<1>2. \A r \in Runs : ClaimRun(r, boot) => NoUpdate
  BY <1>0, <1>grant DEF ClaimRun
<1>3. ClaimNextRun(boot) => NoUpdate
  <2>1. SweptRow \in [Runs -> Row]
    BY SweptRows DEF Swept
  <2>2. ASSUME log' = log PROVE NoUpdate
    BY <2>2 DEF NoUpdate
  <2>3. ClaimNextRun(boot) => log' = log \/ \E r \in Runs : Grant(SweptRow, r, boot)
    BY DEF ClaimNextRun, SweptRow, Claimable
  <2> QED BY <2>1, <2>2, <2>3, <1>grant
<1>4. ASSUME NEW g \in grants, MarkRunning(g) PROVE NoUpdate
  <2>1. g.run \in Runs /\ Entry("status", g.epoch) \in Event
    BY <1>0 DEF Lease
  <2> QED BY <1>4, <2>1, <1>one DEF MarkRunning
<1>5. ASSUME NEW g \in grants, NEW outcome \in Outcomes, FinishRun(g, outcome) PROVE NoUpdate
  <2> DEFINE e == Entry(IF outcome = "SUCCEEDED" THEN "done" ELSE "error", g.epoch)
  <2>1. g.run \in Runs /\ e \in Event /\ e.kind # "update"
    BY <1>0 DEF Lease
  <2> QED BY <1>5, <2>1, <1>one DEF FinishRun
<1> QED BY <1>1, <1>2, <1>3, <1>4, <1>5, <1>create

(* Only a turn's notifications are updates, in its own run and epoch.      *)
LEMMA UpdatesOfTurns ==
  ASSUME WInv, [WNext]_wvars
  PROVE  NoUpdate \/ \E t \in tasks : Notify(t)
<1>same. ASSUME log' = log PROVE NoUpdate
  BY <1>same DEF NoUpdate
<1>lease. \A t \in tasks : t.run \in Runs /\ (t.pc # "created" => LeaseOf(t) \in grants)
  BY DEF WInv, TasksOK, TaskOK, Task
<1>1. CASE ApiRequest
  BY <1>1, QuietOperations DEF ApiRequest, Submission
<1>2. CASE \E r \in Runs, path \in {"chat", "stream"} : ChatCreate(r, path)
  BY <1>2, QuietOperations DEF ChatCreate
<1>3. CASE Schedule \/ SchedulerEnds
  BY <1>3, <1>same, QuietOperations DEF Schedule, SchedulerEnds, store
<1>4. ASSUME NEW t \in tasks, Advance(t) PROVE NoUpdate
  <2>1. CASE ChatClaim(t)
    BY <2>1, <1>lease, <1>same, QuietOperations DEF ChatClaim, store
  <2>2. CASE Start(t)
    BY <2>2, <1>lease, <1>same, QuietOperations DEF Start, store
  <2>3. CASE EnterTurn(t) \/ EndTurn(t) \/ Settle(t)
    BY <2>3, <1>same DEF EnterTurn, EndTurn, Settle, store
  <2>4. CASE Finish(t)
    <3>1. t.pc # "created" /\ (IF t.pc = "raised" THEN "FAILED" ELSE t.pc) \in Outcomes
      BY <2>4 DEF Finish, Outcomes
    <3> QED BY <2>4, <3>1, <1>lease, <1>same, QuietOperations DEF Finish, store
  <2> QED BY <1>4, <2>1, <2>2, <2>3, <2>4 DEF Advance
<1>5. ASSUME NEW t \in tasks,
             \/ Heartbeat(t) \/ HeartbeatDies(t) \/ StreamAbandoned(t) \/ StepRaises(t)
             \/ SubmitRefused(t)
      PROVE  NoUpdate
  BY <1>5, <1>same DEF Heartbeat, HeartbeatLease, HeartbeatDies, StreamAbandoned, StepRaises,
     SubmitRefused, store
<1>6. CASE (\E r \in Runs : TimePasses(r) \/ Stall(r)) \/ Crash \/ Shutdown \/ Exit
  BY <1>6, <1>same DEF TimePasses, Stall, DeadlinePasses, Crash, Shutdown, Exit, store
<1>7. CASE UNCHANGED wvars
  BY <1>7, <1>same DEF wvars
<1> QED BY <1>1, <1>2, <1>3, <1>4, <1>5, <1>6, <1>7 DEF WNext

-----------------------------------------------------------------------------
(* What the invariant gives.                                               *)

(* The variables keep their types.                                         *)
THEOREM WorkerTypes == WSpec => []WTypeOK
<1>1. WInv => WTypeOK
  <2> SUFFICES ASSUME WInv PROVE WTypeOK
    OBVIOUS
  <2>1. slots \in 0..MaxParallel
    BY FS_CardinalityType, WorkerAssumption DEF WInv, TasksOK, PermitsOnce
  <2> QED BY <2>1 DEF WTypeOK, WInv, IInv, ProcessOK, TasksOK
<1> QED BY <1>1, WorkerInvariance, PTL

(* No path of the request threads, the scheduler and the shutdown returns  *)
(* a permit twice, and what a process loses of them before it is shut down *)
(* it loses to faults, one to each.                                        *)
THEOREM PermitsHeld == WSpec => []PermitsKept
<1>1. WInit => PermitsPaid
  <2>1. Cardinality({}) = 0
    BY FS_EmptySet
  <2> QED BY <2>1, WorkerAssumption DEF WInit, PermitsPaid
<1>2. WInv /\ PermitsPaid /\ [WNext]_wvars => PermitsPaid'
  BY StepPermits
<1>3. WInv /\ PermitsPaid => PermitsKept
  BY DEF WInv, TasksOK, PermitsOnce, PermitsPaid, PermitsKept
<1> QED BY <1>1, <1>2, <1>3, WorkerInvariance, PTL DEF WSpec

(* Two claims never give one lease to two tasks.                           *)
THEOREM TasksFenced == WSpec => []OneTaskPerLease
<1>1. WInv => OneTaskPerLease
  BY DEF WInv, TasksOK
<1> QED BY <1>1, WorkerInvariance, PTL

(* Without a fault no prompt is executed twice; each fault explains at     *)
(* most one more execution of any run.                                     *)
THEOREM RetriesExplained == WSpec => []RetriesNeedFaults
<1>1. WInv => RetriesNeedFaults
  <2> SUFFICES ASSUME WInv, NEW r \in Runs PROVE row[r].epoch <= 1 + faults
    BY DEF RetriesNeedFaults
  <2>1. Paid(r) /\ row[r].epoch \in Nat /\ faults \in Nat
    BY DEF WInv, IInv, TypeOK, Row, ProcessOK
  <2> QED BY <2>1 DEF Paid
<1> QED BY <1>1, WorkerInvariance, PTL

(* Until something goes wrong outside, every active run has its task.      *)
THEOREM ActiveRunsAttended == WSpec => []LeasesAttended
<1>1. WInv => LeasesAttended
  <2> SUFFICES ASSUME WInv, faults = 0, NEW r \in Runs, row[r].status \in Active
               PROVE  \E t \in tasks : /\ t.run = r /\ ~Stale(t)
                                       /\ t.pc = "claimed" <=> row[r].status = "LEASED"
                                       /\ t.beat <=> row[r].status = "RUNNING"
    BY DEF LeasesAttended
  <2>1. Paid(r) /\ row[r].epoch \in Nat /\ row[r].epoch > 0
    BY ActiveEpoch DEF WInv
  <2>2. row[r].status \notin Terminal
    BY DEF Active, Terminal
  <2>3. Secure(r)
    BY <2>1, <2>2 DEF Paid
  <2> QED BY <2>3 DEF Secure, Stale
<1> QED BY <1>1, WorkerInvariance, PTL

(* Until the first fault nobody writes to a run's log but the turn that    *)
(* holds its lease.                                                        *)
THEOREM UpdatesOfLease == WSpec => StaleUpdatesNeedFaults
<1>1. WInit => Unharmed
  BY DEF WInit, Unharmed
<1>2. WInv /\ Unharmed /\ [WNext]_wvars => Unharmed'
  BY StepUnharmed
<1>3. ASSUME WInv, Unharmed, [WNext]_wvars, faults = 0
      PROVE  \A r \in Runs : \A i \in DOMAIN log'[r] \ DOMAIN log[r] :
               log'[r][i].kind = "update" => /\ row[r].status \in Active
                                             /\ log'[r][i].epoch = row[r].epoch
  <2>1. CASE NoUpdate
    BY <2>1 DEF NoUpdate
  <2>2. ASSUME NEW t \in tasks, Notify(t),
               NEW r \in Runs, NEW i \in DOMAIN log'[r] \ DOMAIN log[r]
        PROVE  row[r].status \in Active /\ log'[r][i].epoch = row[r].epoch
    <3>1. /\ t.pc # "created" /\ t.run \in Runs /\ t.epoch = row[t.run].epoch
          /\ row[t.run].status \in Active /\ t.epoch = 1
      BY <1>3, <2>2, Undisturbed DEF Notify, Unharmed
    <3> DEFINE old == log[t.run]
               e == Entry("update", t.epoch)
    <3>2. old \in Seq(Event) /\ e \in Event /\ e.epoch = t.epoch
      BY <1>3, <3>1 DEF WInv, IInv, TypeOK, Entry, Event, Kinds
    <3>3. log' = [log EXCEPT ![t.run] = Append(old, e)] /\ log \in [Runs -> Seq(Event)]
      BY <1>3, <2>2 DEF Notify, AppendEvent, LeaseOf, WInv, IInv, TypeOK
    <3>4. r = t.run /\ log'[r] = Append(old, e)
      BY <2>2, <3>1, <3>3
    <3>5. i \in DOMAIN Append(old, e) /\ i \notin DOMAIN old
      BY <2>2, <3>4
    <3> HIDE DEF old, e
    <3>6. Append(old, e)[i] = e
      BY <3>2, <3>5
    <3> QED BY <3>1, <3>2, <3>4, <3>6
  <2> QED BY <1>3, <2>1, <2>2, UpdatesOfTurns
<1>4. WInv /\ Unharmed /\ [WNext]_wvars => [faults = 0 =>
        \A r \in Runs : \A i \in DOMAIN log'[r] \ DOMAIN log[r] :
          log'[r][i].kind = "update" => /\ row[r].status \in Active
                                        /\ log'[r][i].epoch = row[r].epoch]_wvars
  BY <1>3
<1> QED BY <1>1, <1>2, <1>4, WorkerInvariance, PTL DEF WSpec, StaleUpdatesNeedFaults

(* The run table under the process, with its request threads, scheduler,   *)
(* heartbeats and crashes, is the run table of RunStore, so every theorem  *)
(* of RunStoreProofs holds of it.                                          *)
THEOREM TableUnderWorker == WSpec => Spec
<1>1. WInit => Init
  BY DEF WInit
<1>2. WInit /\ [][WNext]_wvars => [][Next]_vars
  BY InitWorker, StepWorker, StepTable, PTL
<1> QED BY <1>1, <1>2, PTL DEF WSpec, Spec

(* A client of the process sees the contract of a run: attempts that       *)
(* exclude each other in a session, one outcome, a cancel that sticks.     *)
THEOREM WorkerKeepsContract == WSpec => ImplementsContract
  BY TableUnderWorker, Refinement, PTL

=============================================================================
