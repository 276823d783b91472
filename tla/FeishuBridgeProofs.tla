------------------------- MODULE FeishuBridgeProofs -------------------------
(***************************************************************************)
(* Theorems of FeishuBridge and RunInputs, over the invariant of RunStore: *)
(* for every set of runs and executors, any messages and files, any number *)
(* of faults.                                                              *)
(***************************************************************************)
EXTENDS FeishuBridge, RunStoreProofs

-----------------------------------------------------------------------------
(* The inductive invariant, run by run.                                    *)

\* An executor can have, or has had, the run.
Executable(r) == row[r].epoch > 0 \/ row[r].status = "QUEUED"

\* What every finalize request of the run announces.
Announced(r) == IF message[r] = "new" THEN Uploaded ELSE media[r]

NamesRecorded(r) == /\ names[r] = {Manifest(d) : d \in recorded[r]}
                    /\ recorded[r] = Contents(call[r].items)

\* What the handler has done, by the place it is at.
Requested(r) ==
  /\ row[r].status = "ABSENT" => At(r, "none") /\ job[r] \in {"none", "submitted", "failing", "apologizing"}
  /\ job[r] \in {"submitted", "prepared", "staged", "copied"} => At(r, "none")
  /\ At(r, "none") => recorded[r] = {}
  /\ ~At(r, "none") => call[r].items = Announced(r)

Materialized(r) ==
  /\ recorded[r] \subseteq Contents(call[r].items)
  /\ \A d \in recorded[r] : Manifest(d) \in inbox[r]
  /\ call[r].pc \in {"arrived", "message"} => call[r].next = 1
  /\ At(r, "copying") => \A j \in DOMAIN call[r].items :
                           j < call[r].next => call[r].items[j] \in recorded[r]
  /\ At(r, "paths") => recorded[r] = Contents(call[r].items)
  /\ At(r, "queueing") => NamesRecorded(r)
  /\ Executable(r) => /\ call[r].pc \in {"arrived", "accepted", "refused"}
                      /\ NamesRecorded(r)

\* A log tells of executions and results only what is in the row.
LogTells(r) == \A i \in 1..Len(log[r]) :
  /\ log[r][i].kind = "update" => row[r].epoch > 0
  /\ log[r][i].kind = "done" /\ log[r][i].epoch > 0 =>
       row[r].status = "SUCCEEDED" /\ row[r].result = log[r][i].epoch

\* What the bridge heard is in the log, and what it tells was heard.
Answers(r) ==
  /\ heard[r].answer > 0 => /\ row[r].status = "SUCCEEDED"
                            /\ row[r].result = heard[r].answer
  /\ heard[r].text \/ job[r] \in {"answering", "answered"} \/ "answer" \in told[r]
       => row[r].epoch > 0

\* What the message's row says, by the place the job is at.
Told(r) ==
  /\ message[r] = "new" => told[r] = {} /\ job[r] = "none"
  /\ job[r] \notin {"none", "apologizing"} => message[r] = "processing"
  /\ job[r] = "apologizing" => message[r] = "failed"
  /\ message[r] = "replied" \/ job[r] = "answered" => "answer" \in told[r]
  /\ "failure" \in told[r] => message[r] = "failed" /\ job[r] = "none"
  /\ faults = 0 => /\ job[r] \notin {"none", "answered"} => "answer" \notin told[r]
                   /\ told[r] # {"answer", "failure"}

BInv == /\ IInv /\ BTypeOK
        /\ \A r \in Runs : /\ Requested(r) /\ Materialized(r)
                           /\ LogTells(r) /\ Answers(r) /\ Told(r)

-----------------------------------------------------------------------------
(* Whatever the bridge, its worker and the other clients do to the table   *)
(* is a step of the table.                                                 *)
LEMMA BridgeTable == ASSUME [BNext]_bvars PROVE [Next]_vars
<1>prepare. ASSUME NEW r \in Runs, PrepareRun(r) PROVE Next
  BY <1>prepare DEF PrepareRun, Next
<1>1. ASSUME NEW r \in Runs, JobStep(r) PROVE [Next]_vars
  BY <1>1, <1>prepare
  DEF JobStep, Prepare, Stage, CopyToWorker, SendFinalize, FinalizeAnswered, OpenStream,
      Answer, FinishReplied, FinishFailed, Apologize, worker, vars
<1>2. ASSUME NEW r \in Runs,
             OnMessage(r) \/ Fetch(r) \/ Check(r) \/ StreamTimesOut(r) \/ StreamBreaks(r)
      PROVE  UNCHANGED vars
  BY <1>2 DEF OnMessage, Fetch, Check, StreamTimesOut, StreamBreaks, worker, vars
<1>3. BridgeCrash => UNCHANGED vars
  BY DEF BridgeCrash, worker, vars
<1>4. ASSUME NEW r \in Runs, HandlerStep(r) \/ HandlerDies(r) PROVE [Next]_vars
  BY <1>4 DEF HandlerStep, HandleInputs, Queue, HandlerDies, Next, vars
<1>5. ASSUME NEW r \in Runs, ClientPrepare(r) \/ ClientFinalize(r) \/ ClientRetry(r)
      PROVE  [Next]_vars
  BY <1>5, <1>prepare DEF ClientPrepare, ClientFinalize, ClientRetry, vars
<1>6. Execution => Next
  BY DEF Execution, Next
<1> QED BY <1>1, <1>2, <1>3, <1>4, <1>5, <1>6 DEF BNext, bvars, vars

(* A row that was inserted stays, epochs only grow, and results stay.      *)
LEMMA RowsGoOn ==
  ASSUME IInv, [Next]_vars, NEW r \in Runs
  PROVE  /\ row[r].epoch \in Nat /\ row'[r].epoch \in Nat
         /\ row'[r].epoch >= row[r].epoch
         /\ row[r].status # "ABSENT" => row'[r].status # "ABSENT"
         /\ row[r].status \in Terminal => row'[r] = row[r]
<1>1. RowStep(row[r], row'[r])
  BY StepRows
<1>2. row[r] \in Row /\ row'[r] \in Row
  BY StepType DEF IInv, TypeOK
<1>3. row[r].epoch \in Nat /\ row'[r].epoch \in Nat
  BY <1>2 DEF Row
<1>4. row'[r].epoch >= row[r].epoch
  BY <1>1, <1>3 DEF RowStep, Seen, Contract!Move, Contract!Submit, Contract!Attempt,
     Contract!GiveUp, Contract!AskCancel, Contract!Drop, Contract!Complete
<1>5. row[r].status # "ABSENT" => row'[r].status # "ABSENT"
  <2>1. row[r].status # "ABSENT" => Seen(row[r]).phase # "absent"
    BY DEF Seen, Phase, Active
  <2>2. Seen(row[r]).phase # "absent" => Seen(row'[r]).phase # "absent"
    BY <1>1 DEF RowStep, Contract!Move, Contract!Submit, Contract!Attempt,
       Contract!GiveUp, Contract!AskCancel, Contract!Drop, Contract!Complete
  <2>3. row'[r].status = "ABSENT" => Seen(row'[r]).phase = "absent"
    BY DEF Seen, Phase, Active
  <2> QED BY <2>1, <2>2, <2>3
<1> QED BY <1>1, <1>3, <1>4, <1>5 DEF RowStep

-----------------------------------------------------------------------------
(* Steps that are not of a run's job leave what the bridge keeps.          *)

\* The steps of one message's job that may change its row or its answer.
JobActions(r) == \/ Prepare(r) \/ Stage(r) \/ CopyToWorker(r) \/ SendFinalize(r)
                 \/ FinalizeAnswered(r) \/ OpenStream(r) \/ Fetch(r) \/ Check(r)
                 \/ StreamTimesOut(r) \/ StreamBreaks(r)

(* Between the claim and the reply only the job moves: on, or to failure;  *)
(* it comes to a reply only with something that was heard.                 *)
LEMMA JobMoves ==
  ASSUME NEW r \in Runs, job \in [Runs -> Jobs], JobActions(r)
  PROVE  /\ UNCHANGED <<message, media, told>>
         /\ job' \in [Runs -> Jobs]
         /\ \A q \in Runs \ {r} : job'[q] = job[q]
         /\ \/ job'[r] = job[r]
            \/ /\ job[r] \notin {"none", "answering", "answered", "failing", "apologizing"}
               /\ job'[r] \in {"prepared", "staged", "copied", "finalize", "ready",
                               "following", "answering", "failing"}
               /\ job'[r] = "answering" => heard[r].answer > 0 \/ heard[r].text
         /\ UNCHANGED faults \/ (faults < MaxFaults /\ faults' = faults + 1)
         /\ UNCHANGED crashed
<1>0. {"prepared", "staged", "copied", "finalize", "ready", "following", "answering",
       "failing"} \subseteq Jobs
  BY DEF Jobs
<1>1. CASE Prepare(r)
  BY <1>0, <1>1 DEF Prepare, Advance, Calm, Fault
<1>2. CASE Stage(r)
  BY <1>0, <1>2 DEF Stage, Advance, Calm, Fault
<1>3. CASE CopyToWorker(r)
  BY <1>0, <1>3 DEF CopyToWorker, Advance, Calm, Fault
<1>4. CASE SendFinalize(r)
  BY <1>0, <1>4 DEF SendFinalize, Advance, Calm
<1>5. CASE FinalizeAnswered(r)
  BY <1>0, <1>5 DEF FinalizeAnswered, Advance, Calm, Fault
<1>6. CASE OpenStream(r)
  BY <1>0, <1>6 DEF OpenStream, Advance, Calm, Fault
<1>7. CASE Fetch(r)
  BY <1>0, <1>7 DEF Fetch, Calm
<1>over. ASSUME Over(r)
         PROVE  /\ job[r] = "following"
                /\ job' = [job EXCEPT ![r] = "answering"] \/ job' = [job EXCEPT ![r] = "failing"]
                /\ job'[r] = "answering" => heard[r].answer > 0 \/ heard[r].text
  BY <1>over DEF Over, Advance
<1>8. CASE Check(r)
  BY <1>0, <1>8, <1>over DEF Check, Calm
<1>9. CASE StreamTimesOut(r)
  BY <1>0, <1>9, <1>over DEF StreamTimesOut, Calm
<1>10. CASE StreamBreaks(r)
  BY <1>0, <1>10, <1>over DEF StreamBreaks, Advance, Fault
<1> QED
  BY <1>1, <1>2, <1>3, <1>4, <1>5, <1>6, <1>7, <1>8, <1>9, <1>10 DEF JobActions

(* The steps of the worker, of its other clients and of its executors.     *)
Elsewhere == \/ \E r \in Runs : HandlerStep(r) /\ UNCHANGED bridge
             \/ \E r \in Runs : HandlerDies(r) /\ Fault
                                /\ UNCHANGED <<message, media, job, stream, heard, told>>
             \/ \E r \in Runs : ClientPrepare(r) \/ ClientFinalize(r) \/ ClientRetry(r)
             \/ Execution

(* They leave what the bridge keeps.                                       *)
LEMMA ElsewhereKeeps ==
  ASSUME Elsewhere
  PROVE  /\ UNCHANGED <<message, media, job, stream, heard, told, crashed>>
         /\ UNCHANGED faults \/ (faults < MaxFaults /\ faults' = faults + 1)
<1>1. UNCHANGED bridge => /\ UNCHANGED <<message, media, job, stream, heard, told, crashed>>
                          /\ UNCHANGED faults
  BY DEF bridge
<1>2. Fault => (faults < MaxFaults /\ faults' = faults + 1) /\ UNCHANGED crashed
  BY DEF Fault
<1> QED BY <1>1, <1>2 DEF Elsewhere, ClientPrepare, ClientFinalize, ClientRetry, Execution

(* The steps of the bridge, by what they do to the job.                    *)
LEMMA BridgeSteps ==
  ASSUME [BNext]_bvars
  PROVE  \/ \E r \in Runs : \/ OnMessage(r) \/ JobActions(r) \/ Answer(r)
                            \/ FinishReplied(r) \/ FinishFailed(r) \/ Apologize(r)
         \/ BridgeCrash \/ Elsewhere \/ UNCHANGED bvars
BY DEF BNext, JobStep, JobActions, Elsewhere

(* The table of messages and the user, through every step of a job.        *)
LEMMA ToldStays ==
  ASSUME BTypeOK, \A r \in Runs : Told(r), [BNext]_bvars
  PROVE  \A r \in Runs : Told(r)'
<1>type. /\ message \in [Runs -> Final \cup {"new", "processing"}] /\ job \in [Runs -> Jobs]
         /\ told \in [Runs -> SUBSET {"answer", "failure"}] /\ faults \in Nat
  BY BridgeAssumption DEF BTypeOK
<1>fault. Fault => faults' # 0
  BY <1>type DEF Fault
<1> SUFFICES ASSUME NEW q \in Runs PROVE Told(q)'
  OBVIOUS
<1>told. Told(q)
  OBVIOUS
<1>same. ASSUME UNCHANGED <<message[q], job[q], told[q]>>, faults' = 0 => faults = 0
         PROVE  Told(q)'
  BY <1>same, <1>told DEF Told
<1>1. ASSUME NEW r \in Runs, OnMessage(r) PROVE Told(q)'
  <2>1. CASE r = q
    BY <1>1, <2>1, <1>type, <1>told DEF OnMessage, Mark, Told, Calm
  <2>2. CASE r # q
    BY <1>1, <2>2, <1>type, <1>same DEF OnMessage, Mark, Calm
  <2> QED BY <2>1, <2>2
<1>2. ASSUME NEW r \in Runs, JobActions(r) PROVE Told(q)'
  <2>1. /\ UNCHANGED <<message, told>> /\ (faults' = 0 => faults = 0)
        /\ \A p \in Runs \ {r} : job'[p] = job[p]
        /\ \/ job'[r] = job[r]
           \/ /\ job[r] \notin {"none", "answering", "answered", "failing", "apologizing"}
              /\ job'[r] \in {"prepared", "staged", "copied", "finalize", "ready",
                              "following", "answering", "failing"}
    BY <1>2, <1>type, JobMoves
  <2>2. CASE r # q \/ job'[r] = job[r]
    BY <2>1, <2>2, <1>same
  <2>3. CASE r = q /\ job'[r] # job[r]
    BY <2>1, <2>3, <1>told DEF Told
  <2> QED BY <2>2, <2>3
<1>3. ASSUME NEW r \in Runs,
             Answer(r) \/ FinishReplied(r) \/ FinishFailed(r) \/ Apologize(r)
      PROVE  Told(q)'
  <2>f. faults' = 0 => faults = 0
    BY <1>3, <1>fault DEF Answer, FinishReplied, FinishFailed, Apologize, Calm
  <2>0. CASE r # q
    <3>1. UNCHANGED <<message[q], job[q], told[q]>>
      BY <1>3, <2>0, <1>type DEF Answer, FinishReplied, FinishFailed, Apologize,
         Advance, Tell, Mark
    <3> QED BY <2>f, <3>1, <1>same
  <2>1. CASE r = q /\ Answer(r)
    BY <2>1, <1>type, <1>told, <1>fault DEF Answer, Advance, Tell, Told, Calm
  <2>2. CASE r = q /\ FinishReplied(r)
    BY <2>2, <1>type, <1>told DEF FinishReplied, Advance, Mark, Told, Calm
  <2>3. CASE r = q /\ FinishFailed(r)
    BY <2>3, <1>type, <1>told DEF FinishFailed, Advance, Mark, Told, Calm
  <2>4. CASE r = q /\ Apologize(r)
    BY <2>4, <1>type, <1>told, <1>fault DEF Apologize, Advance, Tell, Told, Calm
  <2> QED BY <1>3, <2>0, <2>1, <2>2, <2>3, <2>4
<1>4. CASE BridgeCrash
  BY <1>4, <1>type, <1>told DEF BridgeCrash, Told
<1>5. CASE Elsewhere
  BY <1>5, <1>type, <1>same, ElsewhereKeeps
<1>6. CASE UNCHANGED bvars
  BY <1>6, <1>same DEF bvars
<1> QED BY <1>1, <1>2, <1>3, <1>4, <1>5, <1>6, BridgeSteps

-----------------------------------------------------------------------------
(* What logs tell                                                          *)

\* The event is true of a run with row w.
True(ev, w) == /\ ev.kind = "update" => w.epoch > 0
               /\ ev.kind = "done" /\ ev.epoch > 0 =>
                    w.status = "SUCCEEDED" /\ w.result = ev.epoch

(* A log grows by events that are true of the row then; what it told       *)
(* before stays true.                                                      *)
LEMMA LogExtends ==
  ASSUME IInv, [Next]_vars, NEW q \in Runs, LogTells(q), NEW es \in Seq(Event),
         log'[q] = log[q] \o es, \A i \in 1..Len(es) : True(es[i], row'[q])
  PROVE  LogTells(q)'
<1>1. log[q] \in Seq(Event)
  BY DEF IInv, TypeOK
<1>2. /\ row[q].epoch \in Nat /\ row'[q].epoch \in Nat /\ row'[q].epoch >= row[q].epoch
      /\ row[q].status \in Terminal => row'[q] = row[q]
  BY RowsGoOn
<1>3. \A i \in 1..Len(log[q]) : True(log[q][i], row'[q])
  BY <1>2 DEF LogTells, True, Terminal
<1>4. ASSUME NEW i \in 1..Len(log'[q]) PROVE True(log'[q][i], row'[q])
  <2>1. CASE i \in 1..Len(log[q])
    BY <1>1, <1>3, <2>1
  <2>2. CASE i \notin 1..Len(log[q])
    <3>1. i - Len(log[q]) \in 1..Len(es) /\ log'[q][i] = es[i - Len(log[q])]
      BY <1>1, <2>2
    <3> QED BY <3>1
  <2> QED BY <2>1, <2>2
<1> QED BY <1>4 DEF LogTells, True

(* Logs tell the truth through every step of the table.                    *)
LEMMA LogsTellTrue ==
  ASSUME IInv, [Next]_vars, \A r \in Runs : LogTells(r)
  PROVE  \A r \in Runs : LogTells(r)'
<1> SUFFICES ASSUME NEW q \in Runs PROVE LogTells(q)'
  OBVIOUS
<1>type. /\ row \in [Runs -> Row] /\ log \in [Runs -> Seq(Event)]
         /\ \A g \in grants : /\ g.run \in Runs /\ g.epoch \in Nat \ {0}
                              /\ row[g.run].epoch \in Nat /\ row[g.run].epoch > 0
  BY DEF IInv, TypeOK, Lease, LeasesNumbered, Row
<1>entry. /\ \A k \in Kinds, e \in Nat : Entry(k, e) \in Event
          /\ \A k, e : Entry(k, e).kind = k /\ Entry(k, e).epoch = e
  BY DEF Entry, Event
<1>kinds. {"preparing", "queued", "input.manifest", "status",
           "cancel.requested", "update", "done", "error"} = Kinds
  BY DEF Kinds
<1>same. ASSUME log'[q] = log[q] PROVE LogTells(q)'
  <2> DEFINE none == <<>>
  <2>1. /\ none \in Seq(Event) /\ \A i \in 1..Len(none) : True(none[i], row'[q])
        /\ log'[q] = log[q] \o none
    BY <1>same, <1>type
  <2> HIDE DEF none
  <2> QED BY <2>1, LogExtends
<1>commit. ASSUME NEW r \in Runs, NEW new, NEW es \in Seq(Event), Commit(r, new, es),
                  \A i \in 1..Len(es) : True(es[i], new)
           PROVE  LogTells(q)'
  <2>1. row'[r] = new /\ log'[r] = log[r] \o es /\ \A p \in Runs \ {r} : log'[p] = log[p]
    BY <1>commit, <1>type DEF Commit
  <2>2. CASE q = r
    BY <2>1, <2>2, <1>commit, LogExtends
  <2>3. CASE q # r
    BY <2>1, <2>3, <1>same
  <2> QED BY <2>2, <2>3
<1>plain. ASSUME NEW r \in Runs, NEW new, NEW k \in Kinds \ {"update"}, NEW e \in Nat,
                 Commit(r, new, <<Entry(k, e)>>),
                 k # "done" \/ e = 0 \/ (new.status = "SUCCEEDED" /\ new.result = e)
          PROVE  LogTells(q)'
  <2>1. <<Entry(k, e)>> \in Seq(Event) /\ Len(<<Entry(k, e)>>) = 1
        /\ <<Entry(k, e)>>[1] = Entry(k, e)
    BY <1>entry
  <2>2. True(Entry(k, e), new)
    BY <1>plain, <1>entry DEF True
  <2>3. \A i \in 1..Len(<<Entry(k, e)>>) : True(<<Entry(k, e)>>[i], new)
    BY <2>1, <2>2
  <2> QED BY <1>plain, <2>1, <2>3, <1>commit
<1>1. ASSUME NEW r \in Runs, CreateRun(r) PROVE LogTells(q)'
  BY <1>1, <1>kinds, <1>plain DEF CreateRun
<1>2. ASSUME NEW r \in Runs, FinalizeInputManifest(r) PROVE LogTells(q)'
  <2> DEFINE es == <<Entry("input.manifest", 0), Entry("queued", 0)>>
  <2>1. es \in Seq(Event) /\ \A new : \A i \in 1..Len(es) : True(es[i], new)
    <3>1. Entry("input.manifest", 0) \in Event /\ Entry("queued", 0) \in Event
      BY <1>entry, <1>kinds
    <3>2. \A new : True(Entry("input.manifest", 0), new) /\ True(Entry("queued", 0), new)
      BY <1>entry DEF True
    <3> QED BY <3>1, <3>2
  <2>2. ASSUME NEW new, Commit(r, new, es) PROVE LogTells(q)'
    BY <2>1, <2>2, <1>commit
  <2> QED BY <1>2, <2>2, <1>kinds, <1>plain DEF FinalizeInputManifest
<1>cancel. ASSUME NEW r \in Runs, Cancel(r) PROVE LogTells(q)'
  BY <1>cancel, <1>kinds, <1>plain DEF Cancel
<1>3. ASSUME NEW r \in Runs, RequestCancel(r) PROVE LogTells(q)'
  BY <1>3, <1>cancel DEF RequestCancel
<1>4. ASSUME NEW s \in Sessions, CancelLatestActiveRun(s) PROVE LogTells(q)'
  BY <1>4, <1>cancel DEF CancelLatestActiveRun
<1>append. ASSUME NEW r \in Runs, NEW k \in Kinds, NEW e \in Nat,
                  log' = [log EXCEPT ![r] = Append(@, Entry(k, e))],
                  True(Entry(k, e), row'[r])
           PROVE  LogTells(q)'
  <2>1. <<Entry(k, e)>> \in Seq(Event) /\ Len(<<Entry(k, e)>>) = 1
        /\ <<Entry(k, e)>>[1] = Entry(k, e)
    BY <1>entry
  <2>2. log'[r] = log[r] \o <<Entry(k, e)>> /\ \A p \in Runs \ {r} : log'[p] = log[p]
    BY <1>append, <1>type, <2>1
  <2> DEFINE es == <<Entry(k, e)>>
  <2>4. \A i \in 1..Len(es) : True(es[i], row'[r])
    BY <2>1, <1>append
  <2>5. es \in Seq(Event) /\ log'[r] = log[r] \o es
    BY <2>1, <2>2
  <2> HIDE DEF es
  <2>3. CASE q = r
    BY <2>3, <2>4, <2>5, LogExtends
  <2> QED BY <2>2, <2>3, <1>same
<1>grant. ASSUME NEW table \in [Runs -> Row], NEW r \in Runs, NEW e, Grant(table, r, e)
          PROVE  LogTells(q)'
  <2>1. table[r].epoch + 1 \in Nat
    BY DEF Row
  <2>2. True(Entry("status", table[r].epoch + 1), row'[r])
    BY <1>entry DEF True
  <2> QED BY <1>grant, <2>1, <2>2, <1>kinds, <1>append DEF Grant
<1>5. ASSUME NEW r \in Runs, NEW e \in Executors, ClaimRun(r, e) PROVE LogTells(q)'
  BY <1>5, <1>type, <1>grant DEF ClaimRun
<1>6. ASSUME NEW e \in Executors, ClaimNextRun(e) PROVE LogTells(q)'
  <2> DEFINE swept == [r \in Runs |-> Sweep(row[r])]
  <2>1. swept \in [Runs -> Row]
    BY <1>type, SweepType
  <2>2. Claimable(swept) \subseteq Runs
    BY DEF Claimable
  <2>3. \A r \in Runs : Grant(swept, r, e) => LogTells(q)'
    BY <2>1, <1>grant
  <2> QED BY <1>6, <2>2, <2>3, <1>same DEF ClaimNextRun
<1>7. ASSUME NEW g \in grants, MarkRunning(g) PROVE LogTells(q)'
  BY <1>7, <1>type, <1>kinds, <1>plain DEF MarkRunning
<1>8. ASSUME NEW g \in grants, HeartbeatLease(g) PROVE LogTells(q)'
  BY <1>8, <1>same DEF HeartbeatLease
<1>9. ASSUME NEW g \in grants, NEW outcome \in Outcomes, FinishRun(g, outcome)
      PROVE  LogTells(q)'
  <2> DEFINE new == [row[g.run] EXCEPT !.status = outcome, !.deadline = "none",
                                       !.result = g.epoch]
             k == IF outcome = "SUCCEEDED" THEN "done" ELSE "error"
  <2>1. Commit(g.run, new, <<Entry(k, g.epoch)>>)
    BY <1>9 DEF FinishRun
  <2>2. k # "done" \/ (new.status = "SUCCEEDED" /\ new.result = g.epoch)
    BY <1>type DEF Row
  <2>3. k \in Kinds \ {"update"}
    BY <1>kinds
  <2> HIDE DEF new, k
  <2> QED BY <2>1, <2>2, <2>3, <1>type, <1>plain
<1>10. ASSUME NEW g \in grants, AppendEvent(g) PROVE LogTells(q)'
  <2>1. True(Entry("update", g.epoch), row'[g.run])
    BY <1>10, <1>type, <1>entry DEF AppendEvent, True
  <2> QED BY <1>10, <2>1, <1>type, <1>kinds, <1>append DEF AppendEvent
<1>11. ASSUME NEW r \in Runs, DeadlinePasses(r) PROVE LogTells(q)'
  BY <1>11, <1>same DEF DeadlinePasses
<1>12. UNCHANGED vars => LogTells(q)'
  BY <1>same DEF vars
<1> QED
  BY <1>1, <1>2, <1>3, <1>4, <1>5, <1>6, <1>7, <1>8, <1>9, <1>10, <1>11, <1>12 DEF Next

(* The epoch of an answer, and text, are taken from the log; a reply is    *)
(* begun with one of them.                                                 *)
LEMMA AnswersStay ==
  ASSUME IInv, BTypeOK, \A r \in Runs : LogTells(r) /\ Answers(r) /\ Told(r), [BNext]_bvars
  PROVE  \A r \in Runs : Answers(r)'
<1>type. /\ row \in [Runs -> Row] /\ log \in [Runs -> Seq(Event)]
         /\ job \in [Runs -> Jobs] /\ heard \in [Runs -> Heard]
         /\ told \in [Runs -> SUBSET {"answer", "failure"}]
  BY DEF BTypeOK, TypeOK
<1> SUFFICES ASSUME NEW q \in Runs PROVE Answers(q)'
  OBVIOUS
<1>rows. /\ row[q].epoch \in Nat /\ row'[q].epoch \in Nat /\ row'[q].epoch >= row[q].epoch
         /\ row[q].status \in Terminal => row'[q] = row[q]
  BY BridgeTable, RowsGoOn
<1>inv. /\ Answers(q) /\ LogTells(q) /\ RowOK(row[q]) /\ heard[q] \in Heard
        /\ heard[q].answer \in Nat /\ row[q].result \in Nat
  BY <1>type DEF IInv, Heard, Row
\* An answer that was heard is that of a run with an epoch.
<1>epoch. heard[q].answer > 0 => row[q].epoch > 0
  BY <1>inv DEF Answers, RowOK
<1>same. ASSUME heard'[q] = heard[q],
                job'[q] \in {"answering", "answered"} \/ "answer" \in told'[q] =>
                  \/ heard[q].text \/ heard[q].answer > 0
                  \/ job[q] \in {"answering", "answered"} \/ "answer" \in told[q]
         PROVE  Answers(q)'
  BY <1>same, <1>rows, <1>inv, <1>epoch DEF Answers, Terminal
<1>1. ASSUME NEW r \in Runs, OnMessage(r) PROVE Answers(q)'
  BY <1>1, <1>type, <1>same DEF OnMessage
<1>2. ASSUME NEW r \in Runs, Fetch(r) PROVE Answers(q)'
  <2>1. CASE r # q
    <3>1. heard'[q] = heard[q]
      BY <1>2, <2>1, <1>type DEF Fetch, HearUpTo
    <3> QED BY <1>2, <3>1, <1>same DEF Fetch
  <2>2. CASE r = q
    <3> DEFINE new == (heard[q].cursor + 1)..Len(log[q])
    <3>1. new \subseteq 1..Len(log[q])
      BY <1>type DEF Heard
    <3>2. /\ heard'[q].text => heard[q].text \/ \E i \in new : log[q][i].kind = "update"
          /\ \/ heard'[q].answer = heard[q].answer
             \/ \E i \in new : /\ log[q][i].kind = "done" /\ log[q][i].epoch > 0
                               /\ heard'[q].answer = log[q][i].epoch
      <4>0. HearUpTo(q, Len(log[q]))
        BY <1>2, <2>2 DEF Fetch
      <4>1. PICK text \in {heard[q].text, heard[q].text \/ \E i \in new : log[q][i].kind = "update"},
                 answer \in {heard[q].answer} \cup {log[q][i].epoch :
                   i \in {j \in new : log[q][j].kind = "done" /\ log[q][j].epoch > 0}} :
              heard' = [heard EXCEPT ![q] = [cursor |-> Len(log[q]), text |-> text,
                                             answer |-> answer]]
        BY <4>0, Zenon DEF HearUpTo
      <4>2. heard'[q].text = text /\ heard'[q].answer = answer
        BY <4>1, <1>type
      <4>3. text => heard[q].text \/ \E i \in new : log[q][i].kind = "update"
        BY <4>1
      <4>4. answer = heard[q].answer \/ \E i \in new :
              log[q][i].kind = "done" /\ log[q][i].epoch > 0 /\ answer = log[q][i].epoch
        BY <4>1
      <4> QED BY <4>2, <4>3, <4>4
    <3> HIDE DEF new
    <3>3. heard'[q].answer > 0 => row[q].status = "SUCCEEDED" /\ row[q].result = heard'[q].answer
      BY <3>1, <3>2, <1>inv DEF LogTells, Answers
    <3>4. heard'[q].text => row[q].epoch > 0
      BY <3>1, <3>2, <1>inv DEF LogTells, Answers
    <3>5. UNCHANGED <<row, job, told>>
      BY <1>2 DEF Fetch, worker
    <3> QED BY <3>3, <3>4, <3>5, <1>inv DEF Answers
  <2> QED BY <2>1, <2>2
<1>3. ASSUME NEW r \in Runs, JobActions(r), ~Fetch(r) PROVE Answers(q)'
  <2>1. UNCHANGED heard
    BY <1>3 DEF JobActions, Prepare, Stage, CopyToWorker, SendFinalize, FinalizeAnswered,
       OpenStream, Check, StreamTimesOut, StreamBreaks
  <2>2. /\ UNCHANGED told /\ \A p \in Runs \ {r} : job'[p] = job[p]
        /\ \/ job'[r] = job[r]
           \/ /\ job'[r] # "answered"
              /\ job'[r] = "answering" => heard[r].answer > 0 \/ heard[r].text
    BY <1>3, <1>type, JobMoves
  <2> QED BY <2>1, <2>2, <1>same
<1>4. ASSUME NEW r \in Runs,
             Answer(r) \/ FinishReplied(r) \/ FinishFailed(r) \/ Apologize(r)
      PROVE  Answers(q)'
  <2>1. UNCHANGED heard
    BY <1>4 DEF Answer, FinishReplied, FinishFailed, Apologize
  <2>2. /\ job'[q] \in {"answering", "answered"} => job[q] \in {"answering", "answered"}
        /\ "answer" \in told'[q] => "answer" \in told[q] \/ job[q] = "answering"
    BY <1>4, <1>type DEF Answer, FinishReplied, FinishFailed, Apologize, Advance, Tell
  <2> QED BY <2>1, <2>2, <1>same
<1>5. CASE BridgeCrash
  BY <1>5, <1>same DEF BridgeCrash
<1>6. CASE Elsewhere
  BY <1>6, <1>same, ElsewhereKeeps
<1>7. CASE UNCHANGED bvars
  BY <1>7, <1>same DEF bvars
<1> QED BY <1>1, <1>2, <1>3, <1>4, <1>5, <1>6, <1>7, BridgeSteps

-----------------------------------------------------------------------------
(* The inputs of a run                                                     *)

(* A leased or running row has had a lease.                                *)
LEMMA ActiveEpoch ==
  ASSUME IInv, NEW r \in Runs, row[r].status \in Active PROVE row[r].epoch > 0
<1>1. PICK g \in grants : g.run = r /\ Holds(g)
  BY DEF IInv, ActiveHeld
<1>2. 0 < g.epoch
  BY DEF IInv, LeasesNumbered
<1> QED BY <1>1, <1>2 DEF Holds

(* Nothing but the end of its preparation makes a run executable, and      *)
(* nothing but create_run inserts it.                                      *)
LEMMA ExecutionKeeps ==
  ASSUME IInv, Execution, NEW q \in Runs
  PROVE  /\ Executable(q)' => Executable(q)
         /\ row'[q].status = "ABSENT" => row[q].status = "ABSENT"
<1>type. /\ row \in [Runs -> Row] /\ row[q].epoch \in Nat
         /\ \A g \in grants : g.run \in Runs
  BY DEF IInv, TypeOK, Lease, Row
<1>absent. row'[q].status = "ABSENT" => row[q].status = "ABSENT"
  BY RowsGoOn, BridgeTable DEF BNext
<1>same. ASSUME row'[q] = row[q] \/ (row'[q].epoch = row[q].epoch /\ row'[q].status # "QUEUED")
         PROVE  Executable(q)' => Executable(q)
  BY <1>same DEF Executable
<1>other. ASSUME NEW r \in Runs, NEW new, row' = [row EXCEPT ![r] = new],
                 r = q => \/ new.epoch = row[q].epoch /\ new.status # "QUEUED"
                          \/ new = row[q]
          PROVE  Executable(q)' => Executable(q)
  <2>1. row'[q] = (IF q = r THEN new ELSE row[q])
    BY <1>other, <1>type
  <2> QED BY <2>1, <1>other, <1>same
<1>cancel. ASSUME NEW r \in Runs, Cancel(r) PROVE Executable(q)' => Executable(q)
  <2>1. row[r] \in Row
    BY <1>type
  <2>2. ASSUME row[r].status \in {"PREPARING", "QUEUED"},
               row' = [row EXCEPT ![r] = [row[r] EXCEPT !.status = "CANCELED", !.cancel = TRUE,
                                                        !.deadline = "none"]]
        PROVE  Executable(q)' => Executable(q)
    <3> DEFINE new == [row[r] EXCEPT !.status = "CANCELED", !.cancel = TRUE, !.deadline = "none"]
    <3>1. new.epoch = row[r].epoch /\ new.status # "QUEUED"
      BY <2>1 DEF Row
    <3> HIDE DEF new
    <3> QED BY <2>2, <3>1, <1>other DEF new
  <2>3. ASSUME row[r].status \in Active,
               row' = [row EXCEPT ![r] = [row[r] EXCEPT !.cancel = TRUE]]
        PROVE  Executable(q)' => Executable(q)
    <3> DEFINE new == [row[r] EXCEPT !.cancel = TRUE]
    <3>1. new.epoch = row[r].epoch /\ new.status # "QUEUED"
      BY <2>1, <2>3 DEF Row, Active
    <3> HIDE DEF new
    <3> QED BY <2>3, <3>1, <1>other DEF new
  <2> QED BY <1>cancel, <2>2, <2>3 DEF Cancel, Commit
<1>1. ASSUME NEW r \in Runs, RequestCancel(r) PROVE Executable(q)' => Executable(q)
  BY <1>1, <1>cancel DEF RequestCancel
<1>2. ASSUME NEW r \in Runs, DeadlinePasses(r) PROVE Executable(q)' => Executable(q)
  BY <1>2, <1>type DEF DeadlinePasses, Row, Executable
<1>3. ASSUME NEW s \in Sessions, CancelLatestActiveRun(s) PROVE Executable(q)' => Executable(q)
  BY <1>3, <1>cancel DEF CancelLatestActiveRun
<1>4. ASSUME NEW e \in Executors, ClaimNextRun(e) PROVE Executable(q)' => Executable(q)
  <2> DEFINE swept == [r \in Runs |-> Sweep(row[r])]
  <2>1. /\ swept \in [Runs -> Row] /\ swept[q].epoch = row[q].epoch
        /\ swept[q].status = "QUEUED" => Executable(q)
    <3>1. swept \in [Runs -> Row] /\ swept[q] = Sweep(row[q])
      BY <1>type, SweepType
    <3>2. Sweep(row[q]).epoch = row[q].epoch
      BY <1>type, SweepFields
    <3>3. Sweep(row[q]).status = "QUEUED" => row[q].status = "QUEUED" \/ row[q].status \in Active
      BY <1>type DEF Sweep, Row
    <3> QED BY <3>1, <3>2, <3>3, ActiveEpoch DEF Executable
  <2>2. Claimable(swept) \subseteq {r \in Runs : swept[r].status = "QUEUED"}
    BY DEF Claimable
  <2>3. ASSUME NEW r \in Claimable(swept), Grant(swept, r, e)
        PROVE  Executable(q)' => Executable(q)
    <3>1. row' = [swept EXCEPT ![r] = Leased(swept[r], e)]
      BY <2>3 DEF Grant
    <3>2. CASE r = q
      BY <2>1, <2>2, <3>2
    <3>3. CASE r # q
      <4>1. row'[q] = swept[q]
        BY <2>1, <2>2, <3>1, <3>3
      <4> QED BY <2>1, <4>1 DEF Executable
    <3> QED BY <3>2, <3>3
  <2>4. CASE row' = swept
    BY <2>1, <2>4 DEF Executable
  <2> HIDE DEF swept
  <2>5. (\E r \in Claimable(swept) : Grant(swept, r, e)) \/ row' = swept
    BY <1>4 DEF ClaimNextRun, swept
  <2> QED BY <2>3, <2>4, <2>5
<1>5. ASSUME NEW g \in grants, MarkRunning(g) \/ HeartbeatLease(g) \/ AppendEvent(g)
      PROVE  Executable(q)' => Executable(q)
  <2>0. g.run \in Runs /\ row[g.run] \in Row
    BY <1>type
  <2>1. CASE MarkRunning(g)
    <3> DEFINE new == [row[g.run] EXCEPT !.status = "RUNNING", !.deadline = "ahead"]
    <3>1. new.epoch = row[g.run].epoch /\ new.status # "QUEUED"
      BY <2>0 DEF Row
    <3>2. row' = [row EXCEPT ![g.run] = new]
      BY <2>1 DEF MarkRunning, Commit
    <3> HIDE DEF new
    <3> QED BY <2>0, <3>1, <3>2, <1>other
  <2>2. CASE HeartbeatLease(g)
    <3> DEFINE new == [row[g.run] EXCEPT !.deadline = "ahead"]
    <3>1. new.epoch = row[g.run].epoch /\ new.status # "QUEUED"
      BY <2>0, <2>2 DEF Row, HeartbeatLease
    <3>2. row' = [row EXCEPT ![g.run] = new]
      BY <2>2 DEF HeartbeatLease
    <3> HIDE DEF new
    <3> QED BY <2>0, <3>1, <3>2, <1>other
  <2>3. CASE AppendEvent(g)
    BY <2>3, <1>same DEF AppendEvent
  <2> QED BY <1>5, <2>1, <2>2, <2>3
<1>6. ASSUME NEW g \in grants, NEW outcome \in Outcomes, FinishRun(g, outcome)
      PROVE  Executable(q)' => Executable(q)
  BY <1>6, <1>type DEF FinishRun, Commit, Row, Executable, Outcomes
<1> QED BY <1>absent, <1>1, <1>2, <1>3, <1>4, <1>5, <1>6 DEF Execution

(* A step that leaves a run's inputs keeps what is said of them.           *)
LEMMA InputsFrame ==
  ASSUME NEW q \in Runs, Requested(q), Materialized(q),
         UNCHANGED <<names[q], inbox[q], recorded[q], call[q]>>,
         At(q, "none") \/ UNCHANGED <<message[q], media[q]>>,
         Executable(q)' => Executable(q),
         row'[q].status = "ABSENT" =>
           /\ row[q].status = "ABSENT"
           /\ job'[q] \in {"none", "submitted", "failing", "apologizing"},
         job'[q] \in {"submitted", "prepared", "staged", "copied"} => At(q, "none")
  PROVE  Requested(q)' /\ Materialized(q)'
<1>1. Requested(q)'
  BY DEF Requested, Announced, At
<1>2. Materialized(q)'
  BY DEF Materialized, NamesRecorded, At
<1> QED BY <1>1, <1>2

(* create_run for a preparation.                                           *)
LEMMA PrepareInserts ==
  ASSUME IInv, NEW r \in Runs, PrepareRun(r), NEW q \in Runs
  PROVE  /\ UNCHANGED inputs
         /\ row'[q].status # "ABSENT" \/ row'[q] = row[q]
         /\ Executable(q)' => Executable(q)
         /\ row[r].status = "ABSENT"
<1>1. row \in [Runs -> Row] /\ row[q].epoch \in Nat
  BY DEF IInv, TypeOK, Row
<1>2. UNCHANGED inputs /\ row[r].status = "ABSENT" /\ row'[r].status = "PREPARING"
  BY DEF PrepareRun, CreateRun
<1>3. CASE q = r
  <2>1. row'[r].epoch = 0
    BY <1>1 DEF PrepareRun, CreateRun, Commit, NewRow
  <2> QED BY <1>2, <1>3, <2>1 DEF Executable
<1>4. CASE q # r
  <2>1. row'[q] = row[q]
    BY <1>1, <1>4 DEF PrepareRun, CreateRun, Commit
  <2> QED BY <1>2, <2>1 DEF Executable
<1> QED BY <1>3, <1>4

(* The steps of the bridge.                                                *)
LEMMA BridgeInputs ==
  ASSUME IInv, BTypeOK, NEW q \in Runs, Requested(q), Materialized(q), Told(q),
         NEW r \in Runs,
         \/ OnMessage(r) \/ JobActions(r) \/ Answer(r)
         \/ FinishReplied(r) \/ FinishFailed(r) \/ Apologize(r)
  PROVE  Requested(q)' /\ Materialized(q)'
<1>type. /\ message \in [Runs -> Final \cup {"new", "processing"}]
         /\ job \in [Runs -> Jobs] /\ call \in [Runs -> Call]
         /\ inbox \in [Runs -> SUBSET Files] /\ media \in [Runs -> Messages \cup {<<>>}]
         /\ recorded \in [Runs -> SUBSET Digests]
  BY DEF BTypeOK, InputsOK
<1>inputs. UNCHANGED inputs => UNCHANGED <<names[q], inbox[q], recorded[q], call[q]>>
  BY DEF inputs
<1>worker. UNCHANGED worker => UNCHANGED inputs /\ UNCHANGED row
  BY DEF worker, inputs
\* Of the jobs without a row, and of those without a request.
<1>early. ASSUME UNCHANGED <<names[q], inbox[q], recorded[q], call[q], message[q], media[q]>>,
                 Executable(q)' => Executable(q),
                 row'[q].status # "ABSENT" \/ row'[q] = row[q],
                 \/ job'[q] = job[q]
                 \/ r = q /\ job'[q] \in {"failing", "apologizing", "none"}
                 \/ r = q /\ row'[q].status # "ABSENT" /\ At(q, "none")
                 \/ r = q /\ row'[q].status # "ABSENT"
                    /\ job'[q] \notin {"submitted", "prepared", "staged", "copied"}
          PROVE  Requested(q)' /\ Materialized(q)'
  <2>1. row'[q].status = "ABSENT" =>
          /\ row[q].status = "ABSENT"
          /\ job'[q] \in {"none", "submitted", "failing", "apologizing"}
    BY <1>early DEF Requested
  <2>2. job'[q] \in {"submitted", "prepared", "staged", "copied"} => At(q, "none")
    BY <1>early DEF Requested
  <2> QED BY <1>early, <2>1, <2>2, InputsFrame
<1>1. ASSUME OnMessage(r) PROVE Requested(q)' /\ Materialized(q)'
  <2>1. /\ UNCHANGED <<names[q], inbox[q], recorded[q], call[q], row>>
        /\ row[r].status = "ABSENT"
    BY <1>1, <1>inputs, <1>worker DEF OnMessage
  <2>2. CASE q = r
    <3>1. At(q, "none") /\ job'[q] \in {job[q], "submitted"}
      BY <1>1, <1>type, <2>1, <2>2 DEF OnMessage, Requested
    <3> QED BY <2>1, <2>2, <3>1, InputsFrame DEF Executable, Requested
  <2>3. CASE q # r
    <3>1. UNCHANGED <<message[q], media[q], job[q]>>
      BY <1>1, <1>type, <2>3 DEF OnMessage, Mark
    <3> QED BY <2>1, <3>1, <1>early DEF Executable
  <2> QED BY <2>2, <2>3
<1>2. ASSUME Prepare(r) PROVE Requested(q)' /\ Materialized(q)'
  <2>0. UNCHANGED <<message, media>> /\ \A p \in Runs \ {r} : job'[p] = job[p]
    BY <1>2, <1>type DEF Prepare, Advance
  <2>1. job[r] = "submitted" /\ job'[r] \in {"prepared", "failing"}
    BY <1>2, <1>type DEF Prepare, Advance
  <2>2. CASE PrepareRun(r)
    <3>1. /\ UNCHANGED inputs
          /\ row'[q].status # "ABSENT" \/ row'[q] = row[q]
          /\ Executable(q)' => Executable(q)
      BY <2>2, PrepareInserts
    <3>2. row'[r].status = "PREPARING"
      BY <2>2 DEF PrepareRun
    <3>3. r = q => At(q, "none")
      BY <2>1 DEF Requested
    <3> QED BY <2>0, <2>1, <3>1, <3>2, <3>3, <1>inputs, <1>early
  <2>3. CASE UNCHANGED worker /\ job'[r] = "failing"
    BY <2>0, <2>3, <1>inputs, <1>worker, <1>early DEF Executable
  <2> QED BY <1>2, <1>type, <2>2, <2>3 DEF Prepare, Advance
<1>3. ASSUME CopyToWorker(r) PROVE Requested(q)' /\ Materialized(q)'
  <2>0. /\ UNCHANGED <<row, names, recorded, call, message, media>>
        /\ \A p \in Runs \ {r} : job'[p] = job[p] /\ inbox'[p] = inbox[p]
        /\ job[r] = "staged" /\ job'[r] \in {"copied", "failing"}
    BY <1>3, <1>type DEF CopyToWorker, Advance
  <2>1. CASE q = r
    <3>1. At(q, "none") /\ recorded[q] = {} /\ row[q].status # "ABSENT"
      BY <2>0, <2>1 DEF Requested
    <3>2. Requested(q)'
      BY <2>0, <2>1, <3>1 DEF Requested, At
    <3>3. Materialized(q)'
      BY <2>0, <3>1 DEF Materialized, Executable, At, NamesRecorded
    <3> QED BY <3>2, <3>3
  <2>2. CASE q # r
    BY <2>0, <2>2, <1>early DEF Executable
  <2> QED BY <2>1, <2>2
<1>4. ASSUME SendFinalize(r) PROVE Requested(q)' /\ Materialized(q)'
  <2>0. /\ UNCHANGED <<row, names, recorded, inbox, message, media>>
        /\ \A p \in Runs \ {r} : job'[p] = job[p] /\ call'[p] = call[p]
        /\ job[r] = "copied" /\ job'[r] = "finalize"
        /\ call'[r].pc = "arrived" /\ call'[r].items = media[r] /\ call'[r].next = 1
    BY <1>4, <1>type DEF SendFinalize, Advance, Request
  <2>1. CASE q = r
    <3>1. /\ At(q, "none") /\ recorded[q] = {} /\ row[q].status # "ABSENT"
          /\ message[q] = "processing"
      BY <2>0, <2>1 DEF Requested, Told
    <3>2. Requested(q)'
      BY <2>0, <2>1, <3>1 DEF Requested, Announced, At
    <3>3. ~Executable(q)
      BY <3>1 DEF Materialized, At
    <3>4. Materialized(q)'
      BY <2>0, <2>1, <3>1, <3>3 DEF Materialized, Executable, At
    <3> QED BY <3>2, <3>4
  <2>2. CASE q # r
    BY <2>0, <2>2, <1>early DEF Executable
  <2> QED BY <2>1, <2>2
<1>5. ASSUME JobActions(r), ~Prepare(r), ~CopyToWorker(r), ~SendFinalize(r)
      PROVE  Requested(q)' /\ Materialized(q)'
  <2>1. UNCHANGED worker
    BY <1>5 DEF JobActions, Stage, FinalizeAnswered, OpenStream, Fetch, Check,
       StreamTimesOut, StreamBreaks
  <2>2. /\ UNCHANGED <<message, media>> /\ \A p \in Runs \ {r} : job'[p] = job[p]
        /\ \/ job'[r] = job[r]
           \/ job[r] \notin {"none", "answering", "answered", "failing", "apologizing"}
    BY <1>5, <1>type, JobMoves
  <2>3. \/ job'[r] = job[r] \/ job[r] = "prepared"
        \/ /\ job[r] # "submitted"
           /\ job'[r] \notin {"submitted", "prepared", "staged", "copied"}
    BY <1>5, <1>type DEF JobActions, Stage, FinalizeAnswered, OpenStream, Fetch, Check,
       StreamTimesOut, StreamBreaks, Over, Advance
  <2>4. r = q /\ job'[r] # job[r] => /\ row[q].status # "ABSENT"
                                     /\ job[r] = "prepared" => At(q, "none")
    BY <2>2, <2>3 DEF Requested
  <2>5. UNCHANGED row /\ UNCHANGED <<names[q], inbox[q], recorded[q], call[q]>>
    BY <2>1, <1>worker, <1>inputs
  <2>6. Executable(q)' => Executable(q)
    BY <2>5 DEF Executable
  <2> QED BY <2>2, <2>3, <2>4, <2>5, <2>6, <1>early
<1>6. ASSUME Answer(r) \/ FinishReplied(r) \/ FinishFailed(r) \/ Apologize(r)
      PROVE  Requested(q)' /\ Materialized(q)'
  <2>1. UNCHANGED worker /\ UNCHANGED media
    BY <1>6 DEF Answer, FinishReplied, FinishFailed, Apologize
  <2>2. /\ \A p \in Runs \ {r} : job'[p] = job[p] /\ message'[p] = message[p]
        /\ \/ job'[r] = "answered" /\ job[r] = "answering"
           \/ job'[r] \in {"failing", "apologizing", "none"}
        /\ job[r] \notin {"none", "submitted", "prepared", "staged", "copied"}
    BY <1>6, <1>type DEF Answer, FinishReplied, FinishFailed, Apologize, Advance, Mark
  <2>3. UNCHANGED row /\ UNCHANGED <<names[q], inbox[q], recorded[q], call[q]>>
    BY <2>1, <1>worker, <1>inputs
  <2>4. Executable(q)' => Executable(q)
    BY <2>3 DEF Executable
  <2>5. CASE q # r
    BY <2>1, <2>2, <2>3, <2>4, <2>5, <1>early
  <2>6. CASE q = r
    <3>1. message'[q] = message[q] \/ (message[q] # "new" /\ message'[q] # "new")
      BY <1>6, <1>type, <2>2, <2>6 DEF Answer, FinishReplied, FinishFailed, Apologize,
         Mark, Told, Advance
    <3>2. Announced(q)' = Announced(q)
      BY <2>1, <3>1 DEF Announced
    <3>3. Requested(q)'
      BY <2>2, <2>3, <2>6, <3>2 DEF Requested, At
    <3>4. Materialized(q)'
      BY <2>3, <2>4 DEF Materialized, NamesRecorded, At
    <3> QED BY <3>3, <3>4
  <2> QED BY <2>5, <2>6
<1> QED BY <1>1, <1>2, <1>3, <1>4, <1>5, <1>6

(* The steps of the finalize handler.                                      *)
LEMMA HandlerInputs ==
  ASSUME IInv, InputsOK, NEW q \in Runs, Requested(q), Materialized(q), NEW r \in Runs,
         HandlerStep(r) \/ HandlerDies(r),
         UNCHANGED <<message, media, job>>
  PROVE  Requested(q)' /\ Materialized(q)'
<1>type. /\ row \in [Runs -> Row] /\ call \in [Runs -> Call]
         /\ names \in [Runs -> SUBSET Files] /\ inbox \in [Runs -> SUBSET Files]
         /\ recorded \in [Runs -> SUBSET Digests]
  BY DEF InputsOK, IInv, TypeOK
<1>frame. ASSUME UNCHANGED <<names[q], inbox[q], recorded[q], call[q], row[q]>>
          PROVE  Requested(q)' /\ Materialized(q)'
  BY <1>frame, InputsFrame DEF Requested, Executable
<1>call. /\ call[r].items \in Seq(Digests) /\ call[r].next \in Nat /\ call[r] \in Call
         /\ DOMAIN call[r].items = 1..Len(call[r].items)
  BY <1>type DEF Call
\* The request and the row's status stay; only the handler's run is looked at.
<1>other. ASSUME q # r PROVE Requested(q)' /\ Materialized(q)'
  <2>1. /\ names'[q] = names[q] /\ inbox'[q] = inbox[q] /\ recorded'[q] = recorded[q]
        /\ call'[q] = call[q]
    BY <1>other, <1>type DEF HandlerStep, HandleInputs, Admit, UpdateMessage, SetMessage,
       CopyInput, CopiedAll, UpdatePaths, Queue, HandlerDies, Refuse, GoOn
  <2>2. row'[q] = row[q]
    BY <1>other, <1>type DEF HandlerStep, HandleInputs, Queue, HandlerDies,
       FinalizeInputManifest, Commit
  <2> QED BY <2>1, <2>2, <1>frame
\* The handler only goes to another place.
<1>goes. ASSUME q = r, NEW pc \in CallPlaces \ {"none"}, GoOn(r, pc), ~At(r, "none"),
                UNCHANGED <<recorded, inbox>>, Executable(q)' => Executable(q),
                row'[q].status # "ABSENT" \/ row'[q].status = row[q].status,
                UNCHANGED names \/ ~Executable(q),
                pc \in {"accepted", "refused"} \/ ~Executable(q),
                pc = "message" => call[q].next = 1,
                pc = "copying" => call[q].next = 1,
                pc = "paths" => recorded[q] = Contents(call[q].items),
                pc = "queueing" => names'[q] = {Manifest(d) : d \in recorded[q]}
                                   /\ recorded[q] = Contents(call[q].items),
                pc # "arrived"
         PROVE  Requested(q)' /\ Materialized(q)'
  <2>1. /\ call'[q].pc = pc /\ call'[q].items = call[q].items /\ call'[q].next = call[q].next
        /\ recorded'[q] = recorded[q] /\ inbox'[q] = inbox[q]
    BY <1>goes, <1>type DEF GoOn, Call
  <2>2. Requested(q)'
    BY <2>1, <1>goes DEF Requested, At, Announced
  <2>3. Materialized(q)'
    <3>1. Executable(q)' => NamesRecorded(q)'
      BY <2>1, <1>goes DEF Materialized, NamesRecorded
    <3>2. At(q, "copying")' => \A j \in DOMAIN call[q].items : ~(j < call[q].next)
      BY <2>1, <1>call, <1>goes DEF At
    <3> QED BY <2>1, <3>1, <3>2, <1>goes DEF Materialized, NamesRecorded, At
  <2> QED BY <2>2, <2>3
<1>places. {"message", "copying", "paths", "queueing", "accepted", "refused"} \subseteq CallPlaces
  BY DEF CallPlaces
<1>idle. UNCHANGED row => (Executable(q)' => Executable(q))
  BY DEF Executable
<1>refuse. ASSUME q = r, Refuse(r), ~At(r, "none"), UNCHANGED row
           PROVE  Requested(q)' /\ Materialized(q)'
  BY <1>refuse, <1>goes, <1>places, <1>idle DEF Refuse
<1>1. ASSUME q = r, Admit(r), UNCHANGED row PROVE Requested(q)' /\ Materialized(q)'
  <2>1. PICK pc \in {"accepted", "message", "refused"} :
          GoOn(r, pc) /\ (pc = "message" => row[r].status = "PREPARING")
    <3>1. CASE row[r].status = "QUEUED"
      BY <1>1, <3>1, Zenon DEF Admit
    <3> DEFINE found == row[r].status = "PREPARING"
                        /\ (call[r].located \/ call[r].items = <<>>)
    <3>2. CASE row[r].status # "QUEUED" /\ found
      BY <1>1, <3>2, Zenon DEF Admit
    <3>3. CASE row[r].status # "QUEUED" /\ ~found
      BY <1>1, <3>3, Zenon DEF Admit
    <3> QED BY <3>1, <3>2, <3>3
  <2>2. pc = "message" => call[q].next = 1 /\ ~Executable(q)
    <3>1. row[r].status = "PREPARING" => row[r].epoch = 0
      BY DEF IInv, RowOK
    <3> QED BY <1>1, <2>1, <3>1 DEF Admit, Materialized, Executable, At
  <2> QED BY <1>1, <2>1, <2>2, <1>goes, <1>idle, <1>places DEF Admit, At
<1>2. ASSUME q = r, UpdateMessage(r), UNCHANGED row PROVE Requested(q)' /\ Materialized(q)'
  <2>1. ~Executable(q) /\ call[q].next = 1 /\ ~At(r, "none")
    BY <1>2 DEF UpdateMessage, Materialized, At
  <2> QED BY <1>2, <2>1, <1>goes, <1>idle, <1>places, <1>refuse DEF UpdateMessage, SetMessage
<1>3. ASSUME q = r, CopyInput(r), UNCHANGED row PROVE Requested(q)' /\ Materialized(q)'
  <2> DEFINE i == call[r].next
             d == call[r].items[i]
  <2>0. At(r, "copying") /\ i \in DOMAIN call[r].items /\ ~At(r, "none")
    BY <1>3 DEF CopyInput, At
  <2>1. /\ ~Executable(q) /\ recorded[q] \subseteq Contents(call[q].items)
        /\ \A e \in recorded[q] : Manifest(e) \in inbox[q]
        /\ \A j \in DOMAIN call[q].items : j < i => call[q].items[j] \in recorded[q]
    BY <1>3, <2>0 DEF Materialized, At
  <2>copied. ASSUME call' = [call EXCEPT ![r].next = @ + 1],
                    recorded[q] \subseteq recorded'[q],
                    recorded'[q] \subseteq Contents(call[q].items), d \in recorded'[q],
                    \A e \in recorded'[q] : Manifest(e) \in inbox'[q]
             PROVE  Requested(q)' /\ Materialized(q)'
    <3>1. /\ call'[q].pc = "copying" /\ call'[q].items = call[q].items
          /\ call'[q].next = call[q].next + 1
      BY <2>copied, <1>3, <1>type, <2>0 DEF Call, At
    <3>2. Requested(q)'
      BY <3>1, <1>3, <2>0 DEF Requested, At, Announced
    <3>3. \A j \in DOMAIN call'[q].items : j < call'[q].next => call'[q].items[j] \in recorded'[q]
      <4> TAKE j \in DOMAIN call'[q].items
      <4>1. j \in Nat /\ i \in Nat /\ (j < i + 1 => j < i \/ j = i)
        BY <3>1, <1>call, <1>3
      <4> QED BY <4>1, <3>1, <2>1, <2>copied, <1>3
    <3>4. ~Executable(q)'
      BY <2>1, <1>3 DEF Executable
    <3> QED BY <3>1, <3>2, <3>3, <3>4, <2>copied DEF Materialized, At
  <2>2. CASE ItemSeen(r, i)
    <3>1. call' = [call EXCEPT ![r].next = @ + 1] /\ UNCHANGED <<names, inbox, recorded>>
      BY <1>3, <2>2 DEF CopyInput
    <3>2. d \in recorded[q]
      <4>1. PICK j \in 1..(i - 1) : call[r].items[j] = d
        BY <2>2 DEF ItemSeen
      <4>2. j \in DOMAIN call[q].items /\ j < i
        BY <4>1, <2>0, <1>call, <1>3
      <4> QED BY <4>1, <4>2, <2>1, <1>3
    <3> QED BY <3>1, <3>2, <2>1, <2>copied
  <2>3. CASE ~ItemSeen(r, i) /\ Ingress(i) \in inbox[r]
    <3>1. /\ call' = [call EXCEPT ![r].next = @ + 1]
          /\ inbox'[q] = (inbox[q] \ {Ingress(i)}) \cup {Manifest(d)}
          /\ recorded'[q] = recorded[q] \cup {d}
      BY <1>3, <1>type, <2>3 DEF CopyInput
    <3>2. d \in Contents(call[q].items)
      BY <2>0, <1>3 DEF Contents
    <3>3. \A e : Manifest(e) # Ingress(i)
      BY DEF Manifest, Ingress
    <3> QED BY <3>1, <3>2, <3>3, <2>1, <2>copied
  <2>4. CASE ~ItemSeen(r, i) /\ Ingress(i) \notin inbox[r]
    BY <1>3, <2>0, <2>4, <1>refuse DEF CopyInput
  <2> QED BY <2>2, <2>3, <2>4
<1>4. ASSUME q = r, CopiedAll(r), UNCHANGED row PROVE Requested(q)' /\ Materialized(q)'
  <2>1. /\ ~Executable(q) /\ ~At(r, "none")
        /\ recorded[q] \subseteq Contents(call[q].items)
        /\ \A j \in DOMAIN call[q].items : j < call[q].next => call[q].items[j] \in recorded[q]
    BY <1>4 DEF CopiedAll, Materialized, At
  <2>2. recorded[q] = Contents(call[q].items)
    <3>1. \A j \in DOMAIN call[q].items : j < call[q].next
      BY <1>4, <1>call DEF CopiedAll
    <3> QED BY <2>1, <3>1 DEF Contents
  <2> QED BY <1>4, <2>1, <2>2, <1>goes, <1>idle, <1>places DEF CopiedAll
<1>5. ASSUME q = r, UpdatePaths(r), UNCHANGED row PROVE Requested(q)' /\ Materialized(q)'
  <2>1. ~Executable(q) /\ recorded[q] = Contents(call[q].items) /\ ~At(r, "none")
    BY <1>5 DEF UpdatePaths, Materialized, At
  <2>2. CASE row[r].status = "PREPARING"
    <3>1. /\ names' = [names EXCEPT ![r] = {Manifest(d) : d \in Contents(call[r].items)}]
          /\ GoOn(r, "queueing") /\ UNCHANGED <<inbox, recorded>>
      BY <1>5, <2>2 DEF UpdatePaths, SetMessage
    <3>2. names'[q] = {Manifest(d) : d \in recorded[q]}
      BY <3>1, <2>1, <1>5, <1>type
    <3> QED BY <1>5, <3>1, <3>2, <2>1, <1>goes, <1>idle, <1>places
  <2>3. CASE row[r].status # "PREPARING"
    BY <1>5, <2>1, <2>3, <1>refuse DEF UpdatePaths, SetMessage
  <2> QED BY <2>2, <2>3
<1>6. ASSUME q = r, Queue(r) PROVE Requested(q)' /\ Materialized(q)'
  <2>1. At(q, "queueing") /\ ~At(q, "none") /\ NamesRecorded(q) /\ UNCHANGED <<names, inbox, recorded>>
    BY <1>6 DEF Queue, At, Materialized
  <2>2. CASE FinalizeInputManifest(r) /\ GoOn(r, "accepted")
    <3>1. /\ call'[q].pc = "accepted" /\ call'[q].items = call[q].items
          /\ call'[q].next = call[q].next
      BY <2>2, <1>6, <1>type DEF GoOn, Call
    <3>2. row[q].status # "ABSENT"
      BY <2>1 DEF Requested
    <3>3. Requested(q)'
      <4>1. row'[q].status # "ABSENT"
        <5>1. [Next]_vars
          BY <2>2 DEF Next
        <5> QED BY <5>1, <3>2, RowsGoOn
      <4> QED BY <2>1, <3>1, <4>1 DEF Requested, At, Announced
    <3>4. Materialized(q)'
      BY <2>1, <3>1 DEF Materialized, NamesRecorded, At
    <3> QED BY <3>3, <3>4
  <2>3. CASE GoOn(r, "refused") /\ UNCHANGED row
    BY <1>6, <2>1, <2>3, <1>goes, <1>idle, <1>places
  <2> QED BY <1>6, <2>2, <2>3 DEF Queue
<1>7. ASSUME q = r, HandlerDies(r) PROVE Requested(q)' /\ Materialized(q)'
  BY <1>7, <1>refuse DEF HandlerDies, Handling, At
<1> QED
  BY <1>other, <1>1, <1>2, <1>3, <1>4, <1>5, <1>6, <1>7 DEF HandlerStep, HandleInputs

(* The steps of the other clients.                                         *)
LEMMA ClientInputs ==
  ASSUME IInv, BTypeOK, NEW q \in Runs, Requested(q), Materialized(q), Told(q),
         NEW r \in Runs, ClientPrepare(r) \/ ClientFinalize(r) \/ ClientRetry(r)
  PROVE  Requested(q)' /\ Materialized(q)'
<1>type. /\ call \in [Runs -> Call] /\ inbox \in [Runs -> SUBSET Files]
  BY DEF BTypeOK, InputsOK
<1>bridge. UNCHANGED <<message, media, job>>
  BY DEF ClientPrepare, ClientFinalize, ClientRetry, bridge
<1>frame. ASSUME UNCHANGED <<names[q], inbox[q], recorded[q], call[q], row[q]>>
          PROVE  Requested(q)' /\ Materialized(q)'
  BY <1>frame, <1>bridge, InputsFrame DEF Requested, Executable
<1>1. ASSUME ClientPrepare(r) PROVE Requested(q)' /\ Materialized(q)'
  <2>1. /\ UNCHANGED <<names[q], inbox[q], recorded[q], call[q]>>
        /\ Executable(q)' => Executable(q)
        /\ row'[q].status # "ABSENT" \/ row'[q] = row[q]
    BY <1>1, PrepareInserts DEF ClientPrepare, inputs
  <2> QED BY <2>1, <1>bridge, InputsFrame DEF Requested
\* The request of the client: with its files, which it puts into the inbox once.
<1>request. ASSUME q = r, row'[q] = row[q], Request(r, Uploaded, TRUE), message[q] = "new",
                   row[q].status # "ABSENT",
                   \/ At(q, "none")
                   \/ inbox'[q] = inbox[q] /\ call[q].items = Uploaded
            PROVE  Requested(q)' /\ Materialized(q)'
  <2>1. /\ call'[q].pc = "arrived" /\ call'[q].items = Uploaded /\ call'[q].next = 1
        /\ names'[q] = names[q] /\ recorded'[q] = recorded[q]
    BY <1>request, <1>type DEF Request
  <2>2. job[q] = "none"
    BY <1>request DEF Told
  <2>3. Requested(q)'
    BY <2>1, <2>2, <1>bridge, <1>request DEF Requested, Announced, At
  <2>4. CASE At(q, "none")
    <3>1. ~Executable(q) /\ recorded[q] = {}
      BY <2>4 DEF Materialized, Requested, At
    <3>2. Materialized(q)'
      BY <2>1, <3>1, <1>request DEF Materialized, Executable, At
    <3> QED BY <2>3, <3>2
  <2>5. CASE inbox'[q] = inbox[q] /\ call[q].items = Uploaded
    <3>1. Materialized(q)'
      BY <2>1, <2>5, <1>request DEF Materialized, Executable, NamesRecorded, At
    <3> QED BY <2>3, <3>1
  <2> QED BY <2>4, <2>5, <1>request
<1>2. ASSUME ClientFinalize(r) PROVE Requested(q)' /\ Materialized(q)'
  <2>1. CASE q = r
    BY <1>2, <2>1, <1>request DEF ClientFinalize
  <2>2. CASE q # r
    BY <1>2, <1>type, <2>2, <1>frame DEF ClientFinalize, Request
  <2> QED BY <2>1, <2>2
<1>3. ASSUME ClientRetry(r) PROVE Requested(q)' /\ Materialized(q)'
  <2>1. CASE q = r
    <3>1. call[q].items = Uploaded /\ row[q].status # "ABSENT"
      BY <1>3, <2>1 DEF ClientRetry, Requested, Announced, At
    <3> QED BY <1>3, <2>1, <3>1, <1>request DEF ClientRetry
  <2>2. CASE q # r
    BY <1>3, <1>type, <2>2, <1>frame DEF ClientRetry, Request
  <2> QED BY <2>1, <2>2
<1> QED BY <1>1, <1>2, <1>3

(* The inputs of every run, through every step.                            *)
LEMMA InputsStay ==
  ASSUME BInv, [BNext]_bvars
  PROVE  \A r \in Runs : Requested(r)' /\ Materialized(r)'
<1> SUFFICES ASSUME NEW q \in Runs PROVE Requested(q)' /\ Materialized(q)'
  OBVIOUS
<1>inv. /\ IInv /\ BTypeOK /\ InputsOK /\ Requested(q) /\ Materialized(q) /\ Told(q)
  BY DEF BInv, BTypeOK
<1>frame. ASSUME UNCHANGED <<names, inbox, recorded, call, row, message, media>>,
                 job'[q] \in {job[q], "none"}
          PROVE  Requested(q)' /\ Materialized(q)'
  <2>1. Executable(q)' => Executable(q)
    BY <1>frame DEF Executable
  <2>2. /\ row'[q].status = "ABSENT" =>
             /\ row[q].status = "ABSENT"
             /\ job'[q] \in {"none", "submitted", "failing", "apologizing"}
        /\ job'[q] \in {"submitted", "prepared", "staged", "copied"} => At(q, "none")
    BY <1>frame, <1>inv DEF Requested
  <2> QED BY <1>frame, <1>inv, <2>1, <2>2, InputsFrame
<1>1. ASSUME NEW r \in Runs,
             \/ OnMessage(r) \/ JobActions(r) \/ Answer(r)
             \/ FinishReplied(r) \/ FinishFailed(r) \/ Apologize(r)
      PROVE  Requested(q)' /\ Materialized(q)'
  BY <1>1, <1>inv, BridgeInputs
<1>2. CASE BridgeCrash
  BY <1>2, <1>frame DEF BridgeCrash, worker
<1>3. CASE UNCHANGED bvars
  BY <1>3, <1>frame DEF bvars
<1>4. CASE Elsewhere
  <2>1. UNCHANGED <<message, media, job>>
    BY <1>4, ElsewhereKeeps
  <2>2. ASSUME NEW r \in Runs, HandlerStep(r) \/ HandlerDies(r)
        PROVE  Requested(q)' /\ Materialized(q)'
    BY <2>1, <2>2, <1>inv, HandlerInputs
  <2>3. ASSUME NEW r \in Runs, ClientPrepare(r) \/ ClientFinalize(r) \/ ClientRetry(r)
        PROVE  Requested(q)' /\ Materialized(q)'
    BY <2>3, <1>inv, ClientInputs
  <2>4. ASSUME Execution PROVE Requested(q)' /\ Materialized(q)'
    <3>1. UNCHANGED <<names, inbox, recorded, call>>
      BY <2>4 DEF Execution, inputs
    <3>2. /\ Executable(q)' => Executable(q)
          /\ row'[q].status = "ABSENT" => row[q].status = "ABSENT"
      BY <2>4, <1>inv, ExecutionKeeps
    <3> QED BY <2>1, <3>1, <3>2, <1>inv, InputsFrame DEF Requested
  <2> QED BY <1>4, <2>2, <2>3, <2>4 DEF Elsewhere
<1> QED BY <1>1, <1>2, <1>3, <1>4, BridgeSteps

-----------------------------------------------------------------------------
(* Types                                                                   *)

(* A request is a request, whatever place its handler goes to.             *)
LEMMA CallTypes ==
  ASSUME call \in [Runs -> Call], NEW r \in Runs
  PROVE  /\ \A pc \in CallPlaces : GoOn(r, pc) => call' \in [Runs -> Call]
         /\ call' = [call EXCEPT ![r].next = @ + 1] => call' \in [Runs -> Call]
         /\ \A items \in Seq(Digests), located \in BOOLEAN :
              Request(r, items, located) => call' \in [Runs -> Call]
<1>1. call[r] \in Call /\ "arrived" \in CallPlaces
  BY DEF CallPlaces
<1>2. ASSUME NEW pc \in CallPlaces, GoOn(r, pc) PROVE call' \in [Runs -> Call]
  <2>1. [call[r] EXCEPT !.pc = pc] \in Call
    BY <1>1 DEF Call
  <2> QED BY <1>2, <2>1 DEF GoOn
<1>3. ASSUME call' = [call EXCEPT ![r].next = @ + 1] PROVE call' \in [Runs -> Call]
  <2>1. [call[r] EXCEPT !.next = @ + 1] \in Call
    BY <1>1 DEF Call
  <2> QED BY <1>3, <2>1
<1>4. ASSUME NEW items \in Seq(Digests), NEW located \in BOOLEAN, Request(r, items, located)
      PROVE  call' \in [Runs -> Call]
  <2>1. [pc |-> "arrived", items |-> items, located |-> located, next |-> 1] \in Call
    BY <1>1 DEF Call
  <2> QED BY <1>4, <2>1 DEF Request
<1> QED BY <1>2, <1>3, <1>4

(* Files are files.                                                        *)
LEMMA FileTypes ==
  /\ \A i \in Nat : Ingress(i) \in Files
  /\ \A d \in Digests : Manifest(d) \in Files
  /\ \A items \in Seq(Digests) : /\ DOMAIN items = 1..Len(items)
                                 /\ {Ingress(i) : i \in DOMAIN items} \subseteq Files
                                 /\ Contents(items) \subseteq Digests
BY DEF Files, Ingress, Manifest, Contents

(* What the handler keeps is well typed.                                   *)
LEMMA HandlerTypes ==
  ASSUME InputsOK, NEW r \in Runs, HandlerStep(r) \/ HandlerDies(r)
  PROVE  InputsOK'
<1>type. /\ call \in [Runs -> Call]
         /\ names \in [Runs -> SUBSET Files] /\ inbox \in [Runs -> SUBSET Files]
         /\ recorded \in [Runs -> SUBSET Digests]
  BY DEF InputsOK
<1>call. /\ call[r].items \in Seq(Digests) /\ call[r].next \in Nat
  BY <1>type DEF Call
<1>places. {"message", "copying", "paths", "queueing", "accepted", "refused"} \subseteq CallPlaces
  BY DEF CallPlaces
<1>goes. ASSUME NEW pc \in CallPlaces, GoOn(r, pc), UNCHANGED <<inbox, recorded>>,
                names' \in [Runs -> SUBSET Files]
         PROVE  InputsOK'
  BY <1>goes, <1>type, CallTypes DEF InputsOK
<1>refuse. Refuse(r) => InputsOK'
  BY <1>goes, <1>type, <1>places DEF Refuse
<1>set. ASSUME NEW files \in SUBSET Files, NEW pc \in CallPlaces, SetMessage(r, files, pc)
        PROVE  InputsOK'
  BY <1>set, <1>goes, <1>refuse, <1>type DEF SetMessage
<1>1. ASSUME Admit(r) PROVE InputsOK'
  <2>1. PICK pc \in {"accepted", "message", "refused"} : GoOn(r, pc)
    <3>1. CASE row[r].status = "QUEUED"
      BY <1>1, <3>1, Zenon DEF Admit
    <3> DEFINE found == row[r].status = "PREPARING"
                        /\ (call[r].located \/ call[r].items = <<>>)
    <3>2. CASE row[r].status # "QUEUED" /\ found
      BY <1>1, <3>2, Zenon DEF Admit
    <3>3. CASE row[r].status # "QUEUED" /\ ~found
      BY <1>1, <3>3, Zenon DEF Admit
    <3> QED BY <3>1, <3>2, <3>3
  <2> QED BY <1>1, <2>1, <1>goes, <1>type, <1>places DEF Admit
<1>2. ASSUME UpdateMessage(r) PROVE InputsOK'
  BY <1>2, <1>call, <1>places, <1>set, FileTypes DEF UpdateMessage
<1>3. ASSUME CopyInput(r) PROVE InputsOK'
  <2> DEFINE i == call[r].next
             d == call[r].items[i]
  <2>1. d \in Digests /\ Manifest(d) \in Files
    BY <1>3, <1>call, FileTypes DEF CopyInput
  <2>2. CASE ItemSeen(r, i)
    BY <1>3, <2>2, <1>type, CallTypes DEF CopyInput, InputsOK
  <2>3. CASE ~ItemSeen(r, i) /\ Ingress(i) \in inbox[r]
    <3>1. /\ call' = [call EXCEPT ![r].next = @ + 1]
          /\ inbox' = [inbox EXCEPT ![r] = (inbox[r] \ {Ingress(i)}) \cup {Manifest(d)}]
          /\ recorded' = [recorded EXCEPT ![r] = recorded[r] \cup {d}]
          /\ names' = names
      BY <1>3, <2>3 DEF CopyInput
    <3>2. inbox' \in [Runs -> SUBSET Files] /\ recorded' \in [Runs -> SUBSET Digests]
      BY <3>1, <2>1, <1>type
    <3> QED BY <3>1, <3>2, <1>type, CallTypes DEF InputsOK
  <2>4. CASE ~ItemSeen(r, i) /\ Ingress(i) \notin inbox[r]
    BY <1>3, <2>4, <1>refuse DEF CopyInput
  <2> QED BY <2>2, <2>3, <2>4
<1>4. ASSUME CopiedAll(r) PROVE InputsOK'
  BY <1>4, <1>goes, <1>places, <1>type DEF CopiedAll
<1>5. ASSUME UpdatePaths(r) PROVE InputsOK'
  <2>1. {Manifest(d) : d \in Contents(call[r].items)} \subseteq Files
    BY <1>call, FileTypes
  <2> QED BY <1>5, <2>1, <1>places, <1>set DEF UpdatePaths
<1>6. ASSUME Queue(r) PROVE InputsOK'
  BY <1>6, <1>goes, <1>places, <1>type DEF Queue
<1> QED
  BY <1>1, <1>2, <1>3, <1>4, <1>5, <1>6, <1>refuse DEF HandlerStep, HandleInputs, HandlerDies

(* What was heard is well typed.                                           *)
LEMMA HeardTypes ==
  ASSUME TypeOK, heard \in [Runs -> Heard], NEW r \in Runs, HearUpTo(r, Len(log[r]))
  PROVE  heard' \in [Runs -> Heard]
<1> DEFINE n == Len(log[r])
           new == (heard[r].cursor + 1)..n
           dones == {i \in new : log[r][i].kind = "done" /\ log[r][i].epoch > 0}
           update == \E i \in new : log[r][i].kind = "update"
<1>1. /\ log[r] \in Seq(Event) /\ n \in Nat
      /\ heard[r].cursor \in Nat /\ heard[r].text \in BOOLEAN /\ heard[r].answer \in Nat
  BY DEF TypeOK, Heard
<1>2. \A i \in new : log[r][i].epoch \in Nat
  <2>1. new \subseteq 1..Len(log[r])
    BY <1>1
  <2>2. \A i \in 1..Len(log[r]) : log[r][i] \in Event
    BY <1>1
  <2>3. \A ev \in Event : ev.epoch \in Nat
    BY DEF Event
  <2> HIDE DEF new
  <2> QED BY <2>1, <2>2, <2>3
<1>3. PICK text \in {heard[r].text, heard[r].text \/ update},
           answer \in {heard[r].answer} \cup {log[r][i].epoch : i \in dones} :
        heard' = [heard EXCEPT ![r] = [cursor |-> n, text |-> text, answer |-> answer]]
  BY Zenon DEF HearUpTo
<1>4. answer \in Nat
  BY <1>1, <1>2, <1>3
<1>5. text \in BOOLEAN
  <2>1. (heard[r].text \/ update) \in BOOLEAN
    BY Zenon
  <2> HIDE DEF update
  <2> QED BY <2>1, <1>1, <1>3, Zenon
<1>6. [cursor |-> n, text |-> text, answer |-> answer] \in Heard
  BY <1>1, <1>4, <1>5 DEF Heard
<1> HIDE DEF n
<1> QED BY <1>3, <1>6

(* Types are kept by every step.                                           *)
LEMMA TypesStay ==
  ASSUME IInv, BTypeOK, [BNext]_bvars
  PROVE  BTypeOK'
<1>type. /\ TypeOK /\ InputsOK
         /\ message \in [Runs -> Final \cup {"new", "processing"}]
         /\ media \in [Runs -> Messages \cup {<<>>}]
         /\ job \in [Runs -> Jobs]
         /\ stream \in [Runs -> {"closed", "fetch", "check"}]
         /\ heard \in [Runs -> Heard]
         /\ told \in [Runs -> SUBSET {"answer", "failure"}]
         /\ faults \in 0..MaxFaults /\ MaxFaults \in Nat
         /\ crashed \in BOOLEAN
  BY BridgeAssumption DEF BTypeOK
<1>table. TypeOK'
  BY StepType, BridgeTable DEF IInv
<1>fault. (Fault => faults' \in 0..MaxFaults /\ crashed' \in BOOLEAN)
          /\ (Calm => faults' \in 0..MaxFaults /\ crashed' \in BOOLEAN)
  BY <1>type DEF Fault, Calm
<1>inputs. UNCHANGED inputs => InputsOK'
  BY <1>type DEF InputsOK, inputs
<1>worker. UNCHANGED worker => InputsOK'
  BY <1>inputs DEF worker, inputs
<1>advance. \A from, to : \A r \in Runs : to \in Jobs /\ Advance(r, from, to) => job' \in [Runs -> Jobs]
  BY <1>type DEF Advance
<1>mark. \A r \in Runs, status \in Final \cup {"new", "processing"} :
           Mark(r, status) => message' \in [Runs -> Final \cup {"new", "processing"}]
  BY <1>type DEF Mark
<1>tell. \A r \in Runs, what \in {"answer", "failure"} :
           Tell(r, what) => told' \in [Runs -> SUBSET {"answer", "failure"}]
  BY <1>type DEF Tell
<1>1. ASSUME NEW r \in Runs, OnMessage(r) PROVE BTypeOK'
  <2>1. media' \in [Runs -> Messages \cup {<<>>}] /\ job' \in [Runs -> Jobs]
    BY <1>1, <1>type DEF OnMessage, Jobs
  <2>2. message' \in [Runs -> Final \cup {"new", "processing"}]
    BY <1>1, <1>mark DEF OnMessage, Final
  <2> QED BY <1>1, <2>1, <2>2, <1>type, <1>table, <1>worker, <1>fault DEF OnMessage, BTypeOK
<1>2. ASSUME NEW r \in Runs, JobActions(r) PROVE BTypeOK'
  <2>1. /\ UNCHANGED <<message, media, told, crashed>> /\ job' \in [Runs -> Jobs]
        /\ faults' \in 0..MaxFaults
    BY <1>2, <1>type, JobMoves
  <2>2. stream' \in [Runs -> {"closed", "fetch", "check"}]
    BY <1>2, <1>type DEF JobActions, Prepare, Stage, CopyToWorker, SendFinalize,
       FinalizeAnswered, OpenStream, Fetch, Check, Over, StreamTimesOut, StreamBreaks
  <2>3. heard' \in [Runs -> Heard]
    BY <1>2, <1>type, HeardTypes DEF JobActions, Prepare, Stage, CopyToWorker, SendFinalize,
       FinalizeAnswered, OpenStream, Fetch, Check, StreamTimesOut, StreamBreaks
  <2>media. media[r] \in Seq(Digests)
    <3>1. <<>> \in Seq(Digests)
      OBVIOUS
    <3> QED BY <3>1, <1>type, BridgeAssumption
  <2>4. InputsOK'
    <3>1. CASE CopyToWorker(r)
      <4> DEFINE files == {Ingress(i) : i \in DOMAIN media[r]}
      <4>1. files \subseteq Files
        BY <2>media, FileTypes
      <4>2. inbox' = [inbox EXCEPT ![r] = files] \/ inbox' = inbox
        BY <3>1 DEF CopyToWorker
      <4> HIDE DEF files
      <4>3. inbox' \in [Runs -> SUBSET Files]
        BY <4>1, <4>2, <1>type DEF InputsOK
      <4> QED BY <3>1, <4>3, <1>type DEF CopyToWorker, InputsOK
    <3>2. CASE SendFinalize(r)
      <4>1. call' \in [Runs -> Call]
        BY <3>2, <2>media, <1>type, CallTypes DEF SendFinalize, InputsOK
      <4> QED BY <3>2, <4>1, <1>type DEF SendFinalize, Request, InputsOK
    <3>3. CASE Prepare(r)
      BY <3>3, <1>inputs, <1>worker DEF Prepare, PrepareRun
    <3>4. CASE ~CopyToWorker(r) /\ ~SendFinalize(r) /\ ~Prepare(r)
      BY <1>2, <3>4, <1>worker DEF JobActions, Stage, FinalizeAnswered, OpenStream, Fetch,
         Check, StreamTimesOut, StreamBreaks
    <3> QED BY <3>1, <3>2, <3>3, <3>4
  <2> QED BY <1>type, <1>table, <2>1, <2>2, <2>3, <2>4 DEF BTypeOK
<1>3. ASSUME NEW r \in Runs,
             Answer(r) \/ FinishReplied(r) \/ FinishFailed(r) \/ Apologize(r)
      PROVE  BTypeOK'
  <2>1. job' \in [Runs -> Jobs]
    BY <1>3, <1>advance DEF Answer, FinishReplied, FinishFailed, Apologize, Jobs
  <2>2. message' \in [Runs -> Final \cup {"new", "processing"}]
    BY <1>3, <1>mark, <1>type DEF Answer, FinishReplied, FinishFailed, Apologize, Final
  <2>3. told' \in [Runs -> SUBSET {"answer", "failure"}]
    BY <1>3, <1>tell, <1>type DEF Answer, FinishReplied, FinishFailed, Apologize
  <2>4. faults' \in 0..MaxFaults /\ crashed' \in BOOLEAN
    BY <1>3, <1>fault DEF Answer, FinishReplied, FinishFailed, Apologize
  <2>5. UNCHANGED <<media, stream, heard>> /\ UNCHANGED worker
    BY <1>3 DEF Answer, FinishReplied, FinishFailed, Apologize
  <2> QED BY <1>type, <1>table, <1>worker, <2>1, <2>2, <2>3, <2>4, <2>5 DEF BTypeOK
<1>4. CASE BridgeCrash
  <2>1. job' \in [Runs -> Jobs] /\ stream' \in [Runs -> {"closed", "fetch", "check"}]
    BY <1>4 DEF BridgeCrash, Jobs
  <2> QED BY <1>4, <2>1, <1>type, <1>table, <1>worker DEF BridgeCrash, BTypeOK
<1>5. CASE Elsewhere
  <2>1. /\ UNCHANGED <<message, media, job, stream, heard, told, crashed>>
        /\ faults' \in 0..MaxFaults
    BY <1>5, <1>type, ElsewhereKeeps
  <2>2. ASSUME NEW r \in Runs, HandlerStep(r) \/ HandlerDies(r) PROVE InputsOK'
    BY <2>2, <1>type, HandlerTypes
  <2>3. ASSUME NEW r \in Runs, ClientPrepare(r) PROVE InputsOK'
    BY <2>3, <1>inputs DEF ClientPrepare, PrepareRun
  <2>4. ASSUME NEW r \in Runs, ClientFinalize(r) \/ ClientRetry(r) PROVE InputsOK'
    <3>1. call' \in [Runs -> Call]
      BY <2>4, <1>type, CallTypes, BridgeAssumption DEF ClientFinalize, ClientRetry, InputsOK
    <3>2. inbox' \in [Runs -> SUBSET Files]
      <4> DEFINE files == {Ingress(i) : i \in DOMAIN Uploaded}
      <4>1. files \subseteq Files
        BY FileTypes, BridgeAssumption
      <4>2. inbox' = [inbox EXCEPT ![r] = files] \/ inbox' = inbox
        BY <2>4 DEF ClientFinalize, ClientRetry
      <4> HIDE DEF files
      <4> QED BY <4>1, <4>2, <1>type DEF InputsOK
    <3>3. UNCHANGED <<names, recorded>>
      BY <2>4 DEF ClientFinalize, ClientRetry, Request
    <3> QED BY <1>type, <3>1, <3>2, <3>3 DEF InputsOK
  <2>5. InputsOK'
    BY <1>5, <2>2, <2>3, <2>4, <1>inputs DEF Elsewhere, Execution
  <2> QED BY <1>type, <1>table, <2>1, <2>5 DEF BTypeOK
<1>6. CASE UNCHANGED bvars
  <2>1. UNCHANGED worker /\ UNCHANGED bridge
    BY <1>6 DEF bvars, worker, bridge
  <2> QED BY <2>1, <1>type, <1>table, <1>worker DEF BTypeOK, bridge
<1> QED BY <1>1, <1>2, <1>3, <1>4, <1>5, <1>6, BridgeSteps

-----------------------------------------------------------------------------
(* The invariant, and what follows from it                                 *)

(* It holds before the first message.                                      *)
LEMMA InitBridge == BInit => BInv
<1> SUFFICES ASSUME BInit PROVE BInv
  OBVIOUS
<1>1. IInv
  BY InitInv DEF BInit
<1>2. BTypeOK
  <2>1. NoCall \in Call /\ "none" \in Jobs /\ MaxFaults \in Nat
    BY BridgeAssumption DEF NoCall, Call, CallPlaces, Jobs
  <2>2. InputsOK
    BY <2>1 DEF BInit, InitInputs, InputsOK
  <2>3. heard \in [Runs -> Heard]
    BY DEF BInit, Heard
  <2>4. TypeOK
    BY <1>1 DEF IInv
  <2>5. /\ message \in [Runs -> Final \cup {"new", "processing"}]
        /\ media \in [Runs -> Messages \cup {<<>>}]
        /\ job \in [Runs -> Jobs]
        /\ stream \in [Runs -> {"closed", "fetch", "check"}]
    BY <2>1 DEF BInit, Final
  <2>6. told \in [Runs -> SUBSET {"answer", "failure"}]
    BY DEF BInit
  <2>7. faults \in 0..MaxFaults /\ crashed \in BOOLEAN
    <3>1. faults = 0
      BY DEF BInit
    <3>2. crashed \in BOOLEAN
      BY DEF BInit
    <3> QED BY <2>1, <3>1, <3>2
  <2> QED BY <2>2, <2>3, <2>4, <2>5, <2>6, <2>7 DEF BTypeOK
<1>3. ASSUME NEW r \in Runs
      PROVE  Requested(r) /\ Materialized(r) /\ LogTells(r) /\ Answers(r) /\ Told(r)
  <2>1. /\ row[r].status = "ABSENT" /\ row[r].epoch = 0 /\ log[r] = <<>>
        /\ call[r].pc = "none" /\ call[r].next = 1 /\ recorded[r] = {}
        /\ job[r] = "none" /\ message[r] = "new" /\ told[r] = {}
        /\ heard[r].answer = 0 /\ heard[r].text = FALSE
    BY DEF BInit, Init, NewRow, InitInputs, NoCall
  <2>2. Requested(r) /\ Told(r) /\ Answers(r)
    BY <2>1 DEF Requested, Told, Answers, At
  <2>3. Materialized(r) /\ LogTells(r)
    BY <2>1 DEF Materialized, LogTells, Executable, At
  <2> QED BY <2>2, <2>3
<1> QED BY <1>1, <1>2, <1>3 DEF BInv

(* Every step of the bridge, its worker and the other clients keeps it.    *)
LEMMA StepBridge == BInv /\ [BNext]_bvars => BInv'
<1> SUFFICES ASSUME BInv, [BNext]_bvars PROVE BInv'
  OBVIOUS
<1>inv. /\ IInv /\ BTypeOK
        /\ \A r \in Runs : LogTells(r) /\ Answers(r) /\ Told(r)
  BY DEF BInv
<1>1. [Next]_vars
  BY BridgeTable
<1>2. IInv'
  BY <1>1, <1>inv, StepInv
<1>3. BTypeOK'
  BY <1>inv, TypesStay
<1>4. \A r \in Runs : Requested(r)' /\ Materialized(r)'
  BY InputsStay
<1>5. \A r \in Runs : LogTells(r)'
  BY <1>1, <1>inv, LogsTellTrue
<1>6. \A r \in Runs : Answers(r)'
  BY <1>inv, AnswersStay
<1>7. \A r \in Runs : Told(r)'
  BY <1>inv, ToldStays
<1> QED BY <1>2, <1>3, <1>4, <1>5, <1>6, <1>7 DEF BInv

(* The strengthened invariant of the bridge over the worker's run inputs.  *)
THEOREM BridgeInvariance == BSpec => []BInv
  BY InitBridge, StepBridge, PTL DEF BSpec

(* The run table under the bridge, the finalize handler and the executors  *)
(* is the run table of RunStore, so its theorems hold of it.               *)
THEOREM TableUnderBridge == BSpec => Spec
<1>1. BInit => Init
  BY DEF BInit
<1>2. [BNext]_bvars => [Next]_vars
  BY BridgeTable
<1> QED BY <1>1, <1>2, PTL DEF BSpec, Spec

(* What the bridge waits on keeps the contract of a run, with the bridge,  *)
(* its cancels and its retries acting on the table.                        *)
THEOREM BridgeKeepsContract == BSpec => ImplementsContract
  BY TableUnderBridge, Refinement, PTL

(* The state of the handler, of the bridge and of its streams keeps its    *)
(* types.                                                                  *)
THEOREM BridgeTypes == BSpec => []BTypeOK
<1>1. BInv => BTypeOK
  BY DEF BInv
<1> QED BY <1>1, BridgeInvariance, PTL

(* A run that executors can have names exactly the recorded inputs of its  *)
(* finalize request, and they are in its inbox.                            *)
THEOREM InputsComplete == BSpec => []ExecutedInputsComplete
<1>1. BInv => ExecutedInputsComplete
  BY DEF BInv, ExecutedInputsComplete, Materialized, Executable, NamesRecorded
<1> QED BY <1>1, BridgeInvariance, PTL

(* What a message is replied with is the result of its run, and comes from *)
(* a run whose inputs were final.                                          *)
THEOREM AnswersAreResults == BSpec => []AnswerIsResult
<1>1. BInv => AnswerIsResult
  <2> SUFFICES ASSUME BInv, NEW r \in Runs
               PROVE  /\ heard[r].answer > 0 => /\ row[r].status = "SUCCEEDED"
                                                /\ row[r].result = heard[r].answer
                      /\ "answer" \in told[r] => row[r].epoch > 0
                                                 /\ row[r].manifest = "FINALIZED"
    BY DEF AnswerIsResult
  <2>1. Answers(r) /\ RowOK(row[r])
    BY DEF BInv, IInv
  <2> QED BY <2>1 DEF Answers, RowOK
<1> QED BY <1>1, BridgeInvariance, PTL

(* The table of messages agrees with what users were shown, whatever was   *)
(* lost and however often the bridge was restarted.                        *)
THEOREM TableAgrees == BSpec => []TableAgreesWithUser
<1>1. BInv => TableAgreesWithUser
  BY DEF BInv, TableAgreesWithUser, Told
<1> QED BY <1>1, BridgeInvariance, PTL

(* A message whose row is final is not handled again.                      *)
THEOREM MessagesHandledOnce == BSpec => HandledOnce
<1>1. ASSUME BInv, [BNext]_bvars, NEW q \in Runs, message[q] \in Final
      PROVE  message'[q] = message[q] /\ job'[q] \in {"none", job[q]}
  <2>type. /\ message \in [Runs -> Final \cup {"new", "processing"}]
           /\ job \in [Runs -> Jobs]
    BY <1>1 DEF BInv, BTypeOK
  <2>told. job[q] \in {"none", "apologizing"}
    BY <1>1 DEF BInv, Told, Final
  <2>1. ASSUME NEW r \in Runs, OnMessage(r)
        PROVE  message'[q] = message[q] /\ job'[q] = job[q]
    BY <1>1, <2>1, <2>type DEF OnMessage, Mark, Final
  <2>2. ASSUME NEW r \in Runs, JobActions(r)
        PROVE  message'[q] = message[q] /\ job'[q] = job[q]
    <3>1. /\ UNCHANGED message
          /\ \A p \in Runs \ {r} : job'[p] = job[p]
          /\ job'[r] = job[r] \/ job[r] \notin {"none", "apologizing"}
      BY <2>2, <2>type, JobMoves
    <3> QED BY <3>1, <2>told
  <2>3. ASSUME NEW r \in Runs,
               Answer(r) \/ FinishReplied(r) \/ FinishFailed(r) \/ Apologize(r)
        PROVE  message'[q] = message[q] /\ job'[q] \in {"none", job[q]}
    BY <2>3, <2>type, <2>told DEF Answer, FinishReplied, FinishFailed, Apologize, Advance, Mark
  <2>4. BridgeCrash => message'[q] = message[q] /\ job'[q] = "none"
    BY DEF BridgeCrash
  <2>5. Elsewhere => message'[q] = message[q] /\ job'[q] = job[q]
    BY ElsewhereKeeps
  <2>6. UNCHANGED bvars => message'[q] = message[q] /\ job'[q] = job[q]
    BY DEF bvars
  <2> QED BY <1>1, <2>1, <2>2, <2>3, <2>4, <2>5, <2>6, BridgeSteps
<1>2. BInv /\ [BNext]_bvars => [\A r \in Runs :
        message[r] \in Final => message'[r] = message[r] /\ job'[r] \in {"none", job[r]}]_bvars
  BY <1>1
<1> QED BY <1>2, BridgeInvariance, PTL DEF BSpec, HandledOnce
=============================================================================
