---------------------------- MODULE FeishuBridge ----------------------------
(***************************************************************************)
(* The bridge process of integrations/feishu/bridge.py over the worker's   *)
(* run inputs: a message is claimed, its run prepared and finalized, the   *)
(* run's events are followed without reconnecting, and the user is shown   *)
(* the answer or an apology.  A message stands for the run it gives rise   *)
(* to, whose idempotency key is the message's digest.                      *)
(*                                                                         *)
(* Every call to the worker or to Feishu may fail before or after its      *)
(* effect.  Such failures, broken connections and crashes of the bridge    *)
(* are counted in faults.  The run table's other callers are unconstrained *)
(* as in RunStore; one of them prepares and finalizes runs with input      *)
(* files through the same internal API.                                    *)
(***************************************************************************)
EXTENDS RunInputs

CONSTANTS
  Messages,   \* what messages come with: the contents of their media, in order
  Uploaded,   \* the contents of the files another client sends with a run
  MaxFaults   \* bound: faults in a behaviour

ASSUME BridgeAssumption == /\ Messages \subseteq Seq(Digests)
                           /\ Uploaded \in Seq(Digests)
                           /\ MaxFaults \in Nat

VARIABLES
  message,   \* message[r]: its row in the table messages; "new" before the INSERT
  media,     \* media[r]: the contents of the message's media
  job,       \* job[r]: where process_message is
  stream,    \* stream[r]: the connection to stream_internal_run, and its loop
  heard,     \* heard[r]: what came through it
  told,      \* told[r]: what the user has been shown
  faults,
  crashed    \* the bridge has been restarted

bridge == <<message, media, job, stream, heard, told, faults, crashed>>
bvars == <<row, log, grants, names, inbox, recorded, call,
           message, media, job, stream, heard, told, faults, crashed>>
worker == <<row, log, grants, names, inbox, recorded, call>>

Final == {"replied", "failed", "ignored"}

\* submitted: in the thread pool.  prepared, staged, copied: before media are
\* downloaded, copied, announced.  finalize: the finalize request is out.
\* ready: before the stream.  following: in its loop.  answering, answered:
\* around the reply.  failing, apologizing: around finish_message(failed).
Jobs == {"none", "submitted", "prepared", "staged", "copied", "finalize",
         "ready", "following", "answering", "answered", "failing",
         "apologizing"}

\* cursor: last_event_id; text: some delta came; answer: the epoch of the done
\* event whose answer came, or 0.
Heard == [cursor : Nat, text : BOOLEAN, answer : Nat]

BInit == /\ Init /\ InitInputs
         /\ message = [r \in Runs |-> "new"]
         /\ media = [r \in Runs |-> <<>>]
         /\ job = [r \in Runs |-> "none"]
         /\ stream = [r \in Runs |-> "closed"]
         /\ heard = [r \in Runs |-> [cursor |-> 0, text |-> FALSE, answer |-> 0]]
         /\ told = [r \in Runs |-> {}]
         /\ faults = 0
         /\ crashed = FALSE

-----------------------------------------------------------------------------
Advance(r, from, to) == job[r] = from /\ job' = [job EXCEPT ![r] = to]

Calm  == UNCHANGED <<faults, crashed>>
Fault == faults < MaxFaults /\ faults' = faults + 1 /\ UNCHANGED crashed

Tell(r, what) == told' = [told EXCEPT ![r] = @ \cup {what}]
Mark(r, status) == message' = [message EXCEPT ![r] = status]

OnMessageAgain(r) ==
  /\ row[r].status = "ABSENT" \/ message[r] # "new"
  /\ job[r] = "none"
  /\ Mark(r, "processing") /\ job' = [job EXCEPT ![r] = "submitted"]
  /\ Calm
  /\ UNCHANGED <<worker, media, stream, heard, told>>

\* on_message: Feishu may deliver a message again and again; the INSERT OR
\* IGNORE of claim_message lets the first one pass.
OnMessage(r) ==
  /\ row[r].status = "ABSENT"
  /\ message[r] = "new"
  /\ \/ /\ Mark(r, "processing") /\ job' = [job EXCEPT ![r] = "submitted"]
        /\ \E contents \in Messages : media' = [media EXCEPT ![r] = contents]
     \/ Mark(r, "ignored") /\ UNCHANGED <<job, media>>
  /\ Calm
  /\ UNCHANGED <<worker, stream, heard, told>>

\* resolve_worker_session and prepare_worker_run; the answer may be lost, and
\* either call may fail.
Prepare(r) ==
  /\ \/ PrepareRun(r) /\ Advance(r, "submitted", "prepared") /\ Calm
     \/ PrepareRun(r) /\ Advance(r, "submitted", "failing") /\ Fault
     \/ UNCHANGED worker /\ Advance(r, "submitted", "failing") /\ Fault
  /\ UNCHANGED <<message, media, stream, heard, told>>

\* stage_inbound_media: the media are downloaded, if there are any.
Stage(r) ==
  /\ \/ media[r] = <<>> /\ Advance(r, "prepared", "copied") /\ Calm
     \/ media[r] # <<>> /\ Advance(r, "prepared", "staged") /\ Calm
     \/ media[r] # <<>> /\ Advance(r, "prepared", "failing") /\ Fault
  /\ UNCHANGED <<worker, message, media, stream, heard, told>>

\* copy_inbound_media_to_worker: docker cp, then the owner and the rights,
\* each of which may fail.
CopyToWorker(r) ==
  /\ \/ Advance(r, "staged", "copied") /\ Calm
     \/ Advance(r, "staged", "failing") /\ Fault
  /\ \/ inbox' = [inbox EXCEPT ![r] = {Ingress(i) : i \in DOMAIN media[r]}]
     \/ UNCHANGED inbox /\ job'[r] = "failing"
  /\ UNCHANGED <<row, log, grants, names, recorded, call,
                 message, media, stream, heard, told>>

\* The request of finalize_worker_run_inputs.  What was staged and copied has
\* no workspace_path.
SendFinalize(r) ==
  /\ Advance(r, "copied", "finalize")
  /\ Request(r, media[r], FALSE)
  /\ Calm
  /\ UNCHANGED <<row, log, grants, inbox, message, media, stream, heard, told>>

\* The answer to it; or none comes, while the handler goes on.
FinalizeAnswered(r) ==
  /\ \/ At(r, "accepted") /\ Advance(r, "finalize", "ready") /\ Calm
     \/ At(r, "refused") /\ Advance(r, "finalize", "failing") /\ Calm
     \/ Advance(r, "finalize", "failing") /\ Fault
  /\ UNCHANGED <<worker, message, media, stream, heard, told>>

-----------------------------------------------------------------------------
(* Following the run                                                       *)

\* stream_dsh_chat; stream_internal_run finds the manifest final.
OpenStream(r) ==
  /\ \/ /\ Advance(r, "ready", "following") /\ Calm
        /\ stream' = [stream EXCEPT ![r] = "fetch"]
     \/ Advance(r, "ready", "failing") /\ Fault /\ UNCHANGED stream
  /\ UNCHANGED <<worker, message, media, heard, told>>

HearUpTo(r, n) ==
  LET new == (heard[r].cursor + 1)..n
      dones == {i \in new : log[r][i].kind = "done" /\ log[r][i].epoch > 0}
  IN /\ \E text \in {heard[r].text, heard[r].text \/ \E i \in new : log[r][i].kind = "update"},
           answer \in {heard[r].answer} \cup {log[r][i].epoch : i \in dones} :
          heard' = [heard EXCEPT ![r] = [cursor |-> n, text |-> text, answer |-> answer]]

\* One turn of the loop writes the events so far; the bridge takes in deltas
\* and the answer of a done event, if they have text.  It does not look at
\* error events, and a done event of a cancellation has no answer.
Fetch(r) ==
  /\ job[r] = "following" /\ stream[r] = "fetch"
  /\ HearUpTo(r, Len(log[r]))
  /\ stream' = [stream EXCEPT ![r] = "check"]
  /\ Calm
  /\ UNCHANGED <<worker, message, media, job, told>>

OverUnchecked(r) == /\ stream' = [stream EXCEPT ![r] = "closed"]
                    /\ Advance(r, "following", "answering")

\* The loop ends: the answer is that of the done event, or else the deltas;
\* "stream completed without an answer" is a failure.
Over(r) == /\ stream' = [stream EXCEPT ![r] = "closed"]
           /\ Advance(r, "following",
                      IF heard[r].answer > 0 \/ heard[r].text
                      THEN "answering" ELSE "failing")

\* get_run after the events: a terminal status closes the stream.
Check(r) ==
  /\ stream[r] = "check"
  /\ IF row[r].status \in Terminal
     THEN Over(r)
     ELSE stream' = [stream EXCEPT ![r] = "fetch"] /\ UNCHANGED job
  /\ Calm
  /\ UNCHANGED <<worker, message, media, heard, told>>

\* The deadline of the loop: an error event stream_timeout, and the end.
StreamTimesOut(r) ==
  /\ stream[r] = "check"
  /\ row[r].status \notin Terminal
  /\ Over(r)
  /\ Calm
  /\ UNCHANGED <<worker, message, media, heard, told>>

\* The connection is gone, which urllib reports as the end or as an error; or
\* a card update fails.  What came before has been heard.
StreamBreaks(r) ==
  /\ job[r] = "following"
  /\ \/ Over(r)
     \/ /\ Advance(r, "following", "failing")
        /\ stream' = [stream EXCEPT ![r] = "closed"]
  /\ Fault
  /\ UNCHANGED <<worker, message, media, heard, told>>

-----------------------------------------------------------------------------
(* The end of process_message                                              *)

AnswerUnchecked(r) ==
  /\ Advance(r, "answering", "answered")
  /\ \/ Tell(r, "answer") /\ Calm
     \/ (Tell(r, "answer") \/ UNCHANGED told) /\ Fault
  /\ UNCHANGED <<worker, message, media, stream, heard>>

\* The answer in the card, or as a text reply.
Answer(r) ==
  /\ \/ Advance(r, "answering", "answered") /\ Tell(r, "answer") /\ Calm
     \/ /\ Advance(r, "answering", "failing")
        /\ Tell(r, "answer") \/ UNCHANGED told
        /\ Fault
  /\ UNCHANGED <<worker, message, media, stream, heard>>

FinishReplied(r) == /\ Advance(r, "answered", "none")
                    /\ Mark(r, "replied")
                    /\ Calm
                    /\ UNCHANGED <<worker, media, stream, heard, told>>

FinishFailedUnwritten(r) == /\ Advance(r, "failing", "apologizing")
                            /\ UNCHANGED message
                            /\ Calm
                            /\ UNCHANGED <<worker, media, stream, heard, told>>

FinishFailedAsError(r) == /\ Advance(r, "failing", "apologizing")
                          /\ Mark(r, "error")
                          /\ Calm
                          /\ UNCHANGED <<worker, media, stream, heard, told>>

FinishFailed(r) == /\ Advance(r, "failing", "apologizing")
                   /\ Mark(r, "failed")
                   /\ Calm
                   /\ UNCHANGED <<worker, media, stream, heard, told>>

\* The apology; a failure of it is logged.
Apologize(r) ==
  /\ Advance(r, "apologizing", "none")
  /\ \/ Tell(r, "failure") /\ Calm
     \/ (Tell(r, "failure") \/ UNCHANGED told) /\ Fault
  /\ UNCHANGED <<worker, message, media, stream, heard>>

\* The bridge ends and is started again.  Nothing takes up the messages that
\* it was processing.
BridgeCrash ==
  /\ faults < MaxFaults /\ faults' = faults + 1
  /\ crashed' = TRUE
  /\ job' = [r \in Runs |-> "none"]
  /\ stream' = [r \in Runs |-> "closed"]
  /\ UNCHANGED <<worker, message, media, heard, told>>

-----------------------------------------------------------------------------
(* The worker's side, and its other clients                                *)

HandlerStep(r) == HandleInputs(r) \/ Queue(r)

\* A client of the internal API other than the bridge prepares a run, puts its
\* files into the inbox and finalizes; answered or not, it may ask again.
ClientPrepare(r) == /\ message[r] = "new"
                    /\ PrepareRun(r)
                    /\ UNCHANGED bridge

ClientFinalize(r) ==
  /\ message[r] = "new" /\ row[r].status # "ABSENT" /\ At(r, "none")
  /\ Request(r, Uploaded, TRUE)
  /\ inbox' = [inbox EXCEPT ![r] = {Ingress(i) : i \in DOMAIN Uploaded}]
  /\ UNCHANGED <<row, log, grants, bridge>>

ClientRetry(r) ==
  /\ message[r] = "new"
  /\ At(r, "accepted") \/ At(r, "refused")
  /\ Request(r, Uploaded, TRUE)
  /\ Fault
  /\ UNCHANGED <<row, log, grants, inbox, message, media, job, stream, heard, told>>

\* Schedulers, executors, cancels and the clock.
Execution ==
  /\ \/ \E r \in Runs : RequestCancel(r) \/ DeadlinePasses(r)
     \/ \E s \in Sessions : CancelLatestActiveRun(s)
     \/ \E e \in Executors : ClaimNextRun(e)
     \/ \E g \in grants : MarkRunning(g) \/ HeartbeatLease(g) \/ AppendEvent(g)
     \/ \E g \in grants, outcome \in Outcomes : FinishRun(g, outcome)
  /\ UNCHANGED <<inputs, bridge>>

JobStep(r) == \/ Prepare(r) \/ Stage(r) \/ CopyToWorker(r)
              \/ SendFinalize(r) \/ FinalizeAnswered(r)
              \/ OpenStream(r) \/ Answer(r)
              \/ FinishReplied(r) \/ FinishFailed(r) \/ Apologize(r)

BNext ==
  \/ \E r \in Runs : OnMessage(r)
  \/ \E r \in Runs : JobStep(r)
  \/ \E r \in Runs : Fetch(r) \/ Check(r)
  \/ \E r \in Runs : StreamTimesOut(r)
  \/ \E r \in Runs : StreamBreaks(r)
  \/ BridgeCrash
  \/ \E r \in Runs : HandlerStep(r) /\ UNCHANGED bridge
  \/ \E r \in Runs : HandlerDies(r) /\ Fault
                     /\ UNCHANGED <<message, media, job, stream, heard, told>>
  \/ \E r \in Runs : ClientPrepare(r) \/ ClientFinalize(r) \/ ClientRetry(r)
  \/ Execution

\* The pool's threads and the worker's handler run; the loop of the stream
\* runs, and its deadline comes.
BSpec == /\ BInit /\ [][BNext]_bvars
         /\ \A r \in Runs : /\ WF_bvars(JobStep(r))
                            /\ WF_bvars(HandlerStep(r) /\ UNCHANGED bridge)
                            /\ WF_bvars(Fetch(r) \/ Check(r))
                            /\ SF_bvars(StreamTimesOut(r))

-----------------------------------------------------------------------------
(* Properties                                                              *)

BTypeOK == /\ TypeOK /\ InputsOK
           /\ message \in [Runs -> Final \cup {"new", "processing"}]
           /\ media \in [Runs -> Messages \cup {<<>>}]
           /\ job \in [Runs -> Jobs]
           /\ stream \in [Runs -> {"closed", "fetch", "check"}]
           /\ heard \in [Runs -> Heard]
           /\ told \in [Runs -> SUBSET {"answer", "failure"}]
           /\ faults \in 0..MaxFaults
           /\ crashed \in BOOLEAN

(* An answer that came with a done event is the result of the run, and what *)
(* a message was replied with comes from a run that was executed: neither   *)
(* cancels nor stale executors slip in an answer of their own.              *)
AnswerIsResult == \A r \in Runs :
  /\ heard[r].answer > 0 => /\ row[r].status = "SUCCEEDED"
                            /\ row[r].result = heard[r].answer
  /\ "answer" \in told[r] => row[r].epoch > 0 /\ row[r].manifest = "FINALIZED"

(* What the table says of a message agrees with what its user was shown,    *)
(* and without a fault a user never gets an answer and an apology.          *)
TableAgreesWithUser == \A r \in Runs :
  /\ message[r] = "replied" => "answer" \in told[r]
  /\ "failure" \in told[r] => message[r] = "failed"
  /\ faults = 0 => told[r] # {"answer", "failure"}

(* A message is handled once, however often Feishu delivers it: its row is  *)
(* final when it is final.                                                  *)
HandledOnce == [][\A r \in Runs :
  message[r] \in Final => message'[r] = message[r] /\ job'[r] \in {"none", job[r]}]_bvars

(* Every claimed message is finally replied to or failed, whatever becomes  *)
(* of its run, of the connection or of Feishu's answers, unless the bridge  *)
(* was restarted in between.                                                *)
MessagesSettle == \A r \in Runs :
  message[r] = "processing" ~> message[r] \in Final \/ crashed

(* "Consumers should use the done event as the terminal success result and  *)
(* the error event as a terminal failure signal" (protocol/README.md): no   *)
(* message is replied to after an error event came through its stream.      *)
ErrorsAreFailures == \A r \in Runs :
  message[r] = "replied" =>
    \A i \in 1..heard[r].cursor : log[r][i].kind # "error"

(* "Attachments enter inbox/<run-id>/ and are hash-verified before a Run    *)
(* becomes executable" (docs/hosted-platform-backlog.md): a message, with   *)
(* attachments or without, fails with its run still in preparation only     *)
(* because of a fault.                                                      *)
PreparedRunsProceed == \A r \in Runs :
  message[r] = "failed" /\ faults = 0 => row[r].status # "PREPARING"
=============================================================================
