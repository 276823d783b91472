# DSH as a service: the verification project

TLA+ models of the worker, its control plane and its Feishu channel, the TLC
runs that check them on small instances, and TLAPS proofs for every value of
the constants. Paths below are relative to the repository. `PROJECT.json` lists
the components, the runs, the source lines of every definition, the hazards and
the theorems.

## The system

A *worker* process (`implementations/python/server.py`) executes prompts of
conversation *sessions* with the DSH harness. Its durable state is one SQLite
database (`control_plane.py`). Clients reach it over HTTP: the compatibility
endpoints `/chat` and `/chat/stream`, the `/v1` control-plane API, and
`/internal` routes for the Feishu *bridge* (`integrations/feishu/bridge.py`), a
second process that receives messages from Feishu, has the worker execute them
and delivers the answers. A TypeScript gateway may stand in front as a proxy.

| part | state | operations | what makes it correct |
|---|---|---|---|
| run table (`control_plane.py`) | `runs`: status, lease epoch, executor, deadline, cancel flag, manifest status, result; `run_events` | create, finalize, cancel, two claims, mark running, heartbeat, finish, append event, the sweep inside `claim_next_run` | one active run per session; only the newest lease writes the result; a run ends once and stays; its log closes once; a canceled run is not leased |
| worker process (`server.py`) | `_slots` semaphore, scheduler thread, executor threads, heartbeat threads, session locks | schedule, `/chat`, `/chat/stream`, execute a lease, shut down, crash and restart | no permit is returned twice, none lost without a fault; a lease is executed by one task; a run is executed again, and a stale turn writes to its log, only after a fault; every run ends |
| event streams (`server.py`) | per connection: cursor, deadline | fetch a batch, check the run, time out, reconnect | the client gets a prefix of the log, hears the end, may trust it |
| deliveries (`control_plane.py`, `bridge.py`) | `deliveries`: status, next attempt, lease; the handler's and the replay thread's position | create, claim due ones, finish; reply to Feishu, add to the card | recorded as delivered means shown, once; a registered text gets through |
| sessions and bindings (`control_plane.py`) | `sessions`, `agent_versions`, `external_conversation_bindings` | publish a version; get or create, create, bind | one session per conversation, whoever comes first; nobody gets another's |
| run inputs (`server.py`) | inbox directory, `run_inputs`, the run's message | prepare, finalize | what is executed is what was finalized |
| run actions (`control_plane.py`) | `run_actions`, `usage_records` | create, update from notifications | one record per tool call, terminal ones stay; not modelled |
| conversation memory (`server.py`) | a file per session, `_hydrated_sessions`, session locks | import a v1 file, hydrate, append, trim | the file is the recent history; each complete answer that became a result is in it; a fresh harness is told it |
| Feishu bridge (`bridge.py`) | `messages` table, worker pool, streaming card | claim a message, stage media, prepare, finalize, follow the run, deliver | each message handled once and answered |
| artifacts, model catalog, gateway, deployment | files; constants; none; none | | file-system code or stateless; not modelled |

How they interact. Every operation of the control plane is one `BEGIN
IMMEDIATE` transaction under the connection lock, so operations are atomic and
interleave in any order. What is not atomic is everything made of two
operations: `/chat` creates a run and then claims it, the event reader takes
events and then the status, an executor reads the cancel flag and then finishes,
the bridge sends a reply and then reports it. Threads of the worker hand permits
from one to another. Leases tie the two halves together: a claim gives an
executor an epoch, every later write of the run's state compares it.

What is hard: executors that outlive their lease, crashes between two
operations, heartbeats that stop while the turn goes on, clients that leave at
any point, lost answers of calls that took effect, and two parties that both
believe a run or a delivery is theirs. The list, line by line, is under
`hazards` in `PROJECT.json`.

## The modules

| module | models |
|---|---|
| `RunContract` | what the run table promises, without leases, executors or clocks |
| `RunStore` | the run table and its event log, one action per operation; callers unconstrained |
| `Worker` | the worker process, composed with `RunStore`: a lease is used only by the task that got it |
| `EventStream` | one client of the event log, composed with `RunStore` |
| `Delivery` | deliveries of one answered message: table, handler, replay thread, Feishu |
| `RunInputs` | prepare and finalize of a run: its message, inbox and manifest, step by step over `RunStore` |
| `FeishuBridge` | the bridge's handling of messages, composed with `RunInputs` |
| `SessionBinding` | how a request gets its session: sessions, Agent versions, bindings, transaction by transaction |
| `Conversation` | the sessions' files and turns, composed with `SessionBinding` |
| `RunStoreProofs`, `WorkerProofs`, `EventStreamProofs`, `DeliveryProofs`, `FeishuBridgeProofs`, `ConversationProofs` | theorems of the module each is named for; `WorkerProofs`, `EventStreamProofs` and `FeishuBridgeProofs` build on `RunStoreProofs` |
| `TrimProofs` | lemmas on what `Bytes` and `Trim` of `Conversation` return |
| `HistoryProofs` | theorems on the contents of the files, over `ConversationProofs` and `TrimProofs` |
| `MC...` | constants for TLC |

**RunStore.** A run's row is a record; `status`, `epoch` (`lease_epoch` and
`attempt`, which only ever change together), `executor`, `cancel` and `manifest`
are columns. `result` stands for `response_json` and `error_json`: the epoch of
the executor that wrote them. `deadline` abstracts the clock: `created_at + 900`
while the run is PREPARING, `lease_expires_at` while it is leased; it passes at
any moment (`DeadlinePasses`), so every clock reading is covered. Runs are
numbered by their rank in `(created_at, id)`, which is what `claim_next_run` and
`cancel_latest` order by; they may be inserted in any order. A run also stands
for its idempotency key: `create_run` with a known key changes nothing. `log`
keeps kind and epoch of every event. `grants` is a history variable, the set of
leases ever returned: any of them may be used at any time, so stale executors
are covered without a model of the executors. An operation that raises or finds
nothing to do changes nothing and is no step.

**Worker.** `tasks` is the set of threads on behalf of a run: `pc` is the place
between two operations of `execute_run_with_lease`, `beat` whether the heartbeat
thread lives. The scheduler's permit for a `claim_next_run` that finds nothing
is taken and returned in one step. `Crash` drops all tasks and permits; the
successor has another `EXECUTOR_ID`. `faults` counts what comes from outside: a
crash, a heartbeat thread that dies of an exception, a process that sleeps
through a lease, a client that leaves, a shutdown, or an exception of a call
before or after the turn (`StepRaises`: `mark_running`, `cancel_requested`,
`materialize_run_artifacts`, `finish_run`, also when it records a failure), which
`/chat`, unlike the two other callers, answers without ending the run.
`harness.run` ends in any way at any time. `Shutdown` is
`close_runtime` up to the pool's shutdown, which cancels what no thread has taken
up; `SchedulerEnds` is the scheduler's last round, in which it may lease one more
run that it cannot submit; `SubmitRefused` is `/chat/stream` in the same
position; `Exit` comes when the pool's turns are over. That the scheduler's last
round takes less time than a lease (0.25 s against 300 s) is assumed:
no lease runs out in mode `closing`.

**EventStream.** `Fetch` and `Check` are the two transactions of the loop in
`stream_run_events`; `channel` is what is on its way to the client; `Break`
loses it. The client reconnects with the id of the last event it received.

**Delivery.** The handler works through its items in order, images, audio,
files, then the text; `pc` names the call it is in: `begin_delivery`, the reply, `complete_delivery`, `fail_delivery`.
The replay thread claims what is due, the handler's own deliveries included.
Every call may fail before or after its effect. Feishu shows a reply per uuid;
that repeated uuids are answered with success is assumed, as in the code's
comment on `claim_due_deliveries`. An image is an element of the card, with a new
id, or a reply whose uuid counts the images. Without a card an image, and a file
always, is counted only if the reply brought an id, which Feishu may leave out
(`MayNotCount`). The card is updated between the kinds; when that raises, the
handler ends with what it has delivered (`UpdateFails`). A row's UPDATE from an expired DELIVERING to
RETRY happens only in the claim that takes it, so it is part of `ClaimDue`.

**RunInputs.** `finalize_internal_run_inputs` is several transactions and file
operations, and each is an action: the status is looked at (`Admit`), the
message gets the bridge's paths (`UpdateMessage`), each item is copied to its
digest's name, recorded and removed (`CopyInput`), the message gets the digests'
paths (`UpdatePaths`), the run is queued (`Queue`). A message is the set of
files it names; a file is known by its place in the request or by its digest.
`call[r].pc` is where the handler is; it may die anywhere (`HandlerDies`), and
the preparation timeout or a cancel may come in between. A run is finalized by
one request at a time; a client asks again after an answer or the end of its
connection.

**FeishuBridge.** `job[r]` is where `process_message` is, `stream[r]` the loop of
`stream_internal_run` on the bridge's connection, `heard[r]` what the bridge
took from it, `message[r]` the row of `messages`, `told[r]` what the user saw.
A message stands for its run, whose idempotency key is the message's digest. A
batch of events is heard when it is written; that a break loses the rest of a
batch is covered by the choice to take in less of it. The bridge's claim of a
message that it then ignores is one step. What a message comes with and what
another client sends are chosen from `Messages` and `Uploaded`. Executors,
cancels and the clock are those of `RunStore`, unconstrained. Card updates,
notices and the sender's profile appear only as calls that may fail; how
artifacts and rows of `deliveries` are handled is in `Delivery`.

**SessionBinding.** `ask[q]` is what a request asks for, `at[q]` the transaction
it stands before, `uses[q]` the session it was given. `get_or_create_compat_session`
is `LookUp` and `InsertNamed`; `create_session` is one transaction;
`bind_external_conversation` is `LookUpConversation`, `CreateSession` and `Bind`.
The INSERT that does nothing when the row is there, and the answer that is then
read back, are in `InsertNamed` and `Bind`. A session the server names is
called after the request that creates it. `Asks` lists what may be asked; the
four entries are `/chat` (and resolve with a session id), a `/v1` run in a
session, a new session, and a Feishu conversation.

**Conversation.** A request with a session imports the v1 file of its name, if
there is one (`LookForFile`, `Import`: no lock is taken), and queues a run. A
`task` is a thread in `execute_run_with_lease`: it waits for the session's lock,
takes its turn, reads the file and writes it with the turn appended, and
finishes under its lease if that is still in force. Of the leases of `RunStore`
only what turns depend on is kept: a session has one live lease, a task that
lost its lease goes on (`LoseLease`), a crash queues the leased runs again. A
turn is named by its request. `context[k]` is what the harness session `k`, a
pair of source and session, has been told; its being set stands for membership
in `_hydrated_sessions`. A turn has one of three `Ends`. Whether `run_turn`
appends it (an answer that is not empty, and ended `completed` or `max-tokens`:
`server.py:1927`) and whether its run fails (`turn_error`, `server.py:2031-2046`)
are decided apart: a turn may be `unkept`, its answer the result of a SUCCEEDED
run and not in the file, and an appended one may belong to a run that is CANCELED
or FAILED. `written`, `fresh` and `lost` are history variables: the turns
appended; those appended in this process, with the turns of a v1 file that an
import put in the place of others; the transcripts told with a prompt that the
harness session did not keep.

## What the runs check

| run | instance | states | checks |
|---|---|---|---|
| `run_store` | 2 runs of one session, 2 executors (symmetric), 2 leases per run, 1 repeatable event | 572 000 | the safety of the table, and that it implements `RunContract` |
| `worker` | 2 runs of one session, 1 fault (a shutdown is one), 1 more abandoned stream, 2 processes, 2 permits | 592 000 | permits, executions, attendance, whose events a log has; every submitted run ends, but for the exceptions below |
| `worker_cancel` | 1 run | | finds a canceled run that never ends |
| `worker_stream` | 1 run, 1 permit | | finds a permit lost to a client that left |
| `event_stream` | 1 run, batches of 2, 1 broken connection | 176 000 | prefix, end heard, end final |
| `delivery` | an image, an audio artifact and a text, with a card or without, 3 faults | 29 000 | shown, once, final, text gets through |
| `bridge` | 1 run: of a message with or without an image, or of a client with three files, two of them equal; 2 faults, 2 leases | 194 000 | inputs of executed runs, answers, the message table; every message settles |
| `bridge_media` | the same, no faults | | finds that a message with an attachment always fails |
| `bridge_errors` | the same, no faults | | finds a message replied to after an error event |
| `delivery_media` | an audio artifact and a file, no faults | | finds a reply that is suppressed and recorded as delivered |
| `conversation` | 2 requests, each any of 8 asks; a name with a v1 file of 2 turns, one Feishu conversation, 3 principals, 2 Agent versions, 2 models, 1 fault | 1 803 000 | one session per conversation, of the right owner, model and version; the file, with and without a v1 file; the remembered turns, what a turn knows |
| `conversation_import` | 2 requests for the name with a v1 file, no faults | | finds a turn that an import overwrites |

*Bounds.* Two runs of one session are the smallest instance in which
serialization can fail, and in which a queued run waits behind an active one;
runs of different sessions share nothing but permits. Two executors and two
leases give every run a stale and a current holder. In `worker` streams may be
abandoned `MaxAbandoned` times beyond `MaxFaults`: with one of each both permits
can go, so the case in which nothing is executed any more is in the instance.
`MaxEpoch` is `1 + MaxFaults + MaxAbandoned`: `RetriesNeedFaults` shows that the
bound on epochs is never what stops a lease, so liveness does not depend on it. `MaxRepeats` bounds what
callers may repeat for ever: events of a turn, cancel requests on an active run,
late finalizes. One such event distinguishes a log with from a log without.
In `event_stream` a `Limit` of 2 (200 in the code) makes the log longer than a
batch. In `bridge`, two equal files among three reach the skipping of repeated digests,
two faults a handler that dies and a retry, or a lost answer and a crash; runs
of different messages share only the thread pool.
Three faults in `delivery` allow a lost reply, a lost acknowledgement and
a crash in one behaviour. In `conversation` two requests are the smallest race
for a conversation, a name or a file; with a v1 file of two turns, `MaxTurns` 3
and `MaxBytes` 4 a second turn is trimmed by number or, as the turns differ in
size, by bytes; one fault gives a stale turn beside its successor, or a restart
between a turn and the next.

*Fairness.* `worker`: a task's thread runs, and a turn ends, because the harness
has a request timeout; the scheduler wakes at least every 0.25 s; heartbeat
threads run; time goes on. All four are weak fairness of a whole class of steps
(some task, some run), not of each task; runs are finite in number, so no claim
about starvation among endless arrivals is made. A process that is shut down
ends when its pool has (`SchedulerEnds \/ Exit`). `event_stream`: the request
thread loops, the connection delivers what is written, the client reconnects.
`bridge`: a thread of the pool and a handler of the worker run, the loop of the
stream goes on; its deadline comes, which is strong fairness of
`StreamTimesOut` because the loop is between its two transactions again and
again. Executors need not do anything: messages settle all the same.
`delivery`: handler and replay thread run, time passes. No fairness is assumed
for requests, cancels, faults or breaks. `conversation` checks no liveness and
has no fairness: that turns end is `worker`'s.

*Deadlock* is checked where the system always has a next step. It is not checked
in `delivery` and `delivery_media`, which end when everything is delivered, in
`conversation` and `conversation_import`, which end when every request has had
its turn, nor in `worker` and `worker_stream`, where lost permits may stop the
worker.

## Where code and documents disagree

Each is a run of its own, quoted under `findings` in `PROJECT.json`.

* A run that is canceled while running and loses its executor is queued again
  with its cancel flag set; no claim takes it and nothing ends it
  (`CanceledRunsEnd`).
* `/chat/stream` loses a permit and abandons a leased run if the client is gone
  before the worker is submitted (`LeasedRunsEnd`). As many such clients as there
  are permits, and the worker executes nothing until it is restarted.
* Of two first requests of a name with a v1 file, the slower may put the v1 file
  in the place of what the other's turn appended (`ImportOverwritesNothing` in
  `conversation_import`). The docstring of `import_legacy_conversation`
  (`control_plane.py:759`) says "Copy a v1 conversation once without overwriting
  session-owned state".
* The download replies of an audio artifact and of a file of one message have
  the same uuid (`DeliveredWasShown` in `delivery_media`).
* The bridge announces its media without the `workspace_path` that the worker
  requires: every message with an attachment is answered 400, fails, and leaves
  its run to the preparation timeout (`PreparedRunsProceed` in `bridge_media`).
* The bridge does not look at error events and replies with the deltas of a
  failed turn (`ErrorsAreFailures` in `bridge_errors`).

`SubmittedRunsEnd` in run `worker` says that every submitted run ends, with the
exceptions that the first two make: a run that is canceled and struck by a
fault, and behaviours in which all permits are gone for ever
(`<>[]PermitsGone`). `PermitsKept` adds that a permit is lost only to a fault.
`FileIsRecentHistory` is about files without a v1 file; `ImportedFileIsHistory`
about the others, whose oldest appended turns are what the import may cost.

What no document promises, or promises only in part, is no finding; the
properties except it by name, and the hazards say so:

* a turn that lost its lease goes on writing events to the log of the retried or
  ended run, because `append_event` compares no lease. `StaleUpdatesNeedFaults`
  shows that this takes a fault. `docs/tenant-session-runtime-design.md:307` ("The
  executor may update a run only while it holds the current lease epoch; a stale
  executor cannot overwrite a retried run") describes the target architecture,
  and of the row it holds: `ResultOfNewestLease`;
* a stream that ends, or is read, between a run's last batch and its last event
  closes without that event; a client that reconnects gets it (`EndIsHeard`),
  and the bridge, which does not reconnect, is in `MessagesSettle`;
* a loser of the race to bind a conversation gets the winner's session, with the
  winner's model and Agent version (`ResolvedAsAsked`);
* a turn that is cut short in another way than by `max-tokens`, or has no text,
  is not remembered although its run may be SUCCEEDED with that answer: "unkept"
  in `TurnsRemembered`;
* a turn that is retried after its lease was lost is remembered twice
  (`TurnsRemembered`);
* hydration is once per source, session and process: a turn of one source in
  between is not told to the other. If the harness does not keep the first prompt
  of a harness session, because its turn failed, what that prompt told is not
  told again. With three requests, v1 turns that were trimmed and are put back by
  a late import may be unknown to a harness session that was hydrated in between
  (`TurnsKnowHistory`);
* the bridge's message stays `processing` when the bridge dies (`MessagesSettle`
  excepts its restarts), and the run of a message that has failed may still be
  executed.

The third request is beyond the instance of run `conversation`: the case came up
in the proof of `TurnsInformed`, whose statement was false without that
exception, and TLC shows it with three requests. That there is no other is the
theorem.

## What is proved

The proofs hold for every set of runs, sessions, executors, requests and
messages, and any bounds, under the named assumptions on constants, which TLC
evaluates on every run. What a run checks on an instance as an invariant is
seldom inductive; each proof module states a strengthening, proves that it holds
initially and that every action keeps it, and derives the invariants from it.

**RunStoreProofs** (`RunsAssumption`: runs are naturals, NULL is no executor;
`BoundsAssumption`).

* `TypeCorrect`: `Spec => []TypeOK`, one step per action.
* `Invariance`: `Spec => []IInv`. `HeldByNewestLease` needs that the leases
  granted on a run are numbered without gaps in authority: none is newer than
  the row's epoch, and two leases with one number are the same lease
  (`LeasesNumbered`), and that an active row's holder is one of them
  (`ActiveHeld`). `ResultOfNewestLease` needs that a result is only ever written
  with the row's own epoch and that the epoch then stays (`RowOK`). `ClosedOnce`
  needs that a run without an outcome has an open log, which the two cancel
  branches and `finish_run` maintain. `IInv` is their conjunction with
  `OneActiveRunPerSession`.
* `SessionSerialized`, `NewestLeaseHolds`, `NewestLeaseWrites`,
  `LogClosedOnce`, `InputsFinalFirst` follow from `IInv`.
* `EndedRunsStay` and `CancelSticks`, the action properties, from `IInv` and a
  lemma on what each action does to each row (`StepRows`).
* `Refinement`: `Spec => ImplementsContract`. The mapping forgets executors,
  deadlines, manifests and logs; every step of the table moves every run along
  an edge of `RunContract` or leaves it, and `SessionSerialized` gives the
  contract's exclusiveness in the next state.

**WorkerProofs** (`WorkerAssumption`), over `IInv`. `WInv` adds, of the tasks:
what a task carries is a granted lease of its own, no two tasks carry the same,
and permits and tasks together are at most `MaxParallel`. That is enough for
`WorkerTypes` and `TasksFenced`. For `PermitsHeld`, `PermitsPaid` adds that until a
shutdown the permits that are missing are at most as many as the faults; a
restarted process begins with all of them. `RetriesExplained` needs an
account, `Paid`: every lease of a run but its latest cost a fault, and the latest
too once the run may be leased again. It is kept because a run whose lease is not
paid for is either over or `Secure`: a task of the living process holds it and
renews it. While a process is being shut down nothing is secure, and the shutdown
itself is the fault that pays. `ActiveRunsAttended` reads the same account
where there has been no fault. `UpdatesOfLease` has an invariant of its own,
`Unharmed`: before the first fault a task that has been leased holds the lease in
force of an active run, and nothing else appends updates.

**EventStreamProofs** (`StreamAssumption`), over `IInv`. `ReaderInv`: what the
client has received, followed by what is on the connection, is the beginning of
the log, and the server's cursor is the end of that. The table's steps keep it
because a log only grows; `Break` loses the connection's part and the client
resumes behind its own. `PrefixReceived` is the first half, `EndHeardOnce` is
`ClosedOnce` of the log read through it; `StreamTypes` needs both.

**DeliveryProofs** (`ItemsAssumption`), for lists of any length. `DInv`: a text is
shown exactly when Feishu knows its uuid; a media item is shown at most once and
not before the handler comes to it, which happens once; a row that is delivered, or
a thread about to report it, has had it shown. `Counted` bounds the counters
in the uuids by the handler's place, which `DeliveryTypes` needs. `UserSeesOnce`
and `RecordedStays` hold of every list. `RecordedWasShown` assumes that no two items
share a family of uuids (`Alone = Items`): without it the statement is false, as
`delivery_media` shows.

**FeishuBridgeProofs** (the assumptions of `RunStore`, `RunInputs` and
`FeishuBridge`), over `IInv`. `TableUnderBridge`: every step of the bridge, the
handlers and the executors is a step of `RunStore` or leaves the table alone, so
`RunStore`'s theorems hold of it. `BInv` has, for each run: what a finalize
request names is what the bridge or the client announced (`Requested`);
what the handler has recorded by the place it is at, and that a run executors can
have names exactly that (`Materialized`); a log that tells only of executions and
results in the row (`LogTells`); what the bridge heard of it (`Answers`); what
the message's row says by the place of its job (`Told`). `InputsComplete` holds
although the handler may die, be refused and be asked again, because
`Materialized` ties `Executable` to a handler that is not between `Admit` and
`Queue`. `AnswersAreResults`, `TableAgrees` and `MessagesHandledOnce` follow.

**ConversationProofs** (`NamesAssumption`, `MemoryAssumption`). `BindingInv`:
what a request has read in one transaction still holds in its next (`Pending`),
because rows of `sessions` are inserted once and never changed and the row a
request creates is its own; and whoever was given a conversation's session was
given the one it is bound to (`Bound`). `ConversationsResolved` and
`SessionsAsAsked` follow. `MemoryInv` counts, for each run, the copies of its turn
that are written, the tasks that may still write one, and one more if the run is
queued: together at most one more than the faults. A lease, a turn and its write
move the count from one term to the next, a lost lease or a crash adds one and is
a fault. With it goes that a task whose turn is `answered` has written, and a run
whose status is `answered` was finished by such a task: `TurnsKept`.

**TrimProofs.** `Bytes` is a recursive function and `Trim` a `CHOOSE` over it, so
what they return for every sequence seems to need induction over data. The
lemmas use that a non-empty set of naturals has a least element instead
(`LeastNat`, from the library's well-foundedness of the naturals): a sum that
does not exist, or a longest suffix that does not, would do so for a least
length. `TrimIsLongest` and `LongestIsTrim` characterise `Trim`: it is the
longest suffix of the turns that fits by number and by bytes, and every longest
suffix is it. `KeepTurns` is what the file needs: a turn appended to a trimmed
file and trimmed again is the same as the turn appended to the whole conversation
and trimmed once, because with one more turn no more of the old ones fit. So
nothing is lost by forgetting what was trimmed (`AppendToLoaded`).

**HistoryProofs** (the same assumptions as `ConversationProofs`).

* `TypesInvariance`: `CTypeOK`, with the types of the history and the fact that a
  turn takes place in a hydrated harness session, which `Answer` and `FailTurn`
  rely on when they add to what it knows. `ConversationTypes` follows.
* `HistoryInvariance`: `FileIsRecentHistory` and `ImportedFileIsHistory` are not
  inductive, since `WriteFile`
  replaces the file by a draft made earlier. `HistoryInv` adds that a session has
  one turn at a time (`OneTurn`, the lock), that its draft is the trimmed
  conversation with its own turn, whatever was imported since it read the file
  (`Drafted`), and that an import is pending only where there is a v1 file and
  the file exists once the import is past (`Importing`). A stale task is no
  exception: it holds the lock like any other. `FileIsHistory` and
  `ImportedFileHistory` follow: the file with no turn of `written` missing where
  there is nothing to import, with some of the oldest missing where there is.
* `KnowledgeInvariance`: `TurnsKnowHistory` speaks of the turns that are going on;
  inductive is the same of every harness session in use, of the file
  (`FileKnown`) and of the drafts (`DraftKnown`), with the fact that no harness
  session is in use whose v1 file has not been imported (`Hydrated`), and that
  `fresh` names turns that were written (`FreshWritten`). `TurnsInformed`
  follows; it has the exceptions named above and no others. What a prompt told and
  the harness session did not keep is in `lost`, and counts as told.

**Composition.** `TableUnderWorker` and `TableUnderBridge` say that what the
worker process, and what the bridge with the handlers and executors, do to the
run table are steps of `RunStore`, so that every theorem of `RunStoreProofs`
holds of both. For the worker this rests on `WInv`: a task only ever presents a
lease that was granted to it. `WorkerKeepsContract` and `BridgeKeepsContract`
compose it with `Refinement`: clients of either see the contract of
`RunContract`.

Every invariant and every action property of the passing runs is a theorem.
Only model-checked: the liveness properties (`SubmittedRunsEnd`, `EndIsHeard`,
`TextReachesUser`, `MessagesSettle`), which rest on fairness and `ENABLED`, out of
the provers' reach.

## Abstractions, and what is left out

* Names, messages, payloads, error texts, audit and usage rows do not appear.
* The columns left by the sweep that no guard reads (an expired run keeps
  `executor_id = NULL`; a finished run keeps its executor) follow the code;
  `started_at` and `finished_at` are left out.
* One worker process lives at a time, as the deployment has it; two processes on
  one database are covered in `RunStore`, whose executors are unconstrained.
* The queue of the thread pool is not modelled: the pool has as many threads as
  there are permits.
* The stream's `error` event `stream_timeout` and its pings are not in the log
  and not modelled in `EventStream`; the deadline is in `FeishuBridge`.
* `FeishuBridge` fetches all events at once; the batch of 200 is in `EventStream`.
  What it leads to, a stream that ends before its last events, is reached through
  events that are appended after the fetch.
* One finalize request of a run is handled at a time, and a client repeats its
  list as it was; the worker's HTTP threads would handle two at once, but no
  caller in the repository sends them.
* `event_seq` of a run is the length of its log, and no column of its row.
* `limit 20` of a claim of deliveries and the order of a claim are left out.
* One tenant and one Agent; `LOCAL_IDENTITY` is the admin, as configured by
  default. `/v1` is used with the session ids it issued. The owner in a binding's
  row is that of its session. Two different conversations share nothing.
* What a failed `harness.run` leaves in the harness session is unknown, so both
  possibilities are taken.

Not modelled, and why:

* *Run actions, usage and audit.* Rows that the callbacks of one turn insert and
  update, each under its own tool call's id, while the turn holds the session's
  lock; no other code path reads them back to decide anything. The events they
  append to the log are `AppendEvent` in `RunStore` and `Notify` in `Worker`, and
  what an exception in them does is `EndTurn` and `StepRaises`.
* *Artifacts.* Path checks and copies from the workspace under fresh names; a
  failure is `StepRaises` in `Worker`.
* *Card updates, the sender's profile, message parsing* (`bridge_core.py`,
  `profile.py`): pure functions of one message, or calls that may fail, which
  `FeishuBridge` has.
* *Model catalog and configuration*: read once at start-up.
* *Gateway and deployment scripts*: a stateless proxy; installation.

## Plan

Done, in this order: `RunContract` and `RunStore` with their proofs; `Worker`
over it; `EventStream` over it; `Delivery`; `RunInputs` and `FeishuBridge`;
`SessionBinding` and `Conversation`; the shutdown in `Worker` and the images in
`Delivery`; the proofs of all of these, the contents of a conversation's file
last.

What could be added:

1. `FeishuBridge` and `Delivery` in one module, so that the answer's deliveries
   begin where `process_message` does.
2. `Conversation` over `RunStore` instead of its short form of leases.
3. Several bridges on one worker, for the claims of deliveries.
4. `RunActions`, if actions are ever read by another thread than the turn's.
