---------------------------- MODULE EventStream -----------------------------
(***************************************************************************)
(* One client that follows a run's durable event log over SSE:             *)
(* stream_run_events (and stream_internal_run) of server.py over the       *)
(* tables of RunStore.  Each turn of the server's loop is two transactions *)
(* with writers between them: events_after, whose rows are written to the  *)
(* connection, and get_run, whose status decides whether to go on.  A      *)
(* connection that breaks loses what is in flight; the client comes back   *)
(* with the id of the last event it received (Last-Event-ID).              *)
(***************************************************************************)
EXTENDS RunStore

CONSTANTS
  Watched,    \* the run that is followed
  Limit,      \* LIMIT of events_after: 200 in the code
  MaxBreaks   \* bound: broken connections

ASSUME StreamAssumption == /\ Watched \in Runs
                           /\ Limit \in Nat \ {0} /\ MaxBreaks \in Nat

VARIABLES
  conn,      \* "none", "open", "timedout", or "ended": the server saw a
             \* terminal status and closed
  pc,        \* the open connection is about to "fetch" events or to "check" the run
  cursor,    \* last_event_id of the server's loop
  channel,   \* events written and not yet received
  received,  \* events the client has
  breaks

reader == <<conn, pc, cursor, channel, received, breaks>>
svars == <<row, log, grants, conn, pc, cursor, channel, received, breaks>>

SInit == /\ Init
         /\ conn = "none" /\ pc = "fetch" /\ cursor = 0
         /\ channel = <<>> /\ received = <<>> /\ breaks = 0

Heard == \E i \in DOMAIN received : received[i].kind \in Closing

-----------------------------------------------------------------------------
ResumeAtCursor == cursor' = cursor
ResumeBefore == cursor' = Len(received) - 1

\* Where a connection starts: after the last event the client has.
Resume == cursor' = Len(received)

\* get_run succeeds, the response starts.  A client that has heard the end
\* does not come back; one whose stream closed first receives what it holds.
Connect == /\ conn # "open" /\ channel = <<>>
           /\ row[Watched].status # "ABSENT" /\ ~Heard
           /\ conn' = "open" /\ pc' = "fetch"
           /\ Resume
           /\ UNCHANGED <<row, log, grants, channel, received, breaks>>

AfterInclusive(e) ==
  SubSeq(log[Watched], IF e = 0 THEN 1 ELSE e, Len(log[Watched]))

\* events_after: event ids are positions in the log.
After(e) == LET last == IF e + Limit < Len(log[Watched]) THEN e + Limit
                                                         ELSE Len(log[Watched])
            IN SubSeq(log[Watched], e + 1, last)

\* The batch is read and written out; last_event_id follows.
Fetch == /\ conn = "open" /\ pc = "fetch"
         /\ channel' = channel \o After(cursor)
         /\ cursor' = cursor + Len(After(cursor))
         /\ pc' = "check"
         /\ UNCHANGED <<row, log, grants, conn, received, breaks>>

\* get_run: a terminal status closes the stream, its deadline too, or the
\* loop sleeps and goes on.
Check == /\ conn = "open" /\ pc = "check"
         /\ \/ row[Watched].status \in Terminal /\ conn' = "ended"
            \/ row[Watched].status \notin Terminal /\ conn' \in {"open", "timedout"}
         /\ pc' = "fetch"
         /\ UNCHANGED <<row, log, grants, cursor, channel, received, breaks>>

Receive == /\ channel # <<>>
           /\ received' = Append(received, Head(channel))
           /\ channel' = Tail(channel)
           /\ UNCHANGED <<row, log, grants, conn, pc, cursor, breaks>>

Break == /\ conn = "open" /\ breaks < MaxBreaks
         /\ conn' = "none" /\ channel' = <<>>
         /\ breaks' = breaks + 1
         /\ UNCHANGED <<row, log, grants, pc, cursor, received>>

SNext == \/ Next /\ UNCHANGED reader
         \/ Connect
         \/ Fetch
         \/ Check
         \/ Receive
         \/ Break

\* The request thread loops, the connection delivers, the client reconnects.
SSpec == /\ SInit /\ [][SNext]_svars
         /\ WF_svars(Connect) /\ WF_svars(Fetch) /\ WF_svars(Check)
         /\ WF_svars(Receive)

-----------------------------------------------------------------------------
(* Properties                                                              *)

STypeOK == /\ TypeOK
           /\ conn \in {"none", "open", "timedout", "ended"}
           /\ pc \in {"fetch", "check"}
           /\ cursor \in Nat /\ breaks \in 0..MaxBreaks
           /\ channel \in Seq(Event) /\ received \in Seq(Event)

(* Across timeouts and broken connections the client has a prefix of the    *)
(* durable log: nothing twice, nothing skipped, nothing out of order.       *)
ReceivedIsPrefix == /\ Len(received) <= Len(log[Watched])
                    /\ received = SubSeq(log[Watched], 1, Len(received))

(* A client that has heard "done" or "error" may rely on it: the run has    *)
(* ended and is not retried behind its back.                                *)
HeardEndIsFinal == Heard => row[Watched].status \in Outcomes

(* A client that keeps coming back hears the end of every run that reaches  *)
(* an outcome, however its connections time out or break.                   *)
EndIsHeard == row[Watched].status \in Outcomes ~> Heard
=============================================================================
