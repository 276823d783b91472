------------------------- MODULE EventStreamProofs --------------------------
(***************************************************************************)
(* Theorems of EventStream, over the invariant of RunStore: for every set  *)
(* of runs and executors, every batch size and any number of breaks.       *)
(***************************************************************************)
EXTENDS EventStream, RunStoreProofs

-----------------------------------------------------------------------------
\* k continues l: it begins with the events of l.
Continues(k, l) == /\ Len(l) <= Len(k)
                   /\ \A i \in 1..Len(l) : k[i] = l[i]

(* Events are never taken from a log, nor changed in it.                   *)
LEMMA LogsGrow ==
  ASSUME TypeOK, [Next]_vars
  PROVE  \A r \in Runs : Continues(log'[r], log[r])
<1>type. log \in [Runs -> Seq(Event)]
  BY DEF TypeOK
<1>entry. \A k \in Kinds, e \in Nat : Entry(k, e) \in Event
  BY DEF Entry, Event
<1>kinds. {"preparing", "queued", "input.manifest", "status",
           "cancel.requested", "update", "done", "error"} = Kinds
  BY DEF Kinds
<1>same. ASSUME log' = log PROVE \A r \in Runs : Continues(log'[r], log[r])
  BY <1>same, <1>type DEF Continues
<1>commit. ASSUME NEW r \in Runs, NEW new, NEW es \in Seq(Event), Commit(r, new, es)
           PROVE  \A q \in Runs : Continues(log'[q], log[q])
  <2>1. \A q \in Runs : log[q] \in Seq(Event)
    BY <1>type
  <2>2. log'[r] = log[r] \o es /\ \A q \in Runs \ {r} : log'[q] = log[q]
    BY <1>commit, <1>type DEF Commit
  <2>3. Continues(log'[r], log[r])
    BY <2>1, <2>2 DEF Continues
  <2> QED BY <2>1, <2>2, <2>3 DEF Continues
<1>append. ASSUME NEW r \in Runs, NEW ev \in Event,
                  log' = [log EXCEPT ![r] = Append(@, ev)]
           PROVE  \A q \in Runs : Continues(log'[q], log[q])
  <2>1. \A q \in Runs : log[q] \in Seq(Event)
    BY <1>type
  <2>2. log'[r] = Append(log[r], ev) /\ \A q \in Runs \ {r} : log'[q] = log[q]
    BY <1>append, <1>type
  <2>3. Continues(log'[r], log[r])
    BY <2>1, <2>2 DEF Continues
  <2> QED BY <2>1, <2>2, <2>3 DEF Continues
<1>cancel. ASSUME NEW r \in Runs, Cancel(r)
           PROVE  \A q \in Runs : Continues(log'[q], log[q])
  <2>1. <<Entry("done", 0)>> \in Seq(Event) /\ <<Entry("cancel.requested", 0)>> \in Seq(Event)
    BY <1>entry, <1>kinds
  <2> QED BY <1>cancel, <2>1, <1>commit DEF Cancel
<1>grant. ASSUME NEW table \in [Runs -> Row], NEW r \in Runs, NEW e, Grant(table, r, e)
          PROVE  \A q \in Runs : Continues(log'[q], log[q])
  <2>1. table[r].epoch + 1 \in Nat
    BY DEF Row
  <2>2. Entry("status", table[r].epoch + 1) \in Event
    BY <2>1, <1>entry, <1>kinds
  <2> QED BY <1>grant, <2>2, <1>append DEF Grant
<1>lease. \A g \in grants : g.run \in Runs /\ g.epoch \in Nat
  BY DEF TypeOK, Lease
<1>1. ASSUME NEW r \in Runs, CreateRun(r)
      PROVE  \A q \in Runs : Continues(log'[q], log[q])
  <2>1. <<Entry("preparing", 0)>> \in Seq(Event) /\ <<Entry("queued", 0)>> \in Seq(Event)
    BY <1>entry, <1>kinds
  <2> QED BY <1>1, <2>1, <1>commit DEF CreateRun
<1>2. ASSUME NEW r \in Runs, FinalizeInputManifest(r)
      PROVE  \A q \in Runs : Continues(log'[q], log[q])
  <2>1. /\ <<Entry("input.manifest", 0), Entry("queued", 0)>> \in Seq(Event)
        /\ <<Entry("input.manifest", 0)>> \in Seq(Event)
    BY <1>entry, <1>kinds
  <2> QED BY <1>2, <2>1, <1>commit DEF FinalizeInputManifest
<1>3. ASSUME NEW r \in Runs, RequestCancel(r)
      PROVE  \A q \in Runs : Continues(log'[q], log[q])
  BY <1>3, <1>cancel DEF RequestCancel
<1>4. ASSUME NEW s \in Sessions, CancelLatestActiveRun(s)
      PROVE  \A q \in Runs : Continues(log'[q], log[q])
  BY <1>4, <1>cancel DEF CancelLatestActiveRun
<1>5. ASSUME NEW r \in Runs, NEW e \in Executors, ClaimRun(r, e)
      PROVE  \A q \in Runs : Continues(log'[q], log[q])
  BY <1>5, <1>grant DEF ClaimRun, TypeOK
<1>6. ASSUME NEW e \in Executors, ClaimNextRun(e)
      PROVE  \A q \in Runs : Continues(log'[q], log[q])
  <2> DEFINE swept == [r \in Runs |-> Sweep(row[r])]
  <2>1. swept \in [Runs -> Row]
    BY SweepType DEF TypeOK
  <2>2. Claimable(swept) \subseteq Runs
    BY DEF Claimable
  <2> HIDE DEF swept
  <2>3. \/ \E r \in Claimable(swept) : Grant(swept, r, e)
        \/ log' = log
    BY <1>6 DEF ClaimNextRun, swept
  <2> QED BY <2>1, <2>2, <2>3, <1>grant, <1>same
<1>7. ASSUME NEW g \in grants, MarkRunning(g)
      PROVE  \A q \in Runs : Continues(log'[q], log[q])
  <2>1. Entry("status", g.epoch) \in Event
    BY <1>lease, <1>entry, <1>kinds
  <2>2. <<Entry("status", g.epoch)>> \in Seq(Event)
    BY <2>1
  <2> QED BY <1>7, <2>2, <1>lease, <1>commit DEF MarkRunning
<1>8. ASSUME NEW g \in grants, NEW outcome \in Outcomes, FinishRun(g, outcome)
      PROVE  \A q \in Runs : Continues(log'[q], log[q])
  <2>1. <<Entry(IF outcome = "SUCCEEDED" THEN "done" ELSE "error", g.epoch)>> \in Seq(Event)
    BY <1>lease, <1>entry, <1>kinds
  <2> QED BY <1>8, <2>1, <1>lease, <1>commit DEF FinishRun
<1>9. ASSUME NEW g \in grants, AppendEvent(g)
      PROVE  \A q \in Runs : Continues(log'[q], log[q])
  <2>1. Entry("update", g.epoch) \in Event
    BY <1>lease, <1>entry, <1>kinds
  <2> QED BY <1>9, <2>1, <1>lease, <1>append DEF AppendEvent
<1>10. ASSUME NEW g \in grants, HeartbeatLease(g) PROVE log' = log
  BY <1>10 DEF HeartbeatLease
<1>11. ASSUME NEW r \in Runs, DeadlinePasses(r) PROVE log' = log
  BY <1>11 DEF DeadlinePasses
<1> QED BY <1>1, <1>2, <1>3, <1>4, <1>5, <1>6, <1>7, <1>8, <1>9, <1>10, <1>11,
           <1>same DEF Next, vars

-----------------------------------------------------------------------------
(* What the client has and what is on its way to it are, one after the     *)
(* other, the beginning of the log, and the loop's cursor is their end.    *)
Follows(l) == /\ Len(received) + Len(channel) <= Len(l)
              /\ \A i \in 1..Len(received) : received[i] = l[i]
              /\ \A i \in 1..Len(channel) : channel[i] = l[Len(received) + i]

ReaderInv == /\ received \in Seq(Event) /\ channel \in Seq(Event) /\ cursor \in Nat
             /\ Follows(log[Watched])
             /\ conn = "open" => cursor = Len(received) + Len(channel)

(* A log that grows is still followed.                                     *)
LEMMA StillFollowed ==
  ASSUME NEW l \in Seq(Event), NEW k \in Seq(Event), Continues(k, l),
         received \in Seq(Event), channel \in Seq(Event), Follows(l)
  PROVE  Follows(k)
  BY DEF Follows, Continues

(* The batch of events_after continues what was sent before it.            *)
LEMMA BatchFits ==
  ASSUME log[Watched] \in Seq(Event), ReaderInv, conn = "open", NEW batch,
         batch = After(cursor)
  PROVE  /\ batch \in Seq(Event)
         /\ cursor + Len(batch) <= Len(log[Watched])
         /\ \A i \in 1..Len(batch) : batch[i] = log[Watched][cursor + i]
<1> DEFINE l == log[Watched]
           last == IF cursor + Limit < Len(l) THEN cursor + Limit ELSE Len(l)
<1>1. cursor \in Nat /\ last \in Nat /\ cursor <= last /\ last <= Len(l)
  BY StreamAssumption DEF ReaderInv, Follows
<1>2. batch = SubSeq(l, cursor + 1, last)
  BY DEF After
<1> HIDE DEF last
<1>3. batch \in Seq(Event) /\ Len(batch) = last - cursor
  BY <1>1, <1>2
<1>4. \A i \in 1..Len(batch) : batch[i] = l[cursor + i]
  BY <1>1, <1>2, <1>3
<1> QED BY <1>1, <1>3, <1>4

(* The stream's invariant holds at the start.                              *)
LEMMA InitReader == SInit => IInv /\ ReaderInv
<1> SUFFICES ASSUME SInit PROVE IInv /\ ReaderInv
  OBVIOUS
<1>1. IInv
  BY InitInv DEF SInit
<1>2. log[Watched] = <<>>
  BY StreamAssumption DEF SInit, Init
<1> QED BY <1>1, <1>2 DEF SInit, ReaderInv, Follows

(* ... and through every step of the table, the server and the connection. *)
LEMMA StepReader == IInv /\ ReaderInv /\ [SNext]_svars => (IInv /\ ReaderInv)'
<1> SUFFICES ASSUME IInv, ReaderInv, [SNext]_svars PROVE (IInv /\ ReaderInv)'
  OBVIOUS
<1>1. [Next]_vars
  BY DEF SNext, svars, vars, Connect, Fetch, Check, Receive, Break
<1>2. IInv'
  BY <1>1, StepInv
<1>3. log[Watched] \in Seq(Event) /\ log'[Watched] \in Seq(Event)
  BY <1>2, StreamAssumption DEF IInv, TypeOK
<1>4. CASE UNCHANGED reader
  <2>1. Continues(log'[Watched], log[Watched])
    BY <1>1, LogsGrow, StreamAssumption DEF IInv
  <2>2. Follows(log'[Watched])
    BY <1>3, <2>1, StillFollowed DEF ReaderInv
  <2> QED BY <1>2, <1>4, <2>2 DEF ReaderInv, Follows, reader
<1>5. CASE Connect
  BY <1>2, <1>5 DEF Connect, Resume, ReaderInv, Follows
<1>6. CASE Fetch
  <2> DEFINE batch == After(cursor)
  <2>1. conn = "open"
    BY <1>6 DEF Fetch
  <2>2. /\ batch \in Seq(Event)
        /\ cursor + Len(batch) <= Len(log[Watched])
        /\ \A i \in 1..Len(batch) : batch[i] = log[Watched][cursor + i]
    BY <1>3, <2>1, BatchFits
  <2>3. /\ channel' = channel \o batch /\ cursor' = cursor + Len(batch)
        /\ received' = received /\ log' = log /\ conn' = conn
    BY <1>6 DEF Fetch
  <2> HIDE DEF batch
  <2>4. channel \in Seq(Event) /\ cursor = Len(received) + Len(channel)
        /\ received \in Seq(Event)
    BY <2>1 DEF ReaderInv
  <2>5. channel' \in Seq(Event) /\ Len(channel') = Len(channel) + Len(batch)
    BY <2>2, <2>3, <2>4
  <2>6. /\ \A i \in 1..Len(channel) : channel'[i] = channel[i]
        /\ \A i \in 1..Len(batch) : channel'[Len(channel) + i] = batch[i]
    BY <2>2, <2>3, <2>4
  <2>7. \A i \in 1..Len(channel') : channel'[i] = log[Watched][Len(received) + i]
    <3>1. TAKE i \in 1..Len(channel')
    <3>2. CASE i \in 1..Len(channel)
      BY <3>2, <2>6 DEF ReaderInv, Follows
    <3>3. CASE i \notin 1..Len(channel)
      <4>1. PICK j \in 1..Len(batch) : i = Len(channel) + j
        <5>1. i - Len(channel) \in 1..Len(batch)
          BY <3>3, <2>2, <2>4, <2>5
        <5> QED BY <5>1, <2>4
      <4>2. channel'[i] = batch[j] /\ Len(received) + i = cursor + j
        BY <4>1, <2>6, <2>4
      <4> QED BY <4>2, <2>2
    <3> QED BY <3>2, <3>3
  <2> QED BY <1>2, <2>2, <2>3, <2>4, <2>5, <2>7 DEF ReaderInv, Follows
<1>7. CASE Check
  BY <1>2, <1>7 DEF Check, ReaderInv, Follows
<1>8. CASE Receive
  <2>1. /\ received' = Append(received, Head(channel)) /\ channel' = Tail(channel)
        /\ channel # <<>> /\ cursor' = cursor /\ log' = log /\ conn' = conn
        /\ received \in Seq(Event) /\ channel \in Seq(Event)
    BY <1>8 DEF Receive, ReaderInv
  <2>2. /\ received' \in Seq(Event) /\ Len(received') = Len(received) + 1
        /\ channel' \in Seq(Event) /\ Len(channel') = Len(channel) - 1
    BY <2>1
  <2>3. \A i \in 1..Len(channel') : channel'[i] = channel[i + 1]
    BY <2>1
  <2>4. \A i \in 1..Len(channel') : channel'[i] = log[Watched][Len(received') + i]
    <3>1. TAKE i \in 1..Len(channel')
    <3>2. i + 1 \in 1..Len(channel) /\ Len(received') + i = Len(received) + (i + 1)
      BY <2>1, <2>2
    <3> QED BY <2>3, <3>2 DEF ReaderInv, Follows
  <2>5. \A i \in 1..Len(received') : received'[i] = log[Watched][i]
    <3>1. TAKE i \in 1..Len(received')
    <3>2. CASE i \in 1..Len(received)
      BY <2>1, <3>2 DEF ReaderInv, Follows
    <3>3. CASE i = Len(received) + 1
      <4>1. 1 \in 1..Len(channel) /\ received'[i] = channel[1]
        BY <2>1, <3>3
      <4> QED BY <3>3, <4>1 DEF ReaderInv, Follows
    <3> QED BY <2>1, <2>2, <3>2, <3>3
  <2>6. /\ Len(received') + Len(channel') = Len(received) + Len(channel)
        /\ received' \in Seq(Event) /\ channel' \in Seq(Event)
    BY <2>1, <2>2
  <2> QED BY <1>2, <2>1, <2>4, <2>5, <2>6 DEF ReaderInv, Follows
<1>9. CASE Break
  BY <1>2, <1>9 DEF Break, ReaderInv, Follows
<1> QED BY <1>4, <1>5, <1>6, <1>7, <1>8, <1>9 DEF SNext, svars, reader

(* The invariant of the stream, over the table's.                          *)
THEOREM ReaderInvariance == SSpec => [](IInv /\ ReaderInv)
<1>1. SInit /\ [][SNext]_svars => [](IInv /\ ReaderInv)
  BY InitReader, StepReader, PTL
<1> QED BY <1>1, PTL DEF SSpec

(* Across timeouts and broken connections, whatever the size of a batch    *)
(* and whoever writes to the log, the client has a prefix of it.           *)
THEOREM PrefixReceived == SSpec => []ReceivedIsPrefix
<1>1. IInv /\ ReaderInv => ReceivedIsPrefix
  <2> SUFFICES ASSUME IInv, ReaderInv PROVE ReceivedIsPrefix
    OBVIOUS
  <2>1. log[Watched] \in Seq(Event) /\ received \in Seq(Event)
    BY StreamAssumption DEF IInv, TypeOK, ReaderInv
  <2>2. Len(received) <= Len(log[Watched]) /\ Len(channel) \in Nat
    BY <2>1 DEF ReaderInv, Follows
  <2>3. \A i \in 1..Len(received) : received[i] = log[Watched][i]
    BY DEF ReaderInv, Follows
  <2> QED BY <2>1, <2>2, <2>3 DEF ReceivedIsPrefix
<1> QED BY <1>1, ReaderInvariance, PTL

(* A client that has heard the end may rely on it: the log closes only     *)
(* when the run ends, and the client has what is in the log.               *)
THEOREM EndHeardOnce == SSpec => []HeardEndIsFinal
<1>1. IInv /\ ReaderInv => HeardEndIsFinal
  <2> SUFFICES ASSUME IInv, ReaderInv, Heard
               PROVE  row[Watched].status \in Outcomes
    BY DEF HeardEndIsFinal
  <2>1. PICK i \in DOMAIN received : received[i].kind \in Closing
    BY DEF Heard
  <2>2. i \in 1..Len(log[Watched]) /\ log[Watched][i].kind \in Closing
    BY <2>1 DEF ReaderInv, Follows
  <2>3. Closings(log[Watched]) # {}
    BY <2>2 DEF Closings
  <2> QED BY <2>3, StreamAssumption DEF IInv, ClosedOnce
<1> QED BY <1>1, ReaderInvariance, PTL

(* The connection, the server's loop and the client keep their types.      *)
THEOREM StreamTypes == SSpec => []STypeOK
<1> DEFINE Loop == /\ conn \in {"none", "open", "timedout", "ended"}
                   /\ pc \in {"fetch", "check"}
                   /\ breaks \in 0..MaxBreaks
<1>1. SInit => Loop
  BY StreamAssumption DEF SInit
<1>2. Loop /\ [SNext]_svars => Loop'
  BY StreamAssumption DEF SNext, Connect, Fetch, Check, Receive, Break, reader, svars
<1>3. IInv /\ ReaderInv /\ Loop => STypeOK
  BY DEF IInv, ReaderInv, STypeOK
<1>4. SInit /\ [][SNext]_svars => []Loop
  <2> HIDE DEF Loop
  <2> QED BY <1>1, <1>2, PTL
<1> HIDE DEF Loop
<1> QED BY <1>3, <1>4, ReaderInvariance, PTL DEF SSpec
=============================================================================
