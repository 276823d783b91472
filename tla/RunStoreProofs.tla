--------------------------- MODULE RunStoreProofs ---------------------------
(***************************************************************************)
(* Theorems of RunStore, for every set of runs, sessions and executors and *)
(* every bound.                                                            *)
(***************************************************************************)
EXTENDS RunStore, TLAPS

-----------------------------------------------------------------------------
(* The sweep keeps a row a row, and changes only its status, its executor  *)
(* and its deadline.                                                       *)
LEMMA SweepType == ASSUME NEW w \in Row PROVE Sweep(w) \in Row
  BY DEF Sweep, Row, Statuses, Active, Terminal

LEMMA SweepFields ==
  ASSUME NEW w \in Row
  PROVE  /\ Sweep(w).epoch = w.epoch
         /\ Sweep(w).cancel = w.cancel
         /\ Sweep(w).result = w.result
         /\ Sweep(w).manifest = w.manifest
  BY DEF Sweep, Row

LEMMA LeasedType ==
  ASSUME NEW w \in Row, NEW e \in Executors PROVE Leased(w, e) \in Row
<1>1. w.epoch + 1 \in Nat /\ "LEASED" \in Statuses /\ e \in Executors \cup {None}
  BY DEF Row, Statuses, Active
<1> QED BY <1>1 DEF Leased, Row

LEMMA EntryType ==
  ASSUME NEW k \in Kinds, NEW e \in Nat
  PROVE  Entry(k, e) \in Event /\ <<Entry(k, e)>> \in Seq(Event)
  BY DEF Entry, Event

(* Appending well-typed events to a run's log keeps the logs well typed.   *)
LEMMA LogType ==
  ASSUME log \in [Runs -> Seq(Event)], NEW r \in Runs, NEW es \in Seq(Event)
  PROVE  [log EXCEPT ![r] = @ \o es] \in [Runs -> Seq(Event)]
  OBVIOUS

LEMMA CommitType ==
  ASSUME TypeOK, NEW r \in Runs, NEW new \in Row, NEW es \in Seq(Event),
         Commit(r, new, es), UNCHANGED grants
  PROVE  TypeOK'
  BY LogType DEF TypeOK, Commit

LEMMA GrantType ==
  ASSUME TypeOK, NEW table \in [Runs -> Row], NEW r \in Runs,
         NEW e \in Executors, Grant(table, r, e)
  PROVE  TypeOK'
<1>1. Leased(table[r], e) \in Row
  BY LeasedType
<1>2. row' \in [Runs -> Row]
  BY <1>1 DEF Grant
<1>3. table[r].epoch + 1 \in Nat
  BY DEF Row
<1>4. Entry("status", table[r].epoch + 1) \in Event
  BY <1>3 DEF Entry, Event, Kinds
<1>5. log' \in [Runs -> Seq(Event)]
  BY <1>4 DEF Grant, TypeOK
<1>6. grants' \subseteq Lease
  BY <1>3 DEF Grant, TypeOK, Lease
<1> QED BY <1>2, <1>5, <1>6 DEF TypeOK

LEMMA InitType == Init => TypeOK
  BY DEF Init, TypeOK, NewRow, Row, Statuses, Active, Terminal

LEMMA StepType == TypeOK /\ [Next]_vars => TypeOK'
<1> SUFFICES ASSUME TypeOK, [Next]_vars PROVE TypeOK'
  OBVIOUS
<1> USE DEF Statuses, Active, Terminal
<1>kinds. /\ \A k \in Kinds, e \in Nat : <<Entry(k, e)>> \in Seq(Event)
          /\ <<Entry("input.manifest", 0), Entry("queued", 0)>> \in Seq(Event)
          /\ {"preparing", "queued", "input.manifest", "status",
              "cancel.requested", "update", "done", "error"} = Kinds
  BY EntryType DEF Kinds
<1>row. \A r \in Runs : row[r] \in Row
  BY DEF TypeOK
<1>grant. \A g \in grants : /\ g.run \in Runs /\ row[g.run] \in Row
                            /\ g.epoch \in Nat /\ g.executor \in Executors
  BY DEF TypeOK, Lease
<1>1. ASSUME NEW r \in Runs, CreateRun(r) PROVE TypeOK'
  <2>1. [NewRow EXCEPT !.status = "PREPARING", !.deadline = "ahead"] \in Row
    BY DEF NewRow, Row
  <2>2. [NewRow EXCEPT !.status = "QUEUED", !.manifest = "FINALIZED"] \in Row
    BY DEF NewRow, Row
  <2>3. QED BY <1>1, <2>1, <2>2, <1>kinds, CommitType DEF CreateRun
<1>2. ASSUME NEW r \in Runs, FinalizeInputManifest(r) PROVE TypeOK'
  <2>1. [row[r] EXCEPT !.manifest = "FINALIZED", !.status = "QUEUED",
                       !.deadline = "none"] \in Row
    BY <1>row DEF Row
  <2>2. [row[r] EXCEPT !.manifest = "FINALIZED"] \in Row
    BY <1>row DEF Row
  <2>3. QED BY <1>2, <2>1, <2>2, <1>kinds, CommitType DEF FinalizeInputManifest
<1>cancel. ASSUME NEW r \in Runs, Cancel(r), UNCHANGED grants PROVE TypeOK'
  <2>1. [row[r] EXCEPT !.status = "CANCELED", !.cancel = TRUE,
                       !.deadline = "none"] \in Row
    BY <1>row DEF Row
  <2>2. [row[r] EXCEPT !.cancel = TRUE] \in Row
    BY <1>row DEF Row
  <2>3. QED BY <1>cancel, <2>1, <2>2, <1>kinds, CommitType DEF Cancel
<1>3. ASSUME NEW r \in Runs, RequestCancel(r) PROVE TypeOK'
  BY <1>3, <1>cancel DEF RequestCancel
<1>4. ASSUME NEW s \in Sessions, CancelLatestActiveRun(s) PROVE TypeOK'
  BY <1>4, <1>cancel DEF CancelLatestActiveRun
<1>5. ASSUME NEW r \in Runs, NEW e \in Executors, ClaimRun(r, e) PROVE TypeOK'
  BY <1>5, GrantType DEF ClaimRun, TypeOK
<1>6. ASSUME NEW e \in Executors, ClaimNextRun(e) PROVE TypeOK'
  <2> DEFINE swept == [r \in Runs |-> Sweep(row[r])]
  <2>1. swept \in [Runs -> Row]
    BY <1>row, SweepType
  <2>2. ASSUME NEW r \in Claimable(swept), Grant(swept, r, e) PROVE TypeOK'
    BY <2>1, <2>2, GrantType DEF Claimable
  <2>3. CASE row' = swept /\ UNCHANGED <<log, grants>>
    BY <2>1, <2>3 DEF TypeOK
  <2>4. QED BY <1>6, <2>2, <2>3 DEF ClaimNextRun
<1>7. ASSUME NEW g \in grants, MarkRunning(g) PROVE TypeOK'
  <2>1. [row[g.run] EXCEPT !.status = "RUNNING", !.deadline = "ahead"] \in Row
    BY <1>grant DEF Row
  <2>2. QED BY <1>7, <1>grant, <2>1, <1>kinds, CommitType DEF MarkRunning
<1>8. ASSUME NEW g \in grants, HeartbeatLease(g) PROVE TypeOK'
  <2>1. [row[g.run] EXCEPT !.deadline = "ahead"] \in Row
    BY <1>grant DEF Row
  <2>2. QED BY <1>8, <1>grant, <2>1 DEF HeartbeatLease, TypeOK
<1>9. ASSUME NEW g \in grants, NEW outcome \in Outcomes, FinishRun(g, outcome)
      PROVE  TypeOK'
  <2>1. [row[g.run] EXCEPT !.status = outcome, !.deadline = "none",
                           !.result = g.epoch] \in Row
    BY <1>grant DEF Row, Outcomes
  <2>2. QED BY <1>9, <1>grant, <2>1, <1>kinds, CommitType DEF FinishRun
<1>10. ASSUME NEW g \in grants, AppendEvent(g) PROVE TypeOK'
  BY <1>10, <1>grant, EntryType DEF AppendEvent, TypeOK, Kinds
<1>11. ASSUME NEW r \in Runs, DeadlinePasses(r) PROVE TypeOK'
  BY <1>11, <1>row DEF DeadlinePasses, TypeOK, Row
<1>12. CASE UNCHANGED vars
  BY <1>12 DEF TypeOK, vars
<1> QED
  BY <1>1, <1>2, <1>3, <1>4, <1>5, <1>6, <1>7, <1>8, <1>9, <1>10, <1>11, <1>12
  DEF Next

(* The columns of the run table, the event log and the granted leases keep *)
(* their types.                                                            *)
THEOREM TypeCorrect == Spec => []TypeOK
<1>1. QED BY InitType, StepType, PTL DEF Spec

-----------------------------------------------------------------------------
(* The inductive invariant.                                                *)

(* A transaction on one row leaves the other rows alone.                   *)
LEMMA CommitRow ==
  ASSUME TypeOK, NEW r \in Runs, NEW new, NEW es, Commit(r, new, es)
  PROVE  /\ row'[r] = new /\ log'[r] = log[r] \o es
         /\ \A q \in Runs \ {r} : row'[q] = row[q] /\ log'[q] = log[q]
  BY DEF Commit, TypeOK

LEMMA SweepOK ==
  ASSUME NEW w \in Row, RowOK(w)
  PROVE  /\ RowOK(Sweep(w))
         /\ Sweep(w).status \in Active =>
               w.status \in Active /\ Sweep(w).executor = w.executor
         /\ Sweep(w).status \in Outcomes <=> w.status \in Outcomes
         /\ w.status \in Terminal => Sweep(w) = w
  BY DEF Sweep, Row, RowOK, Statuses, Active, Terminal, Outcomes

(* Steps that grant nothing keep what relates rows and leases, when no row *)
(* changes its epoch and none becomes active or changes hands.             *)
LEMMA LeasesKept ==
  ASSUME IInv, TypeOK', grants' = grants,
         \A r \in Runs :
           /\ row'[r].epoch = row[r].epoch
           /\ row'[r].status \in Active =>
                row[r].status \in Active /\ row'[r].executor = row[r].executor
  PROVE  OneActiveRunPerSession' /\ LeasesNumbered' /\ ActiveHeld'
<1>1. OneActiveRunPerSession'
  BY DEF IInv, OneActiveRunPerSession
<1>2. LeasesNumbered'
  BY DEF IInv, LeasesNumbered, TypeOK, Lease
<1>3. ActiveHeld'
  BY DEF IInv, ActiveHeld, Holds
<1> QED BY <1>1, <1>2, <1>3

(* Events that do not close a log leave its closing events where they were.*)
LEMMA AppendOpen ==
  ASSUME NEW l \in Seq(Event), NEW es \in Seq(Event),
         \A i \in 1..Len(es) : es[i].kind \notin Closing
  PROVE  Closings(l \o es) = Closings(l)
  BY DEF Closings

LEMMA AppendClosing ==
  ASSUME NEW l \in Seq(Event), NEW ev \in Event, ev.kind \in Closing,
         Closings(l) = {}
  PROVE  Closings(l \o <<ev>>) = {Len(l) + 1}
  BY DEF Closings

(* What a row may become without a grant: it keeps its epoch and, if it is *)
(* active, it was active before, under the same executor.                  *)
Tame(a, b) == /\ RowOK(b)
              /\ b.epoch = a.epoch
              /\ b.status \in Active => a.status \in Active /\ b.executor = a.executor

(* One row is rewritten, events that close nothing are appended, and the   *)
(* run reaches no outcome by it.                                           *)
LEMMA CommitOpen ==
  ASSUME IInv, NEW r \in Runs, NEW new \in Row, NEW es \in Seq(Event),
         \A i \in 1..Len(es) : es[i].kind \notin Closing,
         Commit(r, new, es), grants' = grants, Tame(row[r], new),
         new.status \in Outcomes <=> row[r].status \in Outcomes
  PROVE  IInv'
<1>1. TypeOK /\ TypeOK'
  BY CommitType DEF IInv
<1>2. /\ row'[r] = new /\ log'[r] = log[r] \o es
      /\ \A q \in Runs \ {r} : row'[q] = row[q] /\ log'[q] = log[q]
  BY <1>1, CommitRow
<1>3. \A q \in Runs : Tame(row[q], row'[q])
  BY <1>2 DEF Tame, IInv
<1>4. OneActiveRunPerSession' /\ LeasesNumbered' /\ ActiveHeld'
  BY <1>1, <1>3, LeasesKept DEF Tame
<1>5. Closings(log'[r]) = Closings(log[r])
  BY <1>1, <1>2, AppendOpen DEF TypeOK
<1>6. ClosedOnce'
  BY <1>2, <1>5 DEF IInv, ClosedOnce
<1> QED BY <1>1, <1>3, <1>4, <1>6 DEF IInv, Tame

(* One row reaches its outcome, and one closing event is appended.         *)
LEMMA CommitClosing ==
  ASSUME IInv, NEW r \in Runs, NEW new \in Row, NEW ev \in Event,
         ev.kind \in Closing, Commit(r, new, <<ev>>), grants' = grants,
         Tame(row[r], new),
         new.status \in Outcomes, row[r].status \notin Outcomes
  PROVE  IInv'
<1>1. TypeOK /\ TypeOK'
  <2>1. <<ev>> \in Seq(Event)
    OBVIOUS
  <2>2. QED BY <2>1, CommitType DEF IInv
<1>2. /\ row'[r] = new /\ log'[r] = log[r] \o <<ev>>
      /\ \A q \in Runs \ {r} : row'[q] = row[q] /\ log'[q] = log[q]
  BY <1>1, CommitRow
<1>3. \A q \in Runs : Tame(row[q], row'[q])
  BY <1>2 DEF Tame, IInv
<1>4. OneActiveRunPerSession' /\ LeasesNumbered' /\ ActiveHeld'
  BY <1>1, <1>3, LeasesKept DEF Tame
<1>5. Closings(log[r]) = {}
  BY DEF IInv, ClosedOnce
<1>6. Closings(log'[r]) = {Len(log[r]) + 1}
  BY <1>1, <1>2, <1>5, AppendClosing DEF TypeOK
<1>7. ClosedOnce'
  <2>1. /\ \A i, j \in Closings(log'[r]) : i = j
        /\ Closings(log'[r]) # {} /\ row'[r].status \in Outcomes
    BY <1>2, <1>6
  <2>2. QED BY <1>2, <2>1 DEF IInv, ClosedOnce
<1> QED BY <1>1, <1>3, <1>4, <1>7 DEF IInv, Tame

(* Rows change and nothing is logged.                                      *)
LEMMA RowsOnly ==
  ASSUME IInv, TypeOK', UNCHANGED <<log, grants>>,
         \A r \in Runs :
           /\ Tame(row[r], row'[r])
           /\ row'[r].status \in Outcomes <=> row[r].status \in Outcomes
  PROVE  IInv'
<1>1. OneActiveRunPerSession' /\ LeasesNumbered' /\ ActiveHeld'
  BY LeasesKept DEF Tame
<1>2. ClosedOnce'
  BY DEF IInv, ClosedOnce
<1> QED BY <1>1, <1>2 DEF IInv, Tame

(* A lease is granted, on the table the sweep left or on the one it found. *)
LEMMA GrantKeepsInv ==
  ASSUME IInv, NEW table \in [Runs -> Row],
         \A q \in Runs :
           /\ Tame(row[q], table[q])
           /\ table[q].status \in Outcomes <=> row[q].status \in Outcomes,
         NEW r \in Claimable(table), NEW e \in Executors, Grant(table, r, e)
  PROVE  IInv'
<1> DEFINE n == table[r].epoch + 1
           new == [run |-> r, epoch |-> n, executor |-> e]
<1>1. TypeOK /\ TypeOK' /\ r \in Runs
  BY GrantType DEF IInv, Claimable
<1>2. table[r] \in Row /\ n \in Nat /\ n = row[r].epoch + 1
  BY <1>1 DEF Row, Tame
<1>3. /\ row'[r] = Leased(table[r], e)
      /\ \A q \in Runs \ {r} : row'[q] = table[q]
      /\ log'[r] = log[r] \o <<Entry("status", n)>>
      /\ \A q \in Runs \ {r} : log'[q] = log[q]
      /\ grants' = grants \cup {new}
  BY <1>1 DEF Grant, TypeOK
<1>4. /\ row'[r].status = "LEASED" /\ row'[r].epoch = n
      /\ row'[r].executor = e /\ row'[r].manifest = table[r].manifest
      /\ row'[r].result = table[r].result
  BY <1>2, <1>3 DEF Leased, Row
<1>5. table[r].status = "QUEUED"
  BY DEF Claimable
<1>6. OneActiveRunPerSession'
  <2>1. \A q \in Runs \ {r} : SessionOf[q] = SessionOf[r] => row'[q].status \notin Active
    BY <1>3 DEF Claimable, SessionIdle
  <2>2. \A q \in Runs \ {r} : row'[q].status \in Active => row[q].status \in Active
    BY <1>3 DEF Tame
  <2>3. QED BY <1>1, <2>1, <2>2 DEF IInv, OneActiveRunPerSession
<1>7. \A q \in Runs : RowOK(row'[q])
  <2>1. RowOK(row'[r])
    BY <1>1, <1>2, <1>4, <1>5 DEF RowOK, Tame, Outcomes, Active, Terminal
  <2>2. QED BY <1>3, <2>1 DEF Tame
<1>8. LeasesNumbered'
  <2>1. \A g \in grants : /\ g.run \in Runs /\ g.epoch \in Nat /\ 0 < g.epoch
                         /\ row[g.run].epoch \in Nat /\ g.epoch <= row[g.run].epoch
    BY <1>1 DEF IInv, LeasesNumbered, TypeOK, Lease, Row
  <2>2. \A g \in grants : g.run = r => g.epoch < n
    BY <1>2, <2>1 DEF TypeOK, Row
  <2>3. \A g \in grants : row[g.run].epoch <= row'[g.run].epoch
    <3>1. ASSUME NEW g \in grants, g.run = r PROVE row[g.run].epoch <= row'[g.run].epoch
      BY <1>2, <1>4, <2>1, <3>1
    <3>2. ASSUME NEW g \in grants, g.run # r PROVE row'[g.run].epoch = row[g.run].epoch
      BY <1>3, <2>1, <3>2 DEF Tame
    <3>3. QED BY <2>1, <3>1, <3>2
  <2>4. \A g \in grants' : 0 < g.epoch /\ g.epoch <= row'[g.run].epoch
    <3>1. ASSUME NEW g \in grants PROVE g.epoch <= row'[g.run].epoch
      <4>1. row'[g.run].epoch \in Nat
        BY <1>1, <2>1 DEF TypeOK, Row
      <4>2. QED BY <2>1, <2>3, <4>1
    <3>2. 0 < new.epoch /\ new.epoch <= row'[new.run].epoch
      BY <1>2, <1>4, <1>1 DEF TypeOK, Row
    <3>3. QED BY <1>3, <2>1, <3>1, <3>2
  <2>5. \A g, h \in grants' : g.run = h.run /\ g.epoch = h.epoch => g = h
    BY <1>3, <2>2, <1>2 DEF IInv, LeasesNumbered
  <2>6. QED BY <2>4, <2>5 DEF LeasesNumbered
<1>9. ActiveHeld'
  <2>1. ASSUME NEW q \in Runs \ {r}, row'[q].status \in Active
        PROVE  \E g \in grants' : g.run = q /\ Holds(g)'
    <3>1. /\ row[q].status \in Active /\ row'[q].executor = row[q].executor
          /\ row'[q].epoch = row[q].epoch
      BY <1>3, <2>1 DEF Tame
    <3>2. PICK g \in grants : g.run = q /\ Holds(g)
      BY <3>1 DEF IInv, ActiveHeld
    <3>3. QED BY <1>3, <3>1, <3>2 DEF Holds
  <2>2. new \in grants' /\ new.run = r /\ Holds(new)'
    BY <1>3, <1>4 DEF Holds
  <2>3. QED BY <2>1, <2>2 DEF ActiveHeld
<1>10. ClosedOnce'
  <2> DEFINE es == <<Entry("status", n)>>
  <2>1. es \in Seq(Event) /\ \A i \in 1..Len(es) : es[i].kind \notin Closing
    BY <1>2 DEF Entry, Event, Kinds, Closing
  <2>2. Closings(log'[r]) = Closings(log[r])
    <3>1. log[r] \in Seq(Event) /\ log'[r] = log[r] \o es
      BY <1>1, <1>3 DEF TypeOK
    <3> HIDE DEF es
    <3>2. QED BY <2>1, <3>1, AppendOpen
  <2>3. \A q \in Runs : row'[q].status \in Outcomes <=> row[q].status \in Outcomes
    BY <1>1, <1>3, <1>4, <1>5 DEF Outcomes
  <2>4. QED BY <1>3, <2>2, <2>3 DEF IInv, ClosedOnce
<1> QED BY <1>1, <1>6, <1>7, <1>8, <1>9, <1>10 DEF IInv

LEMMA InitInv == Init => IInv
  BY InitType DEF Init, IInv, OneActiveRunPerSession, RowOK, LeasesNumbered,
     ActiveHeld, ClosedOnce, Closings, NewRow, Active, Terminal, Outcomes

LEMMA StepInv == IInv /\ [Next]_vars => IInv'
<1> SUFFICES ASSUME IInv, [Next]_vars PROVE IInv'
  OBVIOUS
<1> USE DEF Active, Terminal, Outcomes
<1>type. TypeOK /\ TypeOK'
  BY StepType DEF IInv
<1>row. \A r \in Runs : row[r] \in Row /\ RowOK(row[r]) /\ log[r] \in Seq(Event)
  BY <1>type DEF IInv, TypeOK
<1>grant. \A g \in grants : /\ g.run \in Runs /\ g.epoch \in Nat \ {0}
                            /\ g.executor \in Executors
  BY <1>type DEF IInv, TypeOK, Lease, LeasesNumbered
<1>open. ASSUME NEW k \in Kinds \ Closing, NEW e \in Nat
         PROVE  /\ <<Entry(k, e)>> \in Seq(Event)
                /\ \A i \in 1..Len(<<Entry(k, e)>>) :
                     <<Entry(k, e)>>[i].kind \notin Closing
  BY EntryType DEF Entry
<1>closing. ASSUME NEW k \in Closing, NEW e \in Nat
            PROVE  Entry(k, e) \in Event /\ Entry(k, e).kind \in Closing
  BY EntryType DEF Entry, Kinds, Closing
<1>kinds. /\ {"preparing", "queued", "input.manifest", "status",
              "cancel.requested", "update"} = Kinds \ Closing
          /\ {"done", "error"} = Closing
  BY DEF Kinds, Closing
<1>1. ASSUME NEW r \in Runs, CreateRun(r) PROVE IInv'
  <2> DEFINE prep == [NewRow EXCEPT !.status = "PREPARING", !.deadline = "ahead"]
             que == [NewRow EXCEPT !.status = "QUEUED", !.manifest = "FINALIZED"]
  <2>1. row[r].status = "ABSENT" /\ row[r].epoch = 0 /\ grants' = grants
    BY <1>1, <1>row DEF CreateRun, RowOK
  <2>2. prep \in Row /\ que \in Row
    BY DEF NewRow, Row, Statuses
  <2>3. /\ prep.status = "PREPARING" /\ prep.epoch = 0 /\ ~prep.cancel /\ prep.result = 0
        /\ que.status = "QUEUED" /\ que.epoch = 0 /\ que.result = 0
        /\ que.manifest = "FINALIZED"
    BY DEF NewRow
  <2> HIDE DEF prep, que
  <2>tame. Tame(row[r], prep) /\ Tame(row[r], que)
    BY <2>1, <2>3 DEF Tame, RowOK
  <2>4. CASE Commit(r, prep, <<Entry("preparing", 0)>>)
    BY <2>1, <2>2, <2>3, <2>tame, <2>4, <1>open, <1>kinds, CommitOpen
  <2>5. CASE Commit(r, que, <<Entry("queued", 0)>>)
    BY <2>1, <2>2, <2>3, <2>tame, <2>5, <1>open, <1>kinds, CommitOpen
  <2>6. QED BY <1>1, <2>4, <2>5 DEF CreateRun, prep, que
<1>2. ASSUME NEW r \in Runs, FinalizeInputManifest(r) PROVE IInv'
  <2> DEFINE new1 == [row[r] EXCEPT !.manifest = "FINALIZED", !.status = "QUEUED",
                                    !.deadline = "none"]
             new2 == [row[r] EXCEPT !.manifest = "FINALIZED"]
             es == <<Entry("input.manifest", 0), Entry("queued", 0)>>
  <2>1. grants' = grants
    BY <1>2 DEF FinalizeInputManifest
  <2>2. es \in Seq(Event) /\ \A i \in 1..Len(es) : es[i].kind \notin Closing
    BY EntryType DEF Entry, Kinds, Closing
  <2>3. ASSUME row[r].status = "PREPARING"
        PROVE  new1 \in Row /\ Tame(row[r], new1) /\ new1.status = "QUEUED"
    BY <1>row, <2>3 DEF Row, Statuses, Tame, RowOK
  <2>4. ASSUME row[r].status \in {"QUEUED"} \cup Active
        PROVE  new2 \in Row /\ Tame(row[r], new2) /\ new2.status = row[r].status
    BY <1>row, <2>4 DEF Row, Statuses, Tame, RowOK
  <2> HIDE DEF new1, new2, es
  <2>5. CASE row[r].status = "PREPARING" /\ Commit(r, new1, es)
    BY <2>1, <2>2, <2>3, <2>5, CommitOpen
  <2>6. CASE /\ row[r].status \in {"QUEUED"} \cup Active
             /\ Commit(r, new2, <<Entry("input.manifest", 0)>>)
    BY <2>1, <2>4, <2>6, <1>open, <1>kinds, CommitOpen
  <2>7. QED BY <1>2, <2>5, <2>6 DEF FinalizeInputManifest, new1, new2, es
<1>cancel. ASSUME NEW r \in Runs, Cancel(r), grants' = grants PROVE IInv'
  <2> DEFINE new1 == [row[r] EXCEPT !.status = "CANCELED", !.cancel = TRUE,
                                    !.deadline = "none"]
             new2 == [row[r] EXCEPT !.cancel = TRUE]
  <2>1. ASSUME row[r].status \in {"PREPARING", "QUEUED"}
        PROVE  new1 \in Row /\ Tame(row[r], new1) /\ new1.status = "CANCELED"
    BY <1>row, <2>1 DEF Row, Statuses, Tame, RowOK
  <2>2. ASSUME row[r].status \in Active
        PROVE  new2 \in Row /\ Tame(row[r], new2) /\ new2.status = row[r].status
    BY <1>row, <2>2 DEF Row, Statuses, Tame, RowOK
  <2> HIDE DEF new1, new2
  <2>3. CASE /\ row[r].status \in {"PREPARING", "QUEUED"}
             /\ Commit(r, new1, <<Entry("done", 0)>>)
    BY <1>cancel, <2>1, <2>3, <1>closing, <1>kinds, CommitClosing
  <2>4. CASE /\ row[r].status \in Active
             /\ Commit(r, new2, <<Entry("cancel.requested", 0)>>)
    BY <1>cancel, <2>2, <2>4, <1>open, <1>kinds, CommitOpen
  <2>5. QED BY <1>cancel, <2>3, <2>4 DEF Cancel, new1, new2
<1>3. ASSUME NEW r \in Runs, RequestCancel(r) PROVE IInv'
  BY <1>3, <1>cancel DEF RequestCancel
<1>4. ASSUME NEW s \in Sessions, CancelLatestActiveRun(s) PROVE IInv'
  BY <1>4, <1>cancel DEF CancelLatestActiveRun
<1>5. ASSUME NEW r \in Runs, NEW e \in Executors, ClaimRun(r, e) PROVE IInv'
  <2>1. \A q \in Runs : Tame(row[q], row[q])
    BY <1>row DEF Tame
  <2>2. QED BY <1>5, <1>type, <2>1, GrantKeepsInv DEF ClaimRun, TypeOK
<1>6. ASSUME NEW e \in Executors, ClaimNextRun(e) PROVE IInv'
  <2> DEFINE swept == [r \in Runs |-> Sweep(row[r])]
  <2>1. swept \in [Runs -> Row] /\ \A q \in Runs :
          /\ Tame(row[q], swept[q])
          /\ swept[q].status \in Outcomes <=> row[q].status \in Outcomes
    BY <1>row, SweepType, SweepFields, SweepOK DEF Tame
  <2>2. ASSUME NEW r \in Claimable(swept), Grant(swept, r, e) PROVE IInv'
    BY <2>1, <2>2, GrantKeepsInv
  <2>3. CASE row' = swept /\ UNCHANGED <<log, grants>>
    BY <1>type, <2>1, <2>3, RowsOnly
  <2>4. QED BY <1>6, <2>2, <2>3 DEF ClaimNextRun
<1>7. ASSUME NEW g \in grants, MarkRunning(g) PROVE IInv'
  <2> DEFINE new == [row[g.run] EXCEPT !.status = "RUNNING", !.deadline = "ahead"]
  <2>1. /\ g.run \in Runs /\ row[g.run] \in Row /\ RowOK(row[g.run])
        /\ row[g.run].status = "LEASED" /\ grants' = grants
    BY <1>7, <1>row, <1>grant DEF MarkRunning
  <2>2. new \in Row /\ Tame(row[g.run], new) /\ new.status = "RUNNING"
    BY <2>1 DEF Row, Statuses, Tame, RowOK
  <2> HIDE DEF new
  <2>3. Commit(g.run, new, <<Entry("status", g.epoch)>>)
    BY <1>7 DEF MarkRunning, new
  <2>4. QED BY <2>1, <2>2, <2>3, <1>grant, <1>open, <1>kinds, CommitOpen
<1>8. ASSUME NEW g \in grants, HeartbeatLease(g) PROVE IInv'
  <2> DEFINE new == [row[g.run] EXCEPT !.deadline = "ahead"]
  <2>1. /\ g.run \in Runs /\ row[g.run] \in Row /\ RowOK(row[g.run])
        /\ row[g.run].status = "RUNNING"
    BY <1>8, <1>row, <1>grant DEF HeartbeatLease
  <2>2. Tame(row[g.run], new) /\ new.status = "RUNNING"
    BY <2>1 DEF Row, Statuses, Tame, RowOK
  <2>3. row'[g.run] = new /\ \A q \in Runs \ {g.run} : row'[q] = row[q]
    BY <1>8, <1>type, <2>1 DEF HeartbeatLease, TypeOK
  <2> HIDE DEF new
  <2>4. \A q \in Runs : /\ Tame(row[q], row'[q])
                        /\ row'[q].status \in Outcomes <=> row[q].status \in Outcomes
    BY <1>row, <2>1, <2>2, <2>3 DEF Tame
  <2>5. QED BY <1>8, <1>type, <2>4, RowsOnly DEF HeartbeatLease
<1>9. ASSUME NEW g \in grants, NEW outcome \in Outcomes, FinishRun(g, outcome)
      PROVE  IInv'
  <2> DEFINE new == [row[g.run] EXCEPT !.status = outcome, !.deadline = "none",
                                       !.result = g.epoch]
             ev == Entry(IF outcome = "SUCCEEDED" THEN "done" ELSE "error", g.epoch)
  <2>1. /\ g.run \in Runs /\ row[g.run] \in Row /\ RowOK(row[g.run])
        /\ row[g.run].status \in Active /\ row[g.run].epoch = g.epoch
        /\ grants' = grants
    BY <1>9, <1>row, <1>grant DEF FinishRun, Holds
  <2>2. new \in Row /\ Tame(row[g.run], new) /\ new.status = outcome
    BY <1>grant, <2>1 DEF Row, Statuses, Tame, RowOK
  <2>3. ev \in Event /\ ev.kind \in Closing
    BY <1>grant, <1>closing, <1>kinds
  <2> HIDE DEF new, ev
  <2>4. Commit(g.run, new, <<ev>>)
    BY <1>9 DEF FinishRun, new, ev
  <2>5. QED BY <2>1, <2>2, <2>3, <2>4, CommitClosing
<1>10. ASSUME NEW g \in grants, AppendEvent(g) PROVE IInv'
  <2> DEFINE es == <<Entry("update", g.epoch)>>
  <2>1. es \in Seq(Event) /\ \A i \in 1..Len(es) : es[i].kind \notin Closing
    BY <1>grant, <1>open, <1>kinds
  <2>2. /\ g.run \in Runs /\ UNCHANGED <<row, grants>>
        /\ log'[g.run] = log[g.run] \o es
        /\ \A q \in Runs \ {g.run} : log'[q] = log[q]
    BY <1>10, <1>type, <1>grant DEF AppendEvent, TypeOK
  <2> HIDE DEF es
  <2>3. Closings(log'[g.run]) = Closings(log[g.run])
    BY <1>row, <2>1, <2>2, AppendOpen
  <2>4. ClosedOnce'
    BY <2>2, <2>3 DEF IInv, ClosedOnce
  <2>5. OneActiveRunPerSession' /\ LeasesNumbered' /\ ActiveHeld'
    BY <1>type, <2>2, LeasesKept
  <2>6. QED BY <1>type, <1>row, <2>2, <2>4, <2>5 DEF IInv
<1>11. ASSUME NEW r \in Runs, DeadlinePasses(r) PROVE IInv'
  <2> DEFINE new == [row[r] EXCEPT !.deadline = "past"]
  <2>1. Tame(row[r], new) /\ new.status = row[r].status
    BY <1>11, <1>row DEF DeadlinePasses, Row, Statuses, Tame, RowOK
  <2>2. row'[r] = new /\ \A q \in Runs \ {r} : row'[q] = row[q]
    BY <1>11, <1>type DEF DeadlinePasses, TypeOK
  <2> HIDE DEF new
  <2>3. \A q \in Runs : /\ Tame(row[q], row'[q])
                        /\ row'[q].status \in Outcomes <=> row[q].status \in Outcomes
    BY <1>row, <2>1, <2>2 DEF Tame
  <2>4. QED BY <1>11, <1>type, <2>3, RowsOnly DEF DeadlinePasses
<1>12. CASE UNCHANGED vars
  <2>1. OneActiveRunPerSession' /\ LeasesNumbered' /\ ActiveHeld'
    BY <1>12, <1>type, LeasesKept DEF vars
  <2>2. ClosedOnce' /\ \A r \in Runs : RowOK(row'[r])
    BY <1>12 DEF IInv, ClosedOnce, vars
  <2>3. QED BY <1>type, <2>1, <2>2 DEF IInv
<1> QED
  BY <1>1, <1>2, <1>3, <1>4, <1>5, <1>6, <1>7, <1>8, <1>9, <1>10, <1>11, <1>12
  DEF Next

THEOREM Invariance == Spec => []IInv
  BY InitInv, StepInv, PTL DEF Spec

-----------------------------------------------------------------------------
(* What the invariant gives.                                               *)

(* Two claim paths, the sweep and stale executors never make two runs of a *)
(* session active together.                                                *)
THEOREM SessionSerialized == Spec => []OneActiveRunPerSession
<1>1. IInv => OneActiveRunPerSession
  BY DEF IInv
<1> QED BY <1>1, Invariance, PTL

(* Whoever passes the lease check of a write holds the newest lease.       *)
THEOREM NewestLeaseHolds == Spec => []HeldByNewestLease
<1>1. IInv => HeldByNewestLease
  <2>1. SUFFICES ASSUME IInv, NEW r \in Runs, row[r].status \in Active
        PROVE  /\ \E g \in grants : g.run = r /\ Holds(g)
               /\ \A g \in grants : g.run = r => g.epoch <= row[r].epoch
               /\ \A g, h \in grants : g.run = r /\ h.run = r /\ g.epoch = h.epoch
                     => g = h
    BY DEF HeldByNewestLease
  <2>2. QED BY <2>1 DEF IInv, ActiveHeld, LeasesNumbered
<1> QED BY <1>1, Invariance, PTL

(* A stale executor cannot overwrite a retried run.                        *)
THEOREM NewestLeaseWrites == Spec => []ResultOfNewestLease
<1>1. IInv => ResultOfNewestLease
  <2>1. SUFFICES ASSUME IInv, NEW r \in Runs, NEW g \in grants, g.run = r,
                        row[r].result # 0
        PROVE  g.epoch <= row[r].result
    BY DEF ResultOfNewestLease
  <2>2. QED BY <2>1 DEF IInv, LeasesNumbered, RowOK
<1> QED BY <1>1, Invariance, PTL

(* A log is closed once, exactly when its run has reached an outcome.      *)
THEOREM LogClosedOnce == Spec => []ClosedOnce
<1>1. IInv => ClosedOnce
  BY DEF IInv
<1> QED BY <1>1, Invariance, PTL

(* No executor gets a run whose inputs may still change.                   *)
THEOREM InputsFinalFirst == Spec => []LeasedOnlyWhenFinalized
<1>1. IInv => LeasedOnlyWhenFinalized
  BY DEF IInv, RowOK, LeasedOnlyWhenFinalized
<1> QED BY <1>1, Invariance, PTL

-----------------------------------------------------------------------------
(* Every step, seen row by row.                                            *)

RowStep(a, b) == /\ Contract!Move(Seen(a), Seen(b))
                 /\ a.status \in Terminal => b = a

LEMMA SweepStep ==
  ASSUME NEW w \in Row, RowOK(w) PROVE RowStep(w, Sweep(w))
<1> USE DEF Active, Terminal, Outcomes, Statuses
<1>1. CASE w.status = "PREPARING" /\ w.deadline = "past"
  <2>1. /\ Sweep(w).status = "EXPIRED" /\ Sweep(w).epoch = w.epoch
        /\ Sweep(w).cancel = w.cancel /\ Sweep(w).result = w.result
    BY <1>1 DEF Sweep, Row
  <2>2. Contract!Drop(Seen(w), Seen(Sweep(w)))
    BY <1>1, <2>1 DEF Contract!Drop, Seen, Phase, RowOK
  <2>3. QED BY <1>1, <2>2 DEF RowStep, Contract!Move
<1>2. CASE w.status \in Active /\ w.deadline = "past"
  <2>1. /\ Sweep(w).status = "QUEUED" /\ Sweep(w).epoch = w.epoch
        /\ Sweep(w).cancel = w.cancel /\ Sweep(w).result = w.result
    BY <1>2 DEF Sweep, Row
  <2>2. Contract!GiveUp(Seen(w), Seen(Sweep(w)))
    BY <1>2, <2>1 DEF Contract!GiveUp, Seen, Phase, RowOK
  <2>3. QED BY <1>2, <2>2 DEF RowStep, Contract!Move
<1>3. CASE Sweep(w) = w
  BY <1>3 DEF RowStep, Contract!Move
<1> QED BY <1>1, <1>2, <1>3 DEF Sweep

(* A grant on the table a sweep left is one attempt, of a run that was     *)
(* waiting or whose executor was gone.                                     *)
LEMMA GrantStep ==
  ASSUME IInv, NEW table \in [Runs -> Row],
         \A q \in Runs : table[q] = row[q] \/ table[q] = Sweep(row[q]),
         NEW r \in Claimable(table), NEW e \in Executors, Grant(table, r, e)
  PROVE  \A q \in Runs : RowStep(row[q], row'[q])
<1> USE DEF Active, Terminal, Outcomes, Statuses
<1>1. /\ r \in Runs /\ table[r].status = "QUEUED" /\ ~table[r].cancel
      /\ TypeOK /\ \A q \in Runs : row[q] \in Row /\ RowOK(row[q])
  BY DEF Claimable, IInv, TypeOK
<1>2. /\ row'[r] = Leased(table[r], e)
      /\ \A q \in Runs \ {r} : row'[q] = table[q]
  BY <1>1 DEF Grant
<1>3. ASSUME NEW q \in Runs \ {r} PROVE RowStep(row[q], row'[q])
  <2>1. RowStep(row[q], row[q])
    BY DEF RowStep, Contract!Move
  <2>2. QED BY <1>1, <1>2, <2>1, SweepStep
<1>4. RowStep(row[r], row'[r])
  <2>1. /\ row[r].status \in {"QUEUED"} \cup Active /\ row[r].cancel = table[r].cancel
        /\ row[r].epoch = table[r].epoch /\ row[r].result = table[r].result
    BY <1>1 DEF Sweep, Row
  <2>2. /\ row'[r].status = "LEASED" /\ row'[r].epoch = table[r].epoch + 1
        /\ row'[r].cancel = table[r].cancel /\ row'[r].result = table[r].result
    BY <1>2 DEF Leased, Row
  <2>3. row[r].result = 0
    BY <1>1, <2>1 DEF RowOK
  <2>4. Contract!Attempt(Seen(row[r]), Seen(row'[r]))
    BY <1>1, <2>1, <2>2, <2>3 DEF Contract!Attempt, Seen, Phase
  <2>5. QED BY <2>1, <2>4 DEF RowStep, Contract!Move
<1> QED BY <1>3, <1>4

(* One row moves, the others stay.                                         *)
LEMMA OneMoves ==
  ASSUME NEW r \in Runs, RowStep(row[r], row'[r]),
         \A q \in Runs \ {r} : row'[q] = row[q]
  PROVE  \A q \in Runs : RowStep(row[q], row'[q])
<1>1. \A q \in Runs \ {r} : RowStep(row[q], row'[q])
  BY DEF RowStep, Contract!Move
<1> QED BY <1>1

LEMMA StepRows ==
  ASSUME IInv, [Next]_vars
  PROVE  \A q \in Runs : RowStep(row[q], row'[q])
<1> USE DEF Active, Terminal, Outcomes, Statuses
<1>type. TypeOK /\ row \in [Runs -> Row]
  BY DEF IInv, TypeOK
<1>row. \A r \in Runs : row[r] \in Row /\ RowOK(row[r])
  BY <1>type DEF IInv
<1>grant. \A g \in grants : g.run \in Runs /\ g.epoch \in Nat \ {0}
  BY <1>type DEF IInv, TypeOK, Lease, LeasesNumbered
<1>commit. ASSUME NEW r \in Runs, NEW new, NEW es, Commit(r, new, es)
           PROVE  row'[r] = new /\ \A q \in Runs \ {r} : row'[q] = row[q]
  BY <1>type, <1>commit DEF Commit
<1>1. ASSUME NEW r \in Runs, CreateRun(r)
      PROVE  \A q \in Runs : RowStep(row[q], row'[q])
  <2>1. /\ row[r].status = "ABSENT" /\ row[r].epoch = 0 /\ ~row[r].cancel
        /\ row[r].result = 0
    BY <1>1, <1>row DEF CreateRun, RowOK, Row
  <2>2. /\ row'[r].status \in {"PREPARING", "QUEUED"} /\ row'[r].epoch = 0
        /\ row'[r].cancel = FALSE /\ row'[r].result = 0
    <3> DEFINE prep == [NewRow EXCEPT !.status = "PREPARING", !.deadline = "ahead"]
               que == [NewRow EXCEPT !.status = "QUEUED", !.manifest = "FINALIZED"]
    <3>1. \A w \in {prep, que} :
            /\ w.status \in {"PREPARING", "QUEUED"} /\ w.epoch = 0
            /\ w.cancel = FALSE /\ w.result = 0
      BY DEF NewRow
    <3> HIDE DEF prep, que
    <3>2. row'[r] = prep \/ row'[r] = que
      BY <1>1, <1>commit DEF CreateRun, prep, que
    <3>3. QED BY <3>1, <3>2
  <2>3. Contract!Submit(Seen(row[r]), Seen(row'[r]))
    BY <2>1, <2>2 DEF Contract!Submit, Seen, Phase
  <2>4. \A q \in Runs \ {r} : row'[q] = row[q]
    BY <1>1, <1>commit DEF CreateRun
  <2>5. QED BY <2>1, <2>3, <2>4, OneMoves DEF RowStep, Contract!Move
<1>2. ASSUME NEW r \in Runs, FinalizeInputManifest(r)
      PROVE  \A q \in Runs : RowStep(row[q], row'[q])
  <2>1. /\ row[r].status \in {"PREPARING", "QUEUED"} \cup Active
        /\ \/ row'[r] = [row[r] EXCEPT !.manifest = "FINALIZED", !.status = "QUEUED",
                                       !.deadline = "none"]
              /\ row[r].status = "PREPARING"
           \/ row'[r] = [row[r] EXCEPT !.manifest = "FINALIZED"]
    BY <1>2, <1>commit DEF FinalizeInputManifest
  <2>2. Seen(row'[r]) = Seen(row[r])
    BY <1>row, <2>1 DEF Seen, Phase, Row
  <2>3. \A q \in Runs \ {r} : row'[q] = row[q]
    BY <1>2, <1>commit DEF FinalizeInputManifest
  <2>4. QED BY <2>1, <2>2, <2>3, OneMoves DEF RowStep, Contract!Move
<1>cancel. ASSUME NEW r \in Runs, Cancel(r)
           PROVE  \A q \in Runs : RowStep(row[q], row'[q])
  <2>1. /\ row[r].status \in {"PREPARING", "QUEUED"} \cup Active
        /\ row[r].result = 0
    BY <1>cancel, <1>row DEF Cancel, RowOK
  <2>2. \/ /\ row[r].status \in {"PREPARING", "QUEUED"} 
           /\ row'[r] = [row[r] EXCEPT !.status = "CANCELED", !.cancel = TRUE,
                                       !.deadline = "none"]
        \/ /\ row[r].status \in Active
           /\ row'[r] = [row[r] EXCEPT !.cancel = TRUE]
    BY <1>cancel, <1>commit DEF Cancel
  <2>3. \/ Contract!Drop(Seen(row[r]), Seen(row'[r]))
        \/ Contract!AskCancel(Seen(row[r]), Seen(row'[r]))
    BY <1>row, <2>1, <2>2 DEF Contract!Drop, Contract!AskCancel, Seen, Phase, Row
  <2>4. \A q \in Runs \ {r} : row'[q] = row[q]
    BY <1>cancel, <1>commit DEF Cancel
  <2>5. QED BY <2>1, <2>3, <2>4, OneMoves DEF RowStep, Contract!Move
<1>3. ASSUME NEW r \in Runs, RequestCancel(r)
      PROVE  \A q \in Runs : RowStep(row[q], row'[q])
  BY <1>3, <1>cancel DEF RequestCancel
<1>4. ASSUME NEW s \in Sessions, CancelLatestActiveRun(s)
      PROVE  \A q \in Runs : RowStep(row[q], row'[q])
  BY <1>4, <1>cancel DEF CancelLatestActiveRun
<1>5. ASSUME NEW r \in Runs, NEW e \in Executors, ClaimRun(r, e)
      PROVE  \A q \in Runs : RowStep(row[q], row'[q])
  BY <1>5, <1>type, GrantStep DEF ClaimRun
<1>6. ASSUME NEW e \in Executors, ClaimNextRun(e)
      PROVE  \A q \in Runs : RowStep(row[q], row'[q])
  <2> DEFINE swept == [r \in Runs |-> Sweep(row[r])]
  <2>1. /\ swept \in [Runs -> Row]
        /\ \A q \in Runs : swept[q] = Sweep(row[q])
    BY <1>row, SweepType
  <2>2. ASSUME NEW r \in Claimable(swept), Grant(swept, r, e)
        PROVE  \A q \in Runs : RowStep(row[q], row'[q])
    <3> HIDE DEF swept
    <3>1. QED BY <2>1, <2>2, GrantStep
  <2>3. CASE row' = swept
    <3>1. \A q \in Runs : RowStep(row[q], Sweep(row[q]))
      BY <1>row, SweepStep
    <3>2. QED BY <2>1, <2>3, <3>1
  <2>4. QED BY <1>6, <2>2, <2>3 DEF ClaimNextRun
<1>7. ASSUME NEW g \in grants, MarkRunning(g)
      PROVE  \A q \in Runs : RowStep(row[q], row'[q])
  <2>1. /\ g.run \in Runs /\ row[g.run].status = "LEASED"
        /\ row'[g.run] = [row[g.run] EXCEPT !.status = "RUNNING", !.deadline = "ahead"]
        /\ \A q \in Runs \ {g.run} : row'[q] = row[q]
    BY <1>7, <1>grant, <1>commit DEF MarkRunning
  <2>2. Seen(row'[g.run]) = Seen(row[g.run])
    BY <1>row, <2>1 DEF Seen, Phase, Row
  <2>3. QED BY <2>1, <2>2, OneMoves DEF RowStep, Contract!Move
<1>8. ASSUME NEW g \in grants, HeartbeatLease(g)
      PROVE  \A q \in Runs : RowStep(row[q], row'[q])
  <2>1. /\ g.run \in Runs /\ row[g.run].status = "RUNNING"
        /\ row'[g.run] = [row[g.run] EXCEPT !.deadline = "ahead"]
        /\ \A q \in Runs \ {g.run} : row'[q] = row[q]
    BY <1>8, <1>type, <1>grant DEF HeartbeatLease
  <2>2. Seen(row'[g.run]) = Seen(row[g.run])
    BY <1>row, <2>1 DEF Seen, Phase, Row
  <2>3. QED BY <2>1, <2>2, OneMoves DEF RowStep, Contract!Move
<1>9. ASSUME NEW g \in grants, NEW outcome \in Outcomes, FinishRun(g, outcome)
      PROVE  \A q \in Runs : RowStep(row[q], row'[q])
  <2>1. /\ g.run \in Runs /\ row[g.run].status \in Active
        /\ row[g.run].epoch = g.epoch
        /\ row'[g.run] = [row[g.run] EXCEPT !.status = outcome, !.deadline = "none",
                                            !.result = g.epoch]
        /\ \A q \in Runs \ {g.run} : row'[q] = row[q]
    BY <1>9, <1>grant, <1>commit DEF FinishRun, Holds
  <2>2. Contract!Complete(Seen(row[g.run]), Seen(row'[g.run]))
    BY <1>row, <2>1 DEF Contract!Complete, Seen, Phase, Row
  <2>3. QED BY <2>1, <2>2, OneMoves DEF RowStep, Contract!Move
<1>10. ASSUME NEW r \in Runs, DeadlinePasses(r)
      PROVE  \A q \in Runs : RowStep(row[q], row'[q])
  <2>1. /\ row[r].status \notin Terminal
        /\ row'[r] = [row[r] EXCEPT !.deadline = "past"]
        /\ \A q \in Runs \ {r} : row'[q] = row[q]
    BY <1>10, <1>type, <1>row DEF DeadlinePasses, RowOK
  <2>2. Seen(row'[r]) = Seen(row[r])
    BY <1>row, <2>1 DEF Seen, Phase, Row
  <2>3. QED BY <2>1, <2>2, OneMoves DEF RowStep, Contract!Move
<1>11. CASE row' = row
  BY <1>11 DEF RowStep, Contract!Move
<1> QED
  BY <1>1, <1>2, <1>3, <1>4, <1>5, <1>6, <1>7, <1>8, <1>9, <1>10, <1>11
  DEF Next, AppendEvent, vars

(* The row of a run that has ended never changes, but for the number of    *)
(* its events (event_seq).                                                 *)
THEOREM EndedRunsStay == Spec => TerminalIsFinal
<1>1. IInv /\ [Next]_vars =>
        [\A r \in Runs : row[r].status \in Terminal => row'[r] = row[r]]_vars
  BY StepRows DEF RowStep
<1> QED BY <1>1, Invariance, PTL DEF Spec, TerminalIsFinal

(* A cancel request sticks: the run is not leased again.                   *)
THEOREM CancelSticks == Spec => NoLeaseAfterCancel
<1>1. IInv /\ [Next]_vars =>
        [\A r \in Runs :
           row[r].cancel => row'[r].cancel /\ row'[r].epoch = row[r].epoch]_vars
  <2>1. SUFFICES ASSUME IInv, [Next]_vars, NEW r \in Runs, row[r].cancel
        PROVE  row'[r].cancel /\ row'[r].epoch = row[r].epoch
    OBVIOUS
  <2>2. RowStep(row[r], row'[r])
    BY <2>1, StepRows
  <2>3. /\ row[r].status \notin {"ABSENT"} /\ row'[r] \in Row /\ row[r] \in Row
    BY <2>1, StepType DEF IInv, RowOK, TypeOK
  <2>4. QED
    BY <2>1, <2>2, <2>3
    DEF RowStep, Seen, Phase, Row, Statuses, Active, Terminal, Contract!Move,
        Contract!Submit, Contract!Attempt, Contract!GiveUp, Contract!AskCancel,
        Contract!Drop, Contract!Complete
<1> QED BY <1>1, Invariance, PTL DEF Spec, NoLeaseAfterCancel

(* The table with its leases implements the contract of RunContract.       *)
THEOREM Refinement == Spec => ImplementsContract
<1>1. Init => Contract!Init
  <2>1. Seen(NewRow) = [phase |-> "absent", attempt |-> 0, cancel |-> FALSE,
                        result |-> 0]
    <3>1. Phase("ABSENT") = "absent"
      BY DEF Phase, Active
    <3>2. QED BY <3>1 DEF NewRow, Seen
  <2>2. Init => \A r \in Runs : row[r] = NewRow
    BY DEF Init
  <2>3. QED BY <2>1, <2>2 DEF Contract!Init
<1>2. IInv /\ IInv' /\ [Next]_vars =>
        [Contract!Next]_([r \in Runs |-> Seen(row[r])])
  <2>1. SUFFICES ASSUME IInv, IInv', [Next]_vars PROVE Contract!Next
    OBVIOUS
  <2>2. \A r \in Runs : Contract!Move(Seen(row[r]), Seen(row'[r]))
    BY <2>1, StepRows DEF RowStep
  <2>3. \A r \in Runs : Seen(row'[r]) \in [phase : Contract!Phases, attempt : Nat,
                                           cancel : BOOLEAN, result : Nat]
    BY <2>1 DEF IInv, TypeOK, Row, Seen, Phase, Contract!Phases
  <2>4. \A r \in Runs : Seen(row'[r]).phase = "active" => row'[r].status \in Active
    BY DEF Seen, Phase
  <2>5. OneActiveRunPerSession'
    BY <2>1 DEF IInv
  <2>6. Contract!Exclusive([r \in Runs |-> Seen(row'[r])])
    BY <2>4, <2>5 DEF Contract!Exclusive, OneActiveRunPerSession
  <2>7. QED BY <2>2, <2>3, <2>6 DEF Contract!Next
<1> QED
  BY <1>1, <1>2, Invariance, PTL DEF Spec, ImplementsContract, Contract!Spec
=============================================================================
