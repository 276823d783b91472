--------------------------- MODULE DeliveryProofs ---------------------------
(***************************************************************************)
(* Theorems of Delivery, for every list of deliveries and any number of    *)
(* faults.                                                                 *)
(***************************************************************************)
EXTENDS Delivery, FiniteSetTheorems, TLAPS

-----------------------------------------------------------------------------
\* Two deliveries of a message whose uuids count from zero together.
ShareUuids(d, e) == \/ KindOf[d] = "image" /\ KindOf[e] = "image"
                    \/ KindOf[d] \in {"audio", "file"} /\ KindOf[e] \in {"audio", "file"}

\* A text, or the only delivery of its kind.
Alone == {d \in Items : \A e \in Items \ {d} : ~ShareUuids(d, e)}

\* The uuids that d's reply may have.
Mine(d, u) == \/ KindOf[d] = "text" /\ u = <<"delivery", d>>
              \/ KindOf[d] = "image" /\ u[1] \in {"image", "element"}
              \/ KindOf[d] \in {"audio", "file"} /\ u[1] = "download"

\* No function has delivered more than the handler has come to.
Counted == at # 0 => \A k \in Media : sent[k] <= at /\ (pc # "fail" => sent[k] < at)

\* A text is shown with its uuid; anything else when the handler comes to it.
TextOnce(d) == KindOf[d] = "text" =>
  shown[d] = IF <<"delivery", d>> \in uuids THEN 1 ELSE 0
MediaOnce(d) == KindOf[d] # "text" =>
  /\ shown[d] <= 1
  /\ shown[d] = 1 => at = 0 \/ d < at \/ (d = at /\ pc \in {"complete", "fail"})

\* Whoever is about to report d as delivered, or has, has had it shown.
Reported(d) == \/ row[d].status = "DELIVERED"
               \/ replay[d] = "sent"
               \/ at = d /\ pc = "complete"
AloneShown(d) == /\ \A u \in uuids : Mine(d, u) => shown[d] > 0
                 /\ Reported(d) => shown[d] > 0

DInv == /\ TypeOK /\ Counted
        /\ \A d \in Items : TextOnce(d) /\ MediaOnce(d)
        /\ \A d \in Alone : AloneShown(d)

-----------------------------------------------------------------------------
(* The deliveries are numbered.                                            *)
LEMMA Numbered == /\ Cardinality(Items) \in Nat /\ Items = 1..Cardinality(Items)
                  /\ Items \subseteq Nat \ {0}
BY ItemsAssumption, FS_CardinalityType

(* The rows that any operation of the table leaves are rows.               *)
LEMMA RowsTyped ==
  ASSUME row \in [Items -> Row], NEW d \in Items
  PROVE  /\ Create(d) => row' \in [Items -> Row]
         /\ \A b \in BOOLEAN : Finish(d, b) => row' \in [Items -> Row]
         /\ ClaimDue => row' \in [Items -> Row]
         /\ row[d] \in Row
<1>1. Create(d) => row' \in [Items -> Row]
  BY DEF Create, Row
<1>2. ASSUME NEW b \in BOOLEAN, Finish(d, b) PROVE row' \in [Items -> Row]
  <2>1. [status |-> "DELIVERED", ripe |-> FALSE] \in Row /\ [status |-> "RETRY", ripe |-> FALSE] \in Row
    BY DEF Row
  <2> DEFINE new == [status |-> IF b THEN "DELIVERED" ELSE "RETRY", ripe |-> FALSE]
  <2>2. new \in Row
    BY <2>1
  <2>3. row' = row \/ row' = [row EXCEPT ![d] = new]
    BY <1>2 DEF Finish
  <2> HIDE DEF new
  <2> QED BY <2>2, <2>3
<1>3. ClaimDue => row' \in [Items -> Row]
  BY DEF ClaimDue, Row
<1> QED BY <1>1, <1>2, <1>3

(* A reply shows one delivery, at most once more, and it has one of its    *)
(* uuids, which no delivery that is alone has in common with it.           *)
LEMMA OneReply ==
  ASSUME shown \in [Items -> Nat], NEW d \in Items, Reply(d)
  PROVE  /\ shown' \in [Items -> Nat]
         /\ uuids' = uuids \cup {Uuid(d)}
         /\ shown'[d] = IF Uuid(d) \in uuids THEN shown[d] ELSE shown[d] + 1
         /\ \A e \in Items \ {d} : shown'[e] = shown[e]
         /\ \A e \in Alone \ {d} : ~Mine(e, Uuid(d))
         /\ Mine(d, Uuid(d))
         /\ KindOf[d] # "text" =>
              \A e \in Items : Uuid(d) # <<"delivery", e>>
         /\ KindOf[d] = "text" => Uuid(d) = <<"delivery", d>>
<1>kind. \A e \in Items : KindOf[e] \in {"image", "audio", "file", "text"}
  BY ItemsAssumption DEF Media
<1>1. /\ shown' \in [Items -> Nat]
      /\ uuids' = uuids \cup {Uuid(d)}
      /\ shown'[d] = IF Uuid(d) \in uuids THEN shown[d] ELSE shown[d] + 1
      /\ \A e \in Items \ {d} : shown'[e] = shown[e]
  BY DEF Reply
<1>2. CASE KindOf[d] = "text"
  <2>1. Uuid(d) = <<"delivery", d>>
    BY <1>2 DEF Uuid
  <2>2. ASSUME NEW e \in Alone \ {d} PROVE ~Mine(e, Uuid(d))
    BY <2>1, <1>kind DEF Mine, Alone
  <2> QED BY <1>1, <1>2, <2>1, <2>2 DEF Mine
<1>3. CASE KindOf[d] = "image"
  <2>1. Uuid(d) = <<"element", d>> \/ Uuid(d) = <<"image", sent["image"]>>
    BY <1>3 DEF Uuid, ImageUuid
  <2>2. ASSUME NEW e \in Alone \ {d} PROVE ~Mine(e, Uuid(d))
    BY <1>3, <2>1, <1>kind DEF Mine, Alone, ShareUuids
  <2> QED BY <1>1, <1>3, <2>1, <2>2 DEF Mine
<1>4. CASE KindOf[d] \in {"audio", "file"}
  <2>1. Uuid(d) = <<"download", sent[KindOf[d]]>>
    BY <1>4 DEF Uuid
  <2>2. ASSUME NEW e \in Alone \ {d} PROVE ~Mine(e, Uuid(d))
    BY <1>4, <2>1, <1>kind DEF Mine, Alone, ShareUuids
  <2> QED BY <1>1, <1>4, <2>1, <2>2 DEF Mine
<1> QED BY <1>2, <1>3, <1>4, <1>kind

(* What a step does to the table is one of its operations, or its clock's. *)
LEMMA TableSteps ==
  ASSUME TypeOK, [Next]_vars
  PROVE  \/ row' = row \/ ClaimDue
         \/ \E d \in Items : \/ Create(d) \/ Finish(d, TRUE) \/ Finish(d, FALSE)
                             \/ TimePasses(d)
<1>at. at # 0 => at \in Items
  BY DEF TypeOK
<1>1. CASE Begin
  BY <1>1, <1>at DEF Begin, Answered, Broken
<1>2. CASE Complete
  BY <1>2, <1>at DEF Complete, Answered, Broken
<1>3. CASE Fail
  BY <1>3, <1>at DEF Fail, Answered, Broken
<1>4. CASE SkipText \/ UpdateFails \/ Send \/ Crash \/ UNCHANGED vars
  BY <1>4 DEF SkipText, UpdateFails, Send, Crash, vars
<1>5. CASE Claim
  BY <1>5 DEF Claim
<1>6. ASSUME NEW d \in Items, Defer(d) \/ GiveBack(d) PROVE row' = row \/ Finish(d, FALSE)
  BY <1>6 DEF Defer, GiveBack, Answered, Broken
<1>7. ASSUME NEW d \in Items, Acknowledge(d)
      PROVE  row' = row \/ Finish(d, TRUE)
  BY <1>7 DEF Acknowledge, Answered, Broken
<1>8. ASSUME NEW d \in Items, Resend(d) PROVE row' = row
  BY <1>8 DEF Resend
<1> QED BY <1>1, <1>2, <1>3, <1>4, <1>5, <1>6, <1>7, <1>8 DEF Next, Handler, Replay

(* What the table records, it keeps.                                       *)
LEMMA RowsSettle ==
  ASSUME TypeOK, [Next]_vars
  PROVE  \A d \in Items : row[d].status = "DELIVERED" => row'[d] = row[d]
<1>type. row \in [Items -> Row]
  BY DEF TypeOK
<1> SUFFICES ASSUME NEW d \in Items, row[d].status = "DELIVERED"
             PROVE  row'[d] = row[d]
  OBVIOUS
<1>1. ASSUME NEW c \in Items, Create(c) PROVE row'[d] = row[d]
  BY <1>1, <1>type DEF Create
<1>2. ASSUME NEW c \in Items, Finish(c, TRUE) \/ Finish(c, FALSE) PROVE row'[d] = row[d]
  <2>1. CASE c = d
    BY <1>2, <2>1 DEF Finish
  <2>2. CASE c # d
    BY <1>2, <2>2, <1>type DEF Finish
  <2> QED BY <2>1, <2>2
<1>3. CASE ClaimDue
  <2>1. d \notin Due
    BY DEF Due
  <2> QED BY <1>3, <2>1 DEF ClaimDue
<1>4. ASSUME NEW c \in Items, TimePasses(c) PROVE row'[d] = row[d]
  BY <1>4, <1>type DEF TimePasses
<1> QED BY <1>1, <1>2, <1>3, <1>4, TableSteps

(* The type invariant, with the count of deliveries that bounds sent.      *)
LEMMA StepTyped == TypeOK /\ Counted /\ [Next]_vars => (TypeOK /\ Counted)'
<1> SUFFICES ASSUME TypeOK, Counted, [Next]_vars PROVE (TypeOK /\ Counted)'
  OBVIOUS
<1>num. /\ Cardinality(Items) \in Nat /\ Items = 1..Cardinality(Items)
        /\ \A d \in Items : KindOf[d] \in Media \cup {"text"}
        /\ MaxFaults \in Nat
  BY Numbered, ItemsAssumption
<1>type. /\ row \in [Items -> Row] /\ card \in BOOLEAN /\ at \in Items \cup {0} /\ pc \in Places
         /\ sent \in [Media -> 0..Cardinality(Items)]
         /\ replay \in [Items -> {"idle", "claimed", "sent", "failed"}]
         /\ shown \in [Items -> Nat] /\ faults \in 0..MaxFaults
  BY DEF TypeOK
<1>row. row' \in [Items -> Row]
  <2>1. ASSUME NEW d \in Items, TimePasses(d) PROVE row' \in [Items -> Row]
    BY <2>1, <1>type DEF TimePasses, Row
  <2>2. \A d \in Items : Create(d) \/ Finish(d, TRUE) \/ Finish(d, FALSE) => row' \in [Items -> Row]
    BY <1>type, RowsTyped
  <2>3. ClaimDue => row' \in [Items -> Row]
    BY <1>type DEF ClaimDue, Row
  <2> QED BY <2>1, <2>2, <2>3, <1>type, TableSteps
<1>shown. /\ shown' \in [Items -> Nat]
  <2>1. \A d \in Items : Reply(d) => shown' \in [Items -> Nat]
    BY <1>type, OneReply
  <2>2. Send => shown' \in [Items -> Nat]
    BY <2>1, <1>type DEF Send, Answered, Broken
  <2>3. \A d \in Items : Resend(d) => shown' \in [Items -> Nat]
    BY <2>1, <1>type DEF Resend, Answered, Broken
  <2> QED
    BY <2>2, <2>3, <1>type
    DEF Next, vars, Handler, Replay, SkipText, UpdateFails, Begin, Complete, Fail, Claim, Defer,
        Acknowledge, GiveBack, TimePasses, Crash
<1>fault. (UNCHANGED faults \/ Fault) => faults' \in 0..MaxFaults
  BY <1>num, <1>type DEF Fault
<1>faults. faults' \in 0..MaxFaults
  BY <1>fault
  DEF Next, vars, Handler, Replay, SkipText, UpdateFails, Begin, Send, Complete, Fail, Claim, Defer,
      Resend, Acknowledge, GiveBack, TimePasses, Crash, Answered, Broken
<1>replay. replay' \in [Items -> {"idle", "claimed", "sent", "failed"}]
  BY <1>type
  DEF Next, vars, Handler, Replay, SkipText, UpdateFails, Begin, Send, Complete, Fail, Claim, Defer,
      Resend, Acknowledge, GiveBack, TimePasses, Crash, Step
<1> DEFINE Rest == card' \in BOOLEAN /\ at' \in Items \cup {0} /\ pc' \in Places
                   /\ sent' \in [Media -> 0..Cardinality(Items)] /\ Counted'
<1> SUFFICES Rest
  BY <1>row, <1>shown, <1>faults, <1>replay DEF TypeOK
<1>next. at # 0 /\ NextItem /\ (\A k \in Media : sent'[k] \in Nat /\ sent'[k] <= at) =>
           at' \in Items \cup {0} /\ pc' \in Places /\ Counted'
  <2>1. SUFFICES ASSUME at # 0, NextItem, \A k \in Media : sent'[k] \in Nat /\ sent'[k] <= at
                 PROVE  at' \in Items \cup {0} /\ pc' = "begin" /\ Counted'
    BY DEF Places
  <2>2. at \in Nat \ {0} /\ at' = (IF at + 1 \in Items THEN at + 1 ELSE 0)
    BY <2>1, <1>num, <1>type DEF NextItem, Next1
  <2>3. at' \in Items \cup {0} /\ (at' # 0 => at' = at + 1)
    BY <2>2
  <2> QED BY <2>1, <2>2, <2>3 DEF NextItem, Counted
<1>return. Return => at' \in Items \cup {0} /\ pc' \in Places /\ Counted'
  BY DEF Return, Places, Counted
<1>move. ASSUME NEW p \in Places, at # 0, pc \in {"begin", "send"}, p \in {"send", "complete", "fail"},
                Move(p), UNCHANGED <<card, sent>>
         PROVE  Rest
  BY <1>move, <1>num, <1>type DEF Move, Counted, Places
<1>low. at # 0 => \A k \in Media : sent[k] \in Nat /\ sent[k] <= at
  BY <1>num, <1>type DEF Counted
<1>1. CASE SkipText \/ UpdateFails
  BY <1>1, <1>type, <1>next, <1>low, <1>return DEF SkipText, UpdateFails
<1>2. CASE Begin
  BY <1>2, <1>type, <1>next, <1>low, <1>return, <1>move DEF Begin, Places
<1>3. CASE Send
  BY <1>3, <1>type, <1>move DEF Send, Places
<1>4. CASE Complete
  <2>1. at \in Items /\ \A k \in Media : sent[k] < at
    BY <1>4, <1>type DEF Complete, Counted
  <2>2. sent' \in [Media -> 0..Cardinality(Items)] /\ \A k \in Media : sent'[k] \in Nat /\ sent'[k] <= at
    <3>1. CASE UNCHANGED sent
      BY <2>1, <3>1, <1>num, <1>type
    <3>2. CASE KindOf[at] \in Media /\ sent' = [sent EXCEPT ![KindOf[at]] = @ + 1]
      BY <2>1, <3>2, <1>num, <1>type
    <3>3. KindOf[at] \in Media \cup {"text"}
      BY <2>1, <1>num
    <3> QED BY <1>4, <3>1, <3>2, <3>3 DEF Complete
  <2>3. Move("fail") => Rest
    BY <1>4, <2>1, <2>2, <1>num, <1>type DEF Move, Counted, Places, Complete
  <2> QED BY <1>4, <2>2, <2>3, <1>next, <1>type DEF Complete
<1>5. CASE Fail
  BY <1>5, <1>type, <1>next, <1>low, <1>return DEF Fail
<1>6. CASE Crash
  BY <1>6, <1>type DEF Crash, Counted, Places
<1>7. CASE UNCHANGED <<card, at, pc, sent>>
  BY <1>7, <1>type DEF Counted
<1>8. \A d \in Items : Defer(d) \/ Resend(d) \/ Acknowledge(d) \/ GiveBack(d) \/ TimePasses(d)
        => UNCHANGED <<card, at, pc, sent>>
  BY DEF Defer, Resend, Acknowledge, GiveBack, TimePasses
<1> QED
  BY <1>1, <1>2, <1>3, <1>4, <1>5, <1>6, <1>7, <1>8 DEF Next, vars, Handler, Replay, Claim

-----------------------------------------------------------------------------
(* What is shown                                                           *)

Shown(d) == TextOnce(d) /\ MediaOnce(d)

\* The handler does not come back to what it has done.
Onward == \/ UNCHANGED <<at, pc>>
          \/ at' = 0
          \/ at # 0 /\ at' = at + 1
          \/ at' = at /\ pc' \in {"complete", "fail"}
          \/ at' = at /\ pc = "begin"

(* The handler only goes on.                                               *)
LEMMA HandlerOnward == ASSUME TypeOK, [Next]_vars PROVE Onward
<1>1. at # 0 /\ NextItem => Onward
  BY DEF NextItem, Next1, Onward
<1>2. Return => Onward
  BY DEF Return, Onward
<1>3. Move("complete") \/ Move("fail") \/ (pc = "begin" /\ Move("send")) => Onward
  BY DEF Move, Onward
<1>4. SkipText \/ UpdateFails \/ Begin \/ Send \/ Complete \/ Fail => Onward
  BY <1>1, <1>2, <1>3 DEF SkipText, UpdateFails, Begin, Send, Complete, Fail
<1>5. \A d \in Items : Defer(d) \/ Resend(d) \/ Acknowledge(d) \/ GiveBack(d) \/ TimePasses(d)
        => UNCHANGED <<at, pc>>
  BY DEF Defer, Resend, Acknowledge, GiveBack, TimePasses
<1>6. Crash => Onward
  BY DEF Crash, Onward
<1>7. UNCHANGED <<at, pc>> => Onward
  BY DEF Onward
<1> QED BY <1>4, <1>5, <1>6, <1>7 DEF Next, vars, Handler, Replay, Claim

(* What was shown before is in order after any step that shows no more.    *)
LEMMA StillShown ==
  ASSUME TypeOK, Onward, NEW d \in Items, Shown(d), shown'[d] = shown[d],
         KindOf[d] = "text" => (<<"delivery", d>> \in uuids' <=> <<"delivery", d>> \in uuids)
  PROVE  Shown(d)'
<1>num. d \in Nat \ {0} /\ at \in Nat /\ shown[d] \in Nat
  BY Numbered DEF TypeOK
<1>1. TextOnce(d)'
  BY DEF Shown, TextOnce
<1>2. MediaOnce(d)'
  BY <1>num DEF Shown, MediaOnce, Onward
<1> QED BY <1>1, <1>2 DEF Shown

(* A step without a reply: nothing is shown, and nothing newly reported.   *)
LEMMA QuietStep ==
  ASSUME DInv, Onward, UNCHANGED <<uuids, shown>>,
         \A d \in Items : Reported(d)' => Reported(d)
  PROVE  /\ \A d \in Items : Shown(d)'
         /\ \A d \in Alone : AloneShown(d)'
<1>1. \A d \in Items : Shown(d)'
  BY StillShown DEF DInv, Shown
<1>2. \A d \in Alone : d \in Items /\ AloneShown(d)
  BY DEF DInv, Alone
<1>3. \A u : \A d \in Items : Mine(d, u)' <=> Mine(d, u)
  BY DEF Mine
<1>4. \A d \in Alone : AloneShown(d)'
  BY <1>2, <1>3 DEF AloneShown
<1> QED BY <1>1, <1>4

(* A reply: of a text, or of what the handler has come to.                 *)
LEMMA ReplyStep ==
  ASSUME DInv, Onward, NEW c \in Items, Reply(c),
         \/ KindOf[c] = "text"
         \/ at = c /\ pc = "send" /\ at' = at /\ pc' \in {"complete", "fail"},
         \A d \in Items \ {c} : Reported(d)' => Reported(d)
  PROVE  /\ \A d \in Items : Shown(d)'
         /\ \A d \in Alone : AloneShown(d)'
<1>type. TypeOK /\ shown \in [Items -> Nat] /\ at \in Nat /\ c \in Nat \ {0}
  BY Numbered DEF DInv, TypeOK
<1>reply. /\ shown' \in [Items -> Nat]
          /\ uuids' = uuids \cup {Uuid(c)}
          /\ shown'[c] = IF Uuid(c) \in uuids THEN shown[c] ELSE shown[c] + 1
          /\ \A e \in Items \ {c} : shown'[e] = shown[e]
          /\ \A e \in Alone \ {c} : ~Mine(e, Uuid(c))
          /\ Mine(c, Uuid(c))
          /\ KindOf[c] # "text" => \A e \in Items : Uuid(c) # <<"delivery", e>>
          /\ KindOf[c] = "text" => Uuid(c) = <<"delivery", c>>
  BY <1>type, OneReply
<1>shown. \A d \in Items : Shown(d)
  BY DEF DInv, Shown
<1>1. ASSUME NEW d \in Items \ {c} PROVE Shown(d)'
  <2>1. KindOf[d] = "text" => Uuid(c) # <<"delivery", d>>
    BY <1>reply
  <2>2. KindOf[d] = "text" => (<<"delivery", d>> \in uuids' <=> <<"delivery", d>> \in uuids)
    BY <2>1, <1>reply
  <2> QED BY <2>2, <1>type, <1>reply, <1>shown, StillShown
<1>2. Shown(c)'
  <2>1. CASE KindOf[c] = "text"
    BY <2>1, <1>type, <1>reply, <1>shown DEF Shown, TextOnce, MediaOnce
  <2>2. CASE KindOf[c] # "text"
    <3>1. shown[c] = 0
      BY <2>2, <1>type, <1>shown DEF Shown, MediaOnce
    <3>2. shown'[c] <= 1
      BY <3>1, <1>reply
    <3> QED BY <2>2, <3>2 DEF Shown, TextOnce, MediaOnce
  <2> QED BY <2>1, <2>2
<1>alone. \A d \in Alone : d \in Items /\ AloneShown(d)
  BY DEF DInv, Alone
<1>3. ASSUME NEW d \in Alone \ {c} PROVE AloneShown(d)'
  <2>1. \A u \in uuids' : Mine(d, u) => u \in uuids
    BY <1>reply
  <2>2. \A u : Mine(d, u)' <=> Mine(d, u)
    BY DEF Mine
  <2> QED BY <2>1, <2>2, <1>alone, <1>reply DEF AloneShown
<1>4. ASSUME c \in Alone PROVE AloneShown(c)'
  <2>1. Uuid(c) \in uuids => shown[c] > 0
    BY <1>4, <1>alone, <1>reply DEF AloneShown
  <2>2. shown'[c] > 0
    BY <2>1, <1>reply, <1>type
  <2> QED BY <2>2 DEF AloneShown
<1> QED BY <1>1, <1>2, <1>3, <1>4, <1>alone

(* Nobody reports a delivery who has not shown it: rows become DELIVERED   *)
(* by Complete and Acknowledge alone.                                      *)
LEMMA ReportsStay ==
  ASSUME TypeOK, [Next]_vars, NEW d \in Items, Reported(d)', ~Reported(d)
  PROVE  (Send /\ at = d) \/ Resend(d)
<1>type. row \in [Items -> Row] /\ replay \in [Items -> {"idle", "claimed", "sent", "failed"}]
  BY DEF TypeOK
<1>quiet. row[d].status # "DELIVERED" /\ replay[d] # "sent" /\ (at = d => pc # "complete")
  BY DEF Reported
<1>create. ASSUME NEW c \in Items, Create(c) PROVE row'[d].status # "DELIVERED"
  BY <1>create, <1>type, <1>quiet DEF Create
<1>retry. ASSUME NEW c \in Items, Finish(c, FALSE) PROVE row'[d].status # "DELIVERED"
  BY <1>retry, <1>type, <1>quiet DEF Finish
<1>other. ASSUME NEW c \in Items \ {d}, Finish(c, TRUE) PROVE row'[d].status # "DELIVERED"
  BY <1>other, <1>type, <1>quiet DEF Finish
<1>claim. ASSUME ClaimDue PROVE row'[d].status # "DELIVERED"
  BY <1>claim, <1>quiet DEF ClaimDue
<1>at. at # 0 => at \in Items
  BY DEF TypeOK
<1>0. d # 0 /\ (Return \/ NextItem \/ Move("fail") \/ Move("send") => ~(at' = d /\ pc' = "complete"))
  BY Numbered DEF Return, NextItem, Move
<1>1. ASSUME SkipText \/ UpdateFails PROVE FALSE
  BY <1>1, <1>0, <1>quiet DEF SkipText, UpdateFails, Reported
<1>2. ASSUME Begin PROVE FALSE
  BY <1>2, <1>0, <1>at, <1>create, <1>quiet DEF Begin, Reported, Answered, Broken
<1>3. ASSUME Send PROVE at = d
  BY <1>3, <1>0, <1>quiet DEF Send, Reported, Move
<1>4. ASSUME Complete PROVE FALSE
  BY <1>4, <1>0, <1>at, <1>other, <1>quiet DEF Complete, Reported, Answered, Broken
<1>5. ASSUME Fail PROVE FALSE
  BY <1>5, <1>0, <1>at, <1>retry, <1>quiet DEF Fail, Reported, Answered, Broken
<1>6. ASSUME Claim PROVE FALSE
  <2>1. replay'[d] # "sent"
    BY <1>6, <1>quiet DEF Claim
  <2> QED BY <1>6, <2>1, <1>claim, <1>quiet DEF Claim, Reported
<1>7. ASSUME NEW c \in Items, Defer(c) \/ GiveBack(c) PROVE FALSE
  <2>1. replay'[d] # "sent" /\ UNCHANGED <<at, pc>>
    BY <1>7, <1>type, <1>quiet DEF Defer, GiveBack, Step
  <2>2. row'[d].status # "DELIVERED"
    BY <1>7, <1>retry, <1>quiet DEF Defer, GiveBack, Answered, Broken
  <2> QED BY <2>1, <2>2, <1>quiet DEF Reported
<1>8. ASSUME NEW c \in Items, Acknowledge(c) PROVE FALSE
  <2>1. c # d /\ replay'[d] # "sent" /\ UNCHANGED <<at, pc>>
    BY <1>8, <1>type, <1>quiet DEF Acknowledge, Step
  <2>2. row'[d].status # "DELIVERED"
    BY <1>8, <2>1, <1>other, <1>quiet DEF Acknowledge, Answered, Broken
  <2> QED BY <2>1, <2>2, <1>quiet DEF Reported
<1>9. ASSUME NEW c \in Items, Resend(c) PROVE c = d
  BY <1>9, <1>type, <1>quiet DEF Resend, Step, Reported
<1>10. ASSUME NEW c \in Items, TimePasses(c) PROVE FALSE
  BY <1>10, <1>type, <1>quiet DEF TimePasses, Reported
<1>11. ASSUME Crash PROVE FALSE
  BY <1>11, <1>quiet, <1>0 DEF Crash, Reported
<1>12. ASSUME UNCHANGED vars PROVE FALSE
  BY <1>12, <1>quiet DEF vars, Reported
<1> QED
  BY <1>1, <1>2, <1>3, <1>4, <1>5, <1>6, <1>7, <1>8, <1>9, <1>10, <1>11, <1>12
  DEF Next, Handler, Replay

-----------------------------------------------------------------------------
(* The invariant and what follows from it                                  *)

(* Nothing is shown, claimed or recorded at the start.                     *)
LEMMA InitDelivery == Init => DInv
<1> SUFFICES ASSUME Init PROVE DInv
  OBVIOUS
<1>num. /\ Cardinality(Items) \in Nat /\ Items = 1..Cardinality(Items)
        /\ MaxFaults \in Nat
  BY Numbered, ItemsAssumption
<1>1. TypeOK
  <2>1. row \in [Items -> Row] /\ replay \in [Items -> {"idle", "claimed", "sent", "failed"}]
    BY DEF Init, Row
  <2>2. at \in Items \cup {0} /\ pc \in Places /\ card \in BOOLEAN
    BY DEF Init, First, Places
  <2>3. /\ sent \in [Media -> 0..Cardinality(Items)] /\ shown \in [Items -> Nat]
        /\ faults \in 0..MaxFaults
    BY <1>num DEF Init
  <2> QED BY <2>1, <2>2, <2>3 DEF TypeOK
<1>2. Counted
  BY DEF Init, First, Counted
<1>3. \A d \in Items : TextOnce(d) /\ MediaOnce(d)
  BY DEF Init, TextOnce, MediaOnce
<1>4. \A d \in Alone : AloneShown(d)
  BY DEF Init, Alone, AloneShown, Reported
<1> QED BY <1>1, <1>2, <1>3, <1>4 DEF DInv

(* Replies are those of the handler and of the replay thread; every other  *)
(* step is quiet.                                                          *)
LEMMA StepDelivery == DInv /\ [Next]_vars => DInv'
<1> SUFFICES ASSUME DInv, [Next]_vars PROVE DInv'
  OBVIOUS
<1>inv. TypeOK /\ Counted
  BY DEF DInv
<1>typed. (TypeOK /\ Counted)'
  BY <1>inv, StepTyped
<1>onward. Onward
  BY <1>inv, HandlerOnward
<1>reports. \A d \in Items : Reported(d)' /\ ~Reported(d) => (Send /\ at = d) \/ Resend(d)
  BY <1>inv, ReportsStay
<1> SUFFICES /\ \A d \in Items : Shown(d)'
             /\ \A d \in Alone : AloneShown(d)'
  BY <1>typed DEF DInv, Shown
<1>1. CASE Send /\ Reply(at)
  <2>1. at \in Items /\ pc = "send" /\ at' = at /\ pc' \in {"complete", "fail"}
    BY <1>1, <1>inv DEF Send, TypeOK, Move, Answered, Broken
  <2>2. \A d \in Items : ~Resend(d)
    <3>1. UNCHANGED replay
      BY <1>1 DEF Send
    <3>2. replay \in [Items -> {"idle", "claimed", "sent", "failed"}]
      BY <1>inv DEF TypeOK
    <3> QED BY <3>1, <3>2 DEF Resend, Step
  <2> QED BY <1>1, <2>1, <2>2, <1>onward, <1>reports, ReplyStep
<1>2. ASSUME NEW c \in Items, Resend(c), Reply(c)
      PROVE  /\ \A d \in Items : Shown(d)'
             /\ \A d \in Alone : AloneShown(d)'
  <2>1. KindOf[c] = "text"
    BY <1>2 DEF Resend
  <2>2. \A d \in Items \ {c} : Reported(d)' => Reported(d)
    <3>1. replay \in [Items -> {"idle", "claimed", "sent", "failed"}]
      BY <1>inv DEF TypeOK
    <3> QED BY <1>2, <3>1 DEF Resend, Step, Reported
  <2> QED BY <1>2, <2>1, <2>2, <1>onward, ReplyStep
<1>3. CASE Send /\ ~Reply(at) /\ UNCHANGED <<uuids, shown>>
  <2>1. \A d \in Items : Reported(d)' => Reported(d)
    BY <1>3 DEF Send, Reported, Move, Answered, Broken
  <2> QED BY <1>3, <2>1, <1>onward, QuietStep
<1>4. ASSUME NEW c \in Items, Resend(c), UNCHANGED <<uuids, shown>>, ~Reply(c)
      PROVE  /\ \A d \in Items : Shown(d)'
             /\ \A d \in Alone : AloneShown(d)'
  <2>1. \A d \in Items : Reported(d)' => Reported(d)
    <3>1. replay \in [Items -> {"idle", "claimed", "sent", "failed"}]
      BY <1>inv DEF TypeOK
    <3> QED BY <1>4, <3>1 DEF Resend, Step, Reported, Answered, Broken
  <2> QED BY <1>4, <2>1, <1>onward, QuietStep
<1>5. CASE ~Send /\ \A d \in Items : ~Resend(d)
  <2>1. \A d \in Items : Defer(d) \/ Acknowledge(d) \/ GiveBack(d) \/ TimePasses(d)
          => UNCHANGED <<uuids, shown>>
    BY DEF Defer, Acknowledge, GiveBack, TimePasses
  <2>2. UNCHANGED <<uuids, shown>>
    BY <1>5, <2>1
    DEF Next, vars, Handler, Replay, SkipText, UpdateFails, Begin, Complete, Fail, Claim, Crash
  <2> QED BY <1>5, <2>2, <1>reports, <1>onward, QuietStep
<1>6. Send => Reply(at) \/ UNCHANGED <<uuids, shown>>
  BY DEF Send, Answered, Broken
<1>7. \A d \in Items : Resend(d) => Reply(d) \/ UNCHANGED <<uuids, shown>>
  BY DEF Resend, Answered, Broken
<1> QED BY <1>1, <1>2, <1>3, <1>4, <1>5, <1>6, <1>7

(* The invariant: who has shown what, and by when.                         *)
THEOREM DeliveryInvariance == Spec => []DInv
<1>1. DInv /\ [Next]_vars => DInv'
  BY StepDelivery
<1> QED BY InitDelivery, <1>1, PTL DEF Spec

(* No step leaves the types, however long the list: the counters that make *)
(* up the uuids included.                                                  *)
THEOREM DeliveryTypes == Spec => []TypeOK
<1>1. DInv => TypeOK
  BY DEF DInv
<1> QED BY <1>1, DeliveryInvariance, PTL

(* The handler and the replay thread may both send a delivery, again after *)
(* lost answers, restarts and expired claims: the user sees it once.       *)
THEOREM UserSeesOnce == Spec => []ShownOnce
<1>1. DInv => ShownOnce
  <2> SUFFICES ASSUME DInv, NEW d \in Items PROVE shown[d] <= 1
    BY DEF ShownOnce
  <2>1. TextOnce(d) /\ MediaOnce(d)
    BY DEF DInv
  <2>2. CASE KindOf[d] = "text"
    BY <2>1, <2>2 DEF TextOnce
  <2>3. CASE KindOf[d] # "text"
    BY <2>1, <2>3 DEF MediaOnce
  <2> QED BY <2>2, <2>3
<1> QED BY <1>1, DeliveryInvariance, PTL

(* Every message whose deliveries are texts, one image and one download at *)
(* most: what is recorded as delivered was shown.  With two that share     *)
(* uuids it is not so, which is what run delivery_media finds.             *)
THEOREM RecordedWasShown ==
  ASSUME Alone = Items PROVE Spec => []DeliveredWasShown
<1>1. DInv => DeliveredWasShown
  BY DEF DInv, AloneShown, Reported, DeliveredWasShown
<1> QED BY <1>1, DeliveryInvariance, PTL

(* A late failure report or an expired claim does not put up a completed   *)
(* delivery again.                                                         *)
THEOREM RecordedStays == Spec => DeliveredIsFinal
<1>1. DInv /\ [Next]_vars =>
        [\A d \in Items : row[d].status = "DELIVERED" => row'[d] = row[d]]_vars
  BY RowsSettle DEF DInv
<1> QED BY <1>1, DeliveryInvariance, PTL DEF Spec, DeliveredIsFinal
=============================================================================
