------------------------------ MODULE Delivery ------------------------------
(***************************************************************************)
(* User-visible deliveries of one answered Feishu message: the deliveries  *)
(* table of control_plane.py, the handler of bridge.py that sends what the *)
(* run produced, and the bridge's replay thread, which claims every        *)
(* delivery that is due, the handler's own included.                       *)
(*                                                                         *)
(* Feishu, the destination, shows a reply once per uuid and answers a      *)
(* repeated uuid with success.  Every call from the bridge, to the Worker  *)
(* or to Feishu, may fail before or after it took effect: one fault each.  *)
(***************************************************************************)
EXTENDS Naturals, Sequences, FiniteSets

CONSTANTS
  Items,      \* the deliveries of the message, 1..n, in the order the handler
              \* takes them: images, audio, files, then the text of the answer
  KindOf,     \* "image", "audio", "file" or "text"
  MaxFaults   \* bound: failed calls and crashes of the bridge

Media == {"image", "audio", "file"}

ASSUME ItemsAssumption == /\ IsFiniteSet(Items) /\ Items = 1..Cardinality(Items)
                          /\ \A d \in Items : KindOf[d] \in Media \cup {"text"}
                          /\ MaxFaults \in Nat

VARIABLES
  row,     \* row[d]: the delivery's row
  card,    \* the message has a streaming card, which then carries the text
  at,      \* the handler's item; 0 when it has returned or is gone
  pc,      \* what the handler does with it
  sent,    \* len(delivered) in deliver_image_artifacts, ..._audio_..., ..._file_...
  replay,  \* replay[d]: what replay_due_text_deliveries does with d
  uuids,   \* the uuids Feishu has seen
  shown,   \* shown[d]: messages with d's content that the user sees
  faults

vars == <<row, card, at, pc, sent, replay, uuids, shown, faults>>

\* ripe: next_attempt_at has come, or for a DELIVERING row: updated_at is older
\* than delivery_lease_seconds.
Row == [status : {"ABSENT", "PENDING", "DELIVERING", "RETRY", "DELIVERED"},
        ripe : BOOLEAN]

Places == {"begin", "send", "complete", "fail"}

First == IF 1 \in Items THEN 1 ELSE 0

Init == /\ row = [d \in Items |-> [status |-> "ABSENT", ripe |-> FALSE]]
        /\ card \in BOOLEAN
        /\ at = First /\ pc = "begin"
        /\ sent = [k \in Media |-> 0]
        /\ replay = [d \in Items |-> "idle"]
        /\ uuids = {}
        /\ shown = [d \in Items |-> 0]
        /\ faults = 0

-----------------------------------------------------------------------------
(* The table                                                               *)

\* create_delivery: a row with the key is returned as it is.
Create(d) == row' = IF row[d].status = "ABSENT"
                    THEN [row EXCEPT ![d] = [status |-> "PENDING", ripe |-> TRUE]]
                    ELSE row

FinishFailed(d, delivered) ==
  row' = [row EXCEPT ![d] = [status |-> IF delivered THEN "DELIVERED" ELSE "FAILED",
                             ripe |-> FALSE]]
FinishAlways(d, delivered) ==
  row' = [row EXCEPT ![d] = [status |-> IF delivered THEN "DELIVERED" ELSE "RETRY",
                             ripe |-> FALSE]]

\* finish_delivery: whoever calls it, and whatever the row's state, short of a
\* terminal one.
Finish(d, delivered) ==
  row' = IF row[d].status = "DELIVERED" THEN row
         ELSE [row EXCEPT ![d] = [status |-> IF delivered THEN "DELIVERED" ELSE "RETRY",
                                  ripe |-> FALSE]]

ClaimOnlyRetries == {d \in Items : row[d].status = "RETRY" /\ row[d].ripe}

\* The rows claim_due_deliveries takes: due ones, and those whose lease ran out.
Due == {d \in Items : row[d].ripe /\ row[d].status \in {"PENDING", "RETRY", "DELIVERING"}}

ClaimDue == row' = [d \in Items |-> IF d \in Due
                                    THEN [status |-> "DELIVERING", ripe |-> FALSE]
                                    ELSE row[d]]

-----------------------------------------------------------------------------
(* Calls and the destination                                               *)

\* A call that takes effect and whose answer comes back; one that fails for the
\* caller although it took effect, or before it did.
Answered(effect) == effect /\ UNCHANGED faults
Fault == faults < MaxFaults /\ faults' = faults + 1
Broken(effect, state) == Fault /\ (effect \/ UNCHANGED state)

UuidPerAttempt(d) == <<"delivery", d, Cardinality(uuids)>>

\* append_image adds an element to the card, with a new uuid; reply_image counts
\* the images it sent.
ImageUuid(d) == IF card THEN <<"element", d>> ELSE <<"image", sent["image"]>>

\* The uuid of a reply: the delivery's own for a text, the message's with the
\* number of attachments already sent by the same function for a download.
Uuid(d) == IF KindOf[d] = "text" THEN <<"delivery", d>>
           ELSE IF KindOf[d] = "image" THEN ImageUuid(d)
           ELSE <<"download", sent[KindOf[d]]>>

\* The destination: a uuid is shown once.
Reply(d) == /\ uuids' = uuids \cup {Uuid(d)}
            /\ shown' = IF Uuid(d) \in uuids THEN shown ELSE [shown EXCEPT ![d] = @ + 1]

-----------------------------------------------------------------------------
(* The message handler                                                     *)

Next1 == IF at + 1 \in Items THEN at + 1 ELSE 0

Move(place) == pc' = place /\ UNCHANGED at
NextItem == pc' = "begin" /\ at' = Next1
\* A failed text ends the handler, after the error reply.
Return == pc' = "begin" /\ at' = 0

\* With a card the text is no delivery.
SkipText == /\ at # 0 /\ pc = "begin" /\ KindOf[at] = "text" /\ card
            /\ NextItem
            /\ UNCHANGED <<row, card, sent, replay, uuids, shown, faults>>

\* Before the first item of a kind, and after the last item, the card is updated;
\* when that raises the handler ends with the error reply.
UpdateFails == /\ at # 0 /\ pc = "begin" /\ card
               /\ \A d \in 1..(at - 1) : KindOf[d] # KindOf[at]
               /\ Fault /\ Return
               /\ UNCHANGED <<row, card, sent, replay, uuids, shown>>

\* begin_delivery; when it raises there is no delivery id to fail.
Begin == /\ at # 0 /\ pc = "begin" /\ ~(KindOf[at] = "text" /\ card)
         /\ \/ Answered(Create(at)) /\ Move("send")
            \/ /\ Broken(Create(at), row)
               /\ IF KindOf[at] = "text" THEN Return ELSE NextItem
         /\ UNCHANGED <<card, sent, replay, uuids, shown>>

\* The reply; audio needs the card.
Send == /\ at # 0 /\ pc = "send"
        /\ \/ /\ KindOf[at] = "audio" => card
              /\ \/ Answered(Reply(at)) /\ Move("complete")
                 \/ Broken(Reply(at), <<uuids, shown>>) /\ Move("fail")
           \/ /\ KindOf[at] = "audio" /\ ~card
              /\ Move("fail")
              /\ UNCHANGED <<uuids, shown, faults>>
        /\ UNCHANGED <<row, card, sent, replay>>

\* A file, and an image without a card, count when the reply brought an id; audio
\* without an id is a failure.
MayNotCount == KindOf[at] \in {"text", "file"} \/ (KindOf[at] = "image" /\ ~card)

\* complete_delivery
Complete == /\ at # 0 /\ pc = "complete"
            /\ \/ KindOf[at] # "text" /\ sent' = [sent EXCEPT ![KindOf[at]] = @ + 1]
               \/ MayNotCount /\ UNCHANGED sent
            /\ \/ Answered(Finish(at, TRUE)) /\ NextItem
               \/ Broken(Finish(at, TRUE), row) /\ Move("fail")
            /\ UNCHANGED <<card, replay, uuids, shown>>

\* fail_delivery swallows its own failure.
Fail == /\ at # 0 /\ pc = "fail"
        /\ Answered(Finish(at, FALSE)) \/ Broken(Finish(at, FALSE), row)
        /\ IF KindOf[at] = "text" THEN Return ELSE NextItem
        /\ UNCHANGED <<card, sent, replay, uuids, shown>>

-----------------------------------------------------------------------------
(* The replay thread                                                       *)

\* claim_worker_deliveries; when the answer is lost the rows stay claimed.
Claim == /\ \A d \in Items : replay[d] = "idle"
         /\ Due # {}
         /\ ClaimDue
         /\ \/ /\ replay' = [d \in Items |-> IF d \in Due THEN "claimed" ELSE "idle"]
               /\ UNCHANGED faults
            \/ Fault /\ UNCHANGED replay
         /\ UNCHANGED <<card, at, pc, sent, uuids, shown>>

Step(d, place) == replay' = [replay EXCEPT ![d] = place]

\* What is no text is put off; nothing is sent.
Defer(d) == /\ replay[d] = "claimed" /\ KindOf[d] # "text"
            /\ Answered(Finish(d, FALSE)) \/ Broken(Finish(d, FALSE), row)
            /\ Step(d, "idle")
            /\ UNCHANGED <<card, at, pc, sent, uuids, shown>>

ResendIgnoresErrors(d) == /\ replay[d] = "claimed" /\ KindOf[d] = "text"
                          /\ \/ Answered(Reply(d))
                             \/ Broken(Reply(d), <<uuids, shown>>)
                          /\ Step(d, "sent")
                          /\ UNCHANGED <<row, card, at, pc, sent>>

Resend(d) == /\ replay[d] = "claimed" /\ KindOf[d] = "text"
             /\ \/ Answered(Reply(d)) /\ Step(d, "sent")
                \/ Broken(Reply(d), <<uuids, shown>>) /\ Step(d, "failed")
             /\ UNCHANGED <<row, card, at, pc, sent>>

Acknowledge(d) == /\ replay[d] = "sent"
                  /\ \/ Answered(Finish(d, TRUE)) /\ Step(d, "idle")
                     \/ Broken(Finish(d, TRUE), row) /\ Step(d, "failed")
                  /\ UNCHANGED <<card, at, pc, sent, uuids, shown>>

GiveBack(d) == /\ replay[d] = "failed"
               /\ Answered(Finish(d, FALSE)) \/ Broken(Finish(d, FALSE), row)
               /\ Step(d, "idle")
               /\ UNCHANGED <<card, at, pc, sent, uuids, shown>>

-----------------------------------------------------------------------------
\* retry_after_seconds or delivery_lease_seconds go by.
TimePasses(d) == /\ row[d].status \in {"RETRY", "DELIVERING"} /\ ~row[d].ripe
                 /\ row' = [row EXCEPT ![d].ripe = TRUE]
                 /\ UNCHANGED <<card, at, pc, sent, replay, uuids, shown, faults>>

\* The bridge restarts; the message stays "processing" and is not taken again.
Crash == /\ Fault
         /\ at' = 0 /\ pc' = "begin"
         /\ replay' = [d \in Items |-> "idle"]
         /\ UNCHANGED <<row, card, sent, uuids, shown>>

Handler == SkipText \/ UpdateFails \/ Begin \/ Send \/ Complete \/ Fail
Replay == Claim \/ \E d \in Items : \/ Defer(d) \/ Resend(d)
                                    \/ Acknowledge(d) \/ GiveBack(d)

Next == Handler \/ Replay \/ (\E d \in Items : TimePasses(d)) \/ Crash

\* Both threads run, and time goes on.
Spec == /\ Init /\ [][Next]_vars
        /\ WF_vars(Handler) /\ WF_vars(Replay)
        /\ \A d \in Items : WF_vars(TimePasses(d))

-----------------------------------------------------------------------------
(* Properties                                                              *)

TypeOK == /\ row \in [Items -> Row]
          /\ card \in BOOLEAN
          /\ at \in Items \cup {0} /\ pc \in Places
          /\ sent \in [Media -> 0..Cardinality(Items)]
          /\ replay \in [Items -> {"idle", "claimed", "sent", "failed"}]
          /\ shown \in [Items -> Nat] /\ faults \in 0..MaxFaults

(* "delivers registered Worker artifacts" (docs/feishu-channel-deployment): *)
(* what the table records as delivered, the user sees.                      *)
DeliveredWasShown == \A d \in Items : row[d].status = "DELIVERED" => shown[d] > 0

(* A delivery is shown at most once, although the handler and, for a text,  *)
(* the replay thread may both send it, again after lost answers and         *)
(* restarts.                                                                *)
ShownOnce == \A d \in Items : shown[d] <= 1

(* A completed delivery stays completed: a late failure report of the other *)
(* thread, or an expired claim, does not put it up for another attempt.     *)
DeliveredIsFinal == [][\A d \in Items :
  row[d].status = "DELIVERED" => row'[d] = row[d]]_vars

(* A text that was registered reaches the user and is recorded, whatever    *)
(* call fails and wherever the bridge dies.                                 *)
TextReachesUser == \A d \in Items : KindOf[d] = "text" =>
  (row[d].status # "ABSENT" ~> row[d].status = "DELIVERED" /\ shown[d] = 1)
=============================================================================
