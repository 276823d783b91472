------------------------------ MODULE RunInputs ------------------------------
(***************************************************************************)
(* How a Feishu run gets its message and its input files: the handlers     *)
(* prepare_internal_run and finalize_internal_run_inputs of server.py over *)
(* the run table.  Finalizing takes several transactions and file          *)
(* operations, with the scheduler, cancels and the preparation timeout in  *)
(* between.  A run is finalized by one request at a time.                  *)
(***************************************************************************)
EXTENDS RunStore

CONSTANT Digests   \* the contents of input files, by their sha256

VARIABLES
  names,     \* names[r]: the files that runs.message names
  inbox,     \* inbox[r]: the files in the directory inbox/<run id>
  recorded,  \* recorded[r]: the digests in the run's rows of run_inputs
  call       \* call[r]: the latest finalize request and where its handler is

inputs == <<names, inbox, recorded, call>>

\* A file as it was put into the inbox, by its place in the request, or under
\* its digest.
Ingress(i)  == <<"ingress", i>>
Manifest(d) == <<"manifest", d>>
Files == {"ingress"} \X Nat \cup {"manifest"} \X Digests

CallPlaces == {"none", "arrived", "message", "copying", "paths", "queueing",
               "accepted", "refused"}

\* items: the digests the request announces, in its order; located: every item
\* has a workspace_path; next: the item to copy.
Call == [pc : CallPlaces, items : Seq(Digests), located : BOOLEAN, next : Nat]

NoCall == [pc |-> "none", items |-> <<>>, located |-> TRUE, next |-> 1]

InitInputs == /\ names = [r \in Runs |-> {}]
              /\ inbox = [r \in Runs |-> {}]
              /\ recorded = [r \in Runs |-> {}]
              /\ call = [r \in Runs |-> NoCall]

-----------------------------------------------------------------------------
Contents(items) == {items[i] : i \in DOMAIN items}

At(r, pc) == call[r].pc = pc
GoOn(r, pc) == call' = [call EXCEPT ![r].pc = pc]
Refuse(r) == GoOn(r, "refused") /\ UNCHANGED <<names, inbox, recorded>>

\* create_run with status PREPARING; the message prepared names no files.
PrepareRun(r) == /\ CreateRun(r)
                 /\ row'[r].status = "PREPARING"
                 /\ UNCHANGED inputs

\* A request to finalize the inputs, with these items.
Request(r, items, located) ==
  /\ call' = [call EXCEPT ![r] = [pc |-> "arrived", items |-> items,
                                  located |-> located, next |-> 1]]
  /\ UNCHANGED <<names, recorded>>

\* The status is checked; a final manifest is answered as it is; an item
\* without a workspace_path is answered 400.
Admit(r) ==
  /\ At(r, "arrived")
  /\ GoOn(r, CASE row[r].status = "QUEUED" -> "accepted"
               [] row[r].status = "PREPARING"
                  /\ (call[r].located \/ call[r].items = <<>>) -> "message"
               [] OTHER -> "refused")
  /\ UNCHANGED <<names, inbox, recorded>>

\* update_prepared_run_message: only while the run is in preparation.
SetMessage(r, files, pc) ==
  IF row[r].status = "PREPARING"
  THEN /\ names' = [names EXCEPT ![r] = files]
       /\ GoOn(r, pc)
       /\ UNCHANGED <<inbox, recorded>>
  ELSE Refuse(r)

\* The message with the bridge's paths.
UpdateMessage(r) ==
  /\ At(r, "message")
  /\ SetMessage(r, {Ingress(i) : i \in DOMAIN call[r].items}, "copying")

ItemSeen(r, i) == \E j \in 1..(i - 1) : call[r].items[j] = call[r].items[i]

\* materialize_run_inputs, one item: verified, copied to its digest's name,
\* recorded, and removed under its old name; a repeated digest is skipped.  The
\* run's status is not looked at.
CopyInput(r) ==
  LET i == call[r].next
      d == call[r].items[i]
  IN /\ At(r, "copying") /\ i \in DOMAIN call[r].items
     /\ IF ItemSeen(r, i)
        THEN /\ call' = [call EXCEPT ![r].next = @ + 1]
             /\ UNCHANGED <<names, inbox, recorded>>
        ELSE IF Ingress(i) \in inbox[r]
        THEN /\ inbox' = [inbox EXCEPT ![r] = (@ \ {Ingress(i)}) \cup {Manifest(d)}]
             /\ recorded' = [recorded EXCEPT ![r] = @ \cup {d}]
             /\ call' = [call EXCEPT ![r].next = @ + 1]
             /\ UNCHANGED names
        ELSE Refuse(r)

CopiedAll(r) == /\ At(r, "copying") /\ call[r].next > Len(call[r].items)
                /\ GoOn(r, "paths")
                /\ UNCHANGED <<names, inbox, recorded>>

UpdatePathsSkipped(r) == /\ At(r, "paths") /\ GoOn(r, "queueing")
                         /\ UNCHANGED <<names, inbox, recorded>>

\* replace_ingress_paths: a path becomes that of the item's digest.
UpdatePaths(r) ==
  /\ At(r, "paths")
  /\ SetMessage(r, {Manifest(d) : d \in Contents(call[r].items)}, "queueing")

\* The steps of the handler that change the run's inputs only.
HandleInputs(r) ==
  /\ Admit(r) \/ UpdateMessage(r) \/ CopyInput(r) \/ CopiedAll(r) \/ UpdatePaths(r)
  /\ UNCHANGED <<row, log, grants>>

\* finalize_input_manifest, and the answer.
Queue(r) ==
  /\ At(r, "queueing")
  /\ UNCHANGED <<names, inbox, recorded>>
  /\ \/ FinalizeInputManifest(r) /\ GoOn(r, "accepted")
     \/ /\ row[r].status \in Terminal
        /\ GoOn(r, "refused")
        /\ UNCHANGED <<row, log, grants>>

Handling(r) == call[r].pc \notin {"none", "accepted", "refused"}

\* An exception that is neither ControlPlaneError nor ApiError, or the end of
\* the process: there is no answer.
HandlerDies(r) == /\ Handling(r)
                  /\ Refuse(r)
                  /\ UNCHANGED <<row, log, grants>>

-----------------------------------------------------------------------------
(* Properties                                                              *)

InputsOK == /\ names \in [Runs -> SUBSET Files]
            /\ inbox \in [Runs -> SUBSET Files]
            /\ recorded \in [Runs -> SUBSET Digests]
            /\ call \in [Runs -> Call]

(* When an executor can have a run, its message names exactly the recorded  *)
(* inputs, under their digests, each is in the inbox, and they are the      *)
(* request's: however the handler was interleaved with cancels and the      *)
(* preparation timeout, failed half-way or was asked again.                 *)
ExecutedInputsComplete == \A r \in Runs :
  row[r].epoch > 0 \/ row[r].status = "QUEUED" =>
    /\ names[r] = {Manifest(d) : d \in recorded[r]}
    /\ names[r] \subseteq inbox[r]
    /\ recorded[r] = Contents(call[r].items)
=============================================================================
