---------------------------- MODULE Conversation ----------------------------
(***************************************************************************)
(* A session's memory: the file conversation.json, which turns append to   *)
(* and a first request may import from v1, and what the session's harness  *)
(* knows.  Composed with SessionBinding: every request that is given a     *)
(* session queues one run, and the worker takes its turn.                  *)
(*                                                                         *)
(* The leases of RunStore appear as far as turns depend on them: a session *)
(* has one live lease, and a task that lost its lease goes on.             *)
(***************************************************************************)
EXTENDS SessionBinding, SequencesExt

CONSTANTS
  Legacy,    \* Legacy[n]: the turns of the v1 file of the name, <<>> if none
  Size,      \* Size[x]: the bytes of a turn
  MaxTurns,  \* MEMORY_MAX_TURNS
  MaxBytes,  \* MEMORY_MAX_BYTES
  MaxFaults  \* bound: lost leases, crashes, failed writes

\* A turn, its prompt and answer, is named by its request.
Turns == Requests \cup UNION {ToSet(Legacy[n]) : n \in Names}

ASSUME MemoryAssumption ==
  /\ MaxTurns \in Nat \ {0} /\ MaxBytes \in Nat /\ MaxFaults \in Nat
  /\ Size \in [Turns -> Nat]
  /\ \A n \in Names : /\ Legacy[n] \in Seq(Turns)
                      /\ Requests \cap ToSet(Legacy[n]) = {}
  /\ None \notin Seq(Turns) /\ \A told \in SUBSET Turns : None # told

VARIABLES
  file,     \* file[i]: the turns in conversation.json; None: there is no file
  run,      \* run[q]: the run's status, and how often it was leased
  tasks,    \* the threads in execute_run_with_lease
  context,  \* context[k]: the turns the harness session k was told of, None if
            \* k is not in _hydrated_sessions
  lost,     \* history: lost[k]: the turns told to k with a prompt that k did not
            \* keep
  written,  \* history: written[i]: the turns appended to the file
  fresh,    \* history: ... in this process, and the turns of a v1 file that was
            \* imported over some
  faults

memory == <<file, run, tasks, context, lost, written, fresh, faults>>
cvars == <<published, sessions, binding, ask, at, uses,
           file, run, tasks, context, lost, written, fresh, faults>>

\* runtime_key; a session has one model.
Keys == Sources \X Ids
KeyOf(q) == <<ask[q].source, uses[q]>>

\* How a turn ends.  answered: harness.run returned an answer, now in the file.
\* unkept: it returned, with an answer that append_conversation_turn is not
\* called for.  failed: something raised.
Ends == {"answered", "unkept", "failed"}

\* told: the turns in the transcript before the prompt.  draft: the file to be.
Task == [run : Requests, lease : Nat, told : SUBSET Turns, draft : Seq(Turns),
         pc : {"waiting", "turn", "writing"} \cup Ends]

CInit == /\ InitBinding
         /\ file = [i \in Ids |-> None]
         /\ run = [q \in Requests |-> [status |-> "none", lease |-> 0]]
         /\ tasks = {}
         /\ context = [k \in Keys |-> None]
         /\ lost = [k \in Keys |-> {}]
         /\ written = [i \in Ids |-> <<>>]
         /\ fresh = [i \in Ids |-> {}]
         /\ faults = 0

-----------------------------------------------------------------------------
(* The file                                                                *)

Bytes(turns) ==
  LET sum[n \in 0..Len(turns)] == IF n = 0 THEN 0 ELSE sum[n - 1] + Size[turns[n]]
  IN sum[Len(turns)]

LastTurns(turns) == SubSeq(turns, IF Len(turns) > MaxTurns
                                  THEN Len(turns) - MaxTurns + 1 ELSE 1, Len(turns))

\* trim_conversation: the most recent turns that fit.
Trim(turns) == CHOOSE x \in Suffixes(LastTurns(turns)) :
  /\ Bytes(x) <= MaxBytes
  /\ \A y \in Suffixes(LastTurns(turns)) : Bytes(y) <= MaxBytes => Len(y) <= Len(x)

\* load_conversation
Load(i) == IF file[i] = None THEN <<>> ELSE LastTurns(file[i])

LegacyOf(i) == IF i \in Names THEN Legacy[i] ELSE <<>>

Fault == faults < MaxFaults /\ faults' = faults + 1

\* import_legacy_conversation looks for the files; no lock is taken.
LookForFile(q) ==
  /\ at[q] = "resolved"
  /\ Goto(q, IF file[uses[q]] = None /\ LegacyOf(uses[q]) # <<>>
             THEN "importing" ELSE "open")
  /\ UNCHANGED <<Tables, ask, memory>>

\* ... and its os.replace.
Import(q) ==
  /\ at[q] = "importing"
  /\ file' = [file EXCEPT ![uses[q]] = LegacyOf(uses[q])]
  /\ fresh' = IF written[uses[q]] = <<>> THEN fresh
              ELSE [fresh EXCEPT ![uses[q]] = @ \cup ToSet(LegacyOf(uses[q]))]
  /\ Goto(q, "open")
  /\ UNCHANGED <<Tables, ask, run, tasks, context, lost, written, faults>>

\* create_run, with what comes before the run is queued.
Submit(q) ==
  /\ at[q] = "open"
  /\ Goto(q, "submitted")
  /\ run' = [run EXCEPT ![q].status = "queued"]
  /\ UNCHANGED <<Tables, ask, file, tasks, context, lost, written, fresh, faults>>

-----------------------------------------------------------------------------
(* Turns                                                                   *)

\* claim_run or claim_next_run, and mark_running.
TakeLease(q) ==
  /\ run[q].status = "queued"
  /\ \A p \in Requests : run[p].status = "leased" => uses[p] # uses[q]
  /\ run' = [run EXCEPT ![q] = [status |-> "leased", lease |-> @.lease + 1]]
  /\ tasks' = tasks \cup {[run |-> q, lease |-> run'[q].lease, told |-> {},
                           draft |-> <<>>, pc |-> "waiting"]}
  /\ UNCHANGED <<resolving, file, context, lost, written, fresh, faults>>

Become(t, u) == tasks' = (tasks \ {t}) \cup {u}

\* session_lock(session_id), which run_turn holds from end to end.
LockFree(i) == \A t \in tasks :
  t.pc \in {"turn", "writing"} => uses[t.run] # i

HydrateSession(t) ==
  LET k == KeyOf(t.run)
  IN /\ t.pc = "waiting" /\ LockFree(uses[t.run])
     /\ \/ LET old == \E s \in Sources : context[<<s, uses[t.run]>>] # None
           IN /\ Become(t, [t EXCEPT !.pc = "turn",
                                     !.told = IF old THEN {} ELSE ToSet(Load(uses[t.run]))])
              /\ context' = [context EXCEPT ![k] = IF @ = None THEN {} ELSE @]
        \/ Become(t, [t EXCEPT !.pc = "failed"]) /\ UNCHANGED context
     /\ UNCHANGED <<resolving, file, run, lost, written, fresh, faults>>

EnterTurnUnlocked(t) ==
  LET k == KeyOf(t.run)
  IN /\ t.pc = "waiting"
     /\ Become(t, [t EXCEPT !.pc = "turn",
                            !.told = IF context[k] = None
                                     THEN ToSet(Load(uses[t.run])) ELSE {}])
     /\ context' = [context EXCEPT ![k] = IF @ = None THEN {} ELSE @]
     /\ UNCHANGED <<resolving, file, run, lost, written, fresh, faults>>

\* run_turn up to harness.run: the first turn of a harness session is told the
\* conversation.  The harness may fail to start.
EnterTurn(t) ==
  LET k == KeyOf(t.run)
  IN /\ t.pc = "waiting" /\ LockFree(uses[t.run])
     /\ \/ /\ Become(t, [t EXCEPT !.pc = "turn",
                                  !.told = IF context[k] = None
                                           THEN ToSet(Load(uses[t.run])) ELSE {}])
           /\ context' = [context EXCEPT ![k] = IF @ = None THEN {} ELSE @]
        \/ Become(t, [t EXCEPT !.pc = "failed"]) /\ UNCHANGED context
     /\ UNCHANGED <<resolving, file, run, lost, written, fresh, faults>>

AnswerToFile(t) ==
  /\ t.pc = "turn"
  /\ Become(t, IF file[uses[t.run]] = None THEN [t EXCEPT !.pc = "answered"]
               ELSE [t EXCEPT !.pc = "writing",
                              !.draft = Trim(Append(Load(uses[t.run]), t.run))])
  /\ context' = [context EXCEPT ![KeyOf(t.run)] = @ \cup t.told \cup {t.run}]
  /\ UNCHANGED <<resolving, file, run, lost, written, fresh, faults>>

\* harness.run returns an answer, and append_conversation_turn reads the file ...
Answer(t) ==
  /\ t.pc = "turn"
  /\ Become(t, [t EXCEPT !.pc = "writing",
                         !.draft = Trim(Append(Load(uses[t.run]), t.run))])
  /\ context' = [context EXCEPT ![KeyOf(t.run)] = @ \cup t.told \cup {t.run}]
  /\ UNCHANGED <<resolving, file, run, lost, written, fresh, faults>>

\* ... and replaces it, or raises.
WriteFile(t) ==
  LET i == uses[t.run]
  IN /\ t.pc = "writing"
     /\ \/ /\ file' = [file EXCEPT ![i] = t.draft]
           /\ written' = [written EXCEPT ![i] = Append(@, t.run)]
           /\ fresh' = [fresh EXCEPT ![i] = @ \cup {t.run}]
           /\ Become(t, [t EXCEPT !.pc = "answered"])
           /\ UNCHANGED faults
        \/ /\ Fault
           /\ Become(t, [t EXCEPT !.pc = "failed"])
           /\ UNCHANGED <<file, written, fresh>>
     /\ UNCHANGED <<resolving, run, context, lost>>

\* harness.run raises, or it returns with a finish reason other than completed
\* and max-tokens or without text.  Whether the harness keeps the prompt then is
\* unknown.
FailTurn(t) ==
  LET k == KeyOf(t.run)
  IN /\ t.pc = "turn"
     /\ \E pc \in {"unkept", "failed"} : Become(t, [t EXCEPT !.pc = pc])
     /\ \E kept \in {{}, t.told \cup {t.run}} :
          /\ context' = [context EXCEPT ![k] = @ \cup kept]
          /\ lost' = [lost EXCEPT ![k] = @ \cup (t.told \ kept)]
     /\ UNCHANGED <<resolving, file, run, written, fresh, faults>>

\* finish_run, only under the lease in force.  The status does not depend on what
\* was remembered: CANCELED if that was asked for; FAILED after an exception, one
\* of materialize_run_artifacts too, or if turn_error finds an error; else
\* SUCCEEDED with the answer there is, for which "answered" and "unkept" stand.
Finish(t) ==
  /\ t.pc \in Ends
  /\ tasks' = tasks \ {t}
  /\ IF run[t.run].status = "leased" /\ run[t.run].lease = t.lease
     THEN \E status \in IF t.pc = "failed" THEN {"failed"} ELSE {t.pc, "canceled", "failed"} :
            run' = [run EXCEPT ![t.run].status = status]
     ELSE run' = run
  /\ UNCHANGED <<resolving, file, context, lost, written, fresh, faults>>

-----------------------------------------------------------------------------
(* Faults                                                                  *)

\* A lease runs out under a live task, and the sweep queues the run again.
LoseLease(q) ==
  /\ run[q].status = "leased" /\ Fault
  /\ run' = [run EXCEPT ![q].status = "queued"]
  /\ UNCHANGED <<resolving, file, tasks, context, lost, written, fresh>>

\* The process dies, with its handlers; its leases run out.
Crash ==
  /\ Fault
  /\ at' = [q \in Requests |-> IF at[q] \in Resolving \cup {"resolved", "importing", "open"}
                               THEN "refused" ELSE at[q]]
  /\ run' = [q \in Requests |-> IF run[q].status = "leased"
                                THEN [run[q] EXCEPT !.status = "queued"] ELSE run[q]]
  /\ tasks' = {}
  /\ context' = [k \in Keys |-> None]
  /\ lost' = [k \in Keys |-> {}]
  /\ fresh' = [i \in Ids |-> {}]
  /\ UNCHANGED <<Tables, ask, uses, file, written>>

-----------------------------------------------------------------------------
Advance(t) == \/ EnterTurn(t) \/ Answer(t) \/ WriteFile(t)
              \/ FailTurn(t) \/ Finish(t)

CNext == \/ \E v \in Versions : Publish(v) /\ UNCHANGED memory
         \/ \E q \in Requests : Resolve(q) /\ UNCHANGED memory
         \/ \E q \in Requests : LookForFile(q) \/ Import(q) \/ Submit(q)
         \/ \E q \in Requests : TakeLease(q)
         \/ \E t \in tasks : Advance(t)
         \/ \E q \in Requests : LoseLease(q)
         \/ Crash

CSpec == CInit /\ [][CNext]_cvars

-----------------------------------------------------------------------------
(* Properties                                                              *)

CTypeOK == /\ BindingOK
           /\ \A q \in Requests :
                at[q] \in {"resolved", "importing", "open", "submitted"} => uses[q] # None
           /\ file \in [Ids -> Seq(Turns) \cup {None}]
           /\ run \in [Requests -> [lease : Nat,
                status : {"none", "queued", "leased", "canceled"} \cup Ends]]
           /\ tasks \subseteq Task
           /\ context \in [Keys -> (SUBSET Turns) \cup {None}]
           /\ faults \in 0..MaxFaults

\* The conversation of i, without the n oldest of the turns it wrote.
Conversation(i, n) ==
  LegacyOf(i) \o SubSeq(written[i], n + 1, Len(written[i]))

(* The file holds the most recent turns that fit, in order, each as often   *)
(* as it was appended, whatever stale tasks, retries and restarts did.      *)
FileIsRecentHistory == \A i \in Ids : LegacyOf(i) = <<>> =>
  file[i] = IF written[i] = <<>> THEN None ELSE Trim(written[i])

(* Where there is a v1 file its turns come first, and what the import may   *)
(* cost is the oldest of the turns that other first requests appended       *)
(* meanwhile (ImportOverwritesNothing), never one appended after it.        *)
ImportedFileIsHistory == \A i \in Ids : LegacyOf(i) # <<>> =>
  IF file[i] = None THEN written[i] = <<>>
  ELSE \E n \in 0..Len(written[i]) :
         file[i] = IF n = Len(written[i]) THEN LegacyOf(i)
                   ELSE Trim(Conversation(i, n))

(* "Copy a v1 conversation once without overwriting session-owned state."   *)
(* (import_legacy_conversation): a file is replaced only by what a turn     *)
(* makes of it.                                                             *)
ImportOverwritesNothing == [][\A i \in Ids :
  file[i] # None /\ file'[i] # file[i] => written'[i] # written[i]]_cvars

(* A run that SUCCEEDED with a complete answer is remembered, and no turn   *)
(* is remembered more often than once and once more per fault.  An answer   *)
(* that is cut short in another way than by max-tokens, or is empty, may be *)
(* a run's result and is not remembered: "unkept".                          *)
TurnsRemembered == \A q \in Requests :
  LET copies == {j \in DOMAIN written[uses[q]] : written[uses[q]][j] = q}
  IN uses[q] # None =>
       /\ run[q].status = "answered" => copies # {}
       /\ Cardinality(copies) <= 1 + faults

(* "restart-safe external conversation continuity" (run_turn): a turn knows *)
(* the conversation in the file, from the harness session it is in or from  *)
(* the transcript it is told, but for what another source or an import over *)
(* turns put there in the same process, and for what the harness session    *)
(* was told with a prompt it did not keep.                                  *)
Foreign(x, source) == x \in Requests => ask[x].source # source
TurnsKnowHistory == \A t \in tasks : t.pc = "turn" =>
  LET k == KeyOf(t.run)
      known == context[k] \cup t.told \cup lost[k]
  IN \A x \in ToSet(Load(uses[t.run])) :
       x \in known \/ (x \in fresh[uses[t.run]] /\ Foreign(x, ask[t.run].source))
=============================================================================
