---------------------------- MODULE HistoryProofs ----------------------------
(***************************************************************************)
(* Theorems of Conversation about the file and what turns know of it: for  *)
(* every set of requests, names and conversations, every v1 file, every    *)
(* size of a turn, every limit of the file and any number of faults.       *)
(***************************************************************************)
EXTENDS ConversationProofs, TrimProofs

-----------------------------------------------------------------------------
(* Types                                                                   *)

\* A turn takes place in a harness session that _hydrated_sessions holds.
TypesInv == /\ CTypeOK
            /\ fresh \in [Ids -> SUBSET Turns]
            /\ DOMAIN lost = Keys
            /\ \A t \in tasks : t.pc = "turn" => context[KeyOf(t.run)] # None

(* A step of another request on its way to a session leaves those that     *)
(* have theirs alone, and moves none of them on.                           *)
LEMMA OthersResolve ==
  ASSUME MemoryInv,
         \/ \E v \in Versions : Publish(v)
         \/ \E q \in Requests : Resolve(q)
  PROVE  /\ \A p \in Requests : at[p] \in {"resolved", "importing", "open", "submitted"} =>
              at'[p] = at[p] /\ uses'[p] = uses[p] /\ ask'[p] = ask[p]
         /\ \A p \in Requests : at'[p] \in {"importing", "open", "submitted"} => at'[p] = at[p]
         /\ \A p \in Requests : at'[p] = "resolved" => uses'[p] # None
<1>0. BindingInv /\ BindingOK /\ \A p \in Requests : TurnOK(p)
  BY DEF MemoryInv, BindingInv
<1>1. CASE \E v \in Versions : Publish(v)
  BY <1>0, <1>1 DEF Publish, TurnOK
<1>2. ASSUME NEW q \in Requests, Resolve(q)
      PROVE  /\ at[q] \notin {"resolved", "importing", "open", "submitted"}
             /\ at'[q] \notin {"importing", "open", "submitted"}
             /\ at'[q] = "resolved" => uses'[q] # None
             /\ \A p \in Requests \ {q} : /\ at'[p] = at[p] /\ uses'[p] = uses[p]
                                          /\ ask'[p] = ask[p]
  <2>1. /\ at'[q] \in Resolving \cup {"refused", "resolved"}
        /\ at'[q] = "resolved" => uses'[q] # None
        /\ \A p \in Requests \ {q} : at'[p] = at[p] /\ uses'[p] = uses[p]
    BY <1>0, <1>2, ResolveMoves
  <2>2. at[q] \in {"none", "inserting", "creating", "binding"}
    BY <1>2 DEF Resolve, Arrive, InsertNamed, CreateSession, Bind
  <2>3. \A p \in Requests \ {q} : ask'[p] = ask[p]
    BY <1>0, <1>2 DEF Resolve, Arrive, InsertNamed, CreateSession, Bind, BindingOK
  <2> QED BY <2>1, <2>2, <2>3 DEF Resolving
<1>3. CASE \E q \in Requests : Resolve(q)
  <2>1. PICK q \in Requests : Resolve(q)
    BY <1>3
  <2> QED BY <1>0, <1>2, <2>1 DEF TurnOK
<1> QED BY <1>1, <1>3

(* The request of a task has its session, and asked for it.                *)
LEMMA TaskKey ==
  ASSUME MemoryInv, NEW t \in tasks
  PROVE  /\ t.run \in Requests /\ at[t.run] = "submitted" /\ uses[t.run] \in Ids
         /\ ask[t.run].source \in Sources /\ KeyOf(t.run) \in Keys
<1>1. /\ t.run \in Requests /\ run[t.run].status # "none" /\ uses[t.run] \in Ids
      /\ TurnOK(t.run) /\ Pending(t.run)
  BY TaskOfRun DEF MemoryInv, BindingInv
<1>2. at[t.run] = "submitted"
  BY <1>1 DEF TurnOK
<1>3. ask[t.run] \in Ask
  BY <1>1, <1>2, NamesAssumption DEF Pending
<1>4. ask[t.run].source \in Sources
  BY <1>3 DEF Ask
<1> QED BY <1>1, <1>2, <1>4 DEF KeyOf, Keys

(* What is loaded is a sequence of turns.                                  *)
LEMMA LoadType ==
  ASSUME NEW i \in Ids, file[i] = None \/ file[i] \in Seq(Turns)
  PROVE  Load(i) \in Seq(Turns) /\ ToSet(Load(i)) \subseteq Turns
<1>1. Load(i) \in Seq(Turns)
  BY TrimProperties, EmptySeq DEF Load
<1> QED BY <1>1 DEF ToSet

(* A v1 file holds turns, and none of a request.                           *)
LEMMA LegacyType ==
  ASSUME NEW i \in Ids
  PROVE  /\ LegacyOf(i) \in Seq(Turns) /\ ToSet(LegacyOf(i)) \subseteq Turns
         /\ Requests \cap ToSet(LegacyOf(i)) = {}
<1>1. LegacyOf(i) \in Seq(Turns)
  BY MemoryAssumption DEF LegacyOf
<1>2. Requests \cap ToSet(LegacyOf(i)) = {}
  BY MemoryAssumption DEF LegacyOf, ToSet
<1> QED BY <1>1, <1>2 DEF ToSet

(* A turn is named by its request.                                         *)
LEMMA RequestsAreTurns == Requests \subseteq Turns
  BY DEF Turns

(* The types, when a task moves on: its session's file, its key's context  *)
(* and the history are of the right type.                                  *)
LEMMA AdvanceTypes ==
  ASSUME MemoryInv, MemoryInv', TypesInv, NEW t \in tasks, Advance(t) PROVE TypesInv'
<1> DEFINE q == t.run
           i == uses[q]
           k == KeyOf(q)
<1>0. /\ q \in Requests /\ i \in Ids /\ k \in Keys /\ q \in Turns
      /\ t \in Task /\ tasks \subseteq Task /\ fresh \in [Ids -> SUBSET Turns]
      /\ context \in [Keys -> (SUBSET Turns) \cup {None}]
      /\ file \in [Ids -> Seq(Turns) \cup {None}]
      /\ \A u \in tasks : u.pc = "turn" => context[KeyOf(u.run)] # None
      /\ faults \in 0..MaxFaults /\ MaxFaults \in Nat
  BY TaskKey, RequestsAreTurns, MemoryAssumption DEF TypesInv, CTypeOK
<1>1. UNCHANGED resolving
  BY DEF Advance, EnterTurn, Answer, WriteFile, FailTurn, Finish
<1>keys. \A r : KeyOf(r)' = KeyOf(r)
  BY <1>1 DEF KeyOf, resolving
<1>none. \A told \in SUBSET Turns : None # told
  BY MemoryAssumption
<1>lost. DOMAIN lost' = Keys
  BY DEF Advance, EnterTurn, Answer, WriteFile, FailTurn, Finish, TypesInv
<1>load. Load(i) \in Seq(Turns) /\ ToSet(Load(i)) \in SUBSET Turns
  BY <1>0, LoadType
<1> HIDE DEF q, i, k
<1>rest. ASSUME tasks' \subseteq Task, context' \in [Keys -> (SUBSET Turns) \cup {None}],
                fresh' \in [Ids -> SUBSET Turns],
                file' \in [Ids -> Seq(Turns) \cup {None}],
                faults' \in 0..MaxFaults,
                \A u \in tasks' : u.pc = "turn" => context'[KeyOf(u.run)] # None
         PROVE  TypesInv'
  <2>1. CTypeOK'
    <3>1. BindingOK' /\ run' \in [Requests -> [lease : Nat, status : Statuses]]
          /\ \A p \in Requests : TurnOK(p)'
      BY DEF MemoryInv, BindingInv
    <3>2. \A p \in Requests : at'[p] \in {"resolved", "importing", "open", "submitted"} => uses'[p] # None
      BY <3>1 DEF TurnOK
    <3> QED BY <1>rest, <3>1, <3>2 DEF CTypeOK, Statuses, Ends
  <2> QED BY <1>rest, <1>keys, <1>lost, <2>1 DEF TypesInv
<1>move. ASSUME NEW u \in Task, tasks' = (tasks \ {t}) \cup {u}, u.run = q,
                \/ context' = context /\ u.pc # "turn"
                \/ \E told \in SUBSET Turns : context' = [context EXCEPT ![k] = told],
                fresh' \in [Ids -> SUBSET Turns],
                file' \in [Ids -> Seq(Turns) \cup {None}],
                faults' \in 0..MaxFaults
         PROVE  TypesInv'
  <2>1. tasks' \subseteq Task
    BY <1>0, <1>move
  <2>2. context' \in [Keys -> (SUBSET Turns) \cup {None}]
    BY <1>0, <1>move
  <2>3. ASSUME NEW v \in tasks', v.pc = "turn" PROVE context'[KeyOf(v.run)] # None
    <3>1. v \in tasks \/ v = u
      BY <1>move
    <3>2. CASE context' = context /\ u.pc # "turn"
      BY <1>0, <2>3, <3>1, <3>2
    <3>3. ASSUME NEW told \in SUBSET Turns, context' = [context EXCEPT ![k] = told]
          PROVE  context'[KeyOf(v.run)] # None
      <4>1. CASE v \in tasks
        <5>1. KeyOf(v.run) \in Keys
          BY <4>1, TaskKey
        <5> QED BY <1>0, <1>none, <2>3, <3>3, <4>1, <5>1
      <4>2. CASE v = u
        BY <1>0, <1>none, <1>move, <3>3, <4>2 DEF k
      <4> QED BY <3>1, <4>1, <4>2
    <3> QED BY <1>move, <3>2, <3>3
  <2> QED BY <1>move, <1>rest, <2>1, <2>2, <2>3
<1>told. t.told \in SUBSET Turns /\ t.draft \in Seq(Turns)
  BY <1>0 DEF Task
<1>2. ASSUME EnterTurn(t) PROVE TypesInv'
  <2> DEFINE told == IF context[k] = None THEN ToSet(Load(i)) ELSE {}
             u == [t EXCEPT !.pc = "turn", !.told = told]
             v == [t EXCEPT !.pc = "failed"]
  <2>0. UNCHANGED <<file, fresh, faults>>
    BY <1>2 DEF EnterTurn
  <2>1. told \in SUBSET Turns
    BY <1>load
  <2> HIDE DEF told
  <2>2. u \in Task /\ u.run = q /\ v \in Task /\ v.run = q /\ v.pc = "failed"
    BY <1>0, <2>1 DEF Task, Ends, q
  <2>3. \/ tasks' = (tasks \ {t}) \cup {u} /\ context' = [context EXCEPT ![k] = IF @ = None THEN {} ELSE @]
        \/ tasks' = (tasks \ {t}) \cup {v} /\ context' = context
    BY <1>2 DEF EnterTurn, Become, told, q, i, k
  <2>4. (IF context[k] = None THEN {} ELSE context[k]) \in SUBSET Turns
    <3>1. context[k] \in (SUBSET Turns) \cup {None}
      BY <1>0
    <3> QED BY <3>1
  <2> HIDE DEF u, v
  <2>5. CASE tasks' = (tasks \ {t}) \cup {u} /\ context' = [context EXCEPT ![k] = IF @ = None THEN {} ELSE @]
    BY <1>0, <1>move, <2>0, <2>2, <2>4, <2>5
  <2>6. CASE tasks' = (tasks \ {t}) \cup {v} /\ context' = context
    BY <1>0, <1>move, <2>0, <2>2, <2>6
  <2> QED BY <2>3, <2>5, <2>6
<1>3. ASSUME Answer(t) PROVE TypesInv'
  <2> DEFINE draft == Trim(Append(Load(i), q))
             u == [t EXCEPT !.pc = "writing", !.draft = draft]
             kept == context[k] \cup t.told \cup {q}
  <2>1. draft \in Seq(Turns)
    BY <1>0, <1>load, AppendProperties, TrimProperties
  <2>2. kept \in SUBSET Turns
    <3>1. context[k] \in (SUBSET Turns) \cup {None} /\ t.pc = "turn"
      BY <1>0, <1>3 DEF Answer
    <3>2. context[k] # None
      BY <1>0, <3>1 DEF k, q
    <3>3. context[k] \in SUBSET Turns
      BY <3>1, <3>2
    <3> HIDE DEF kept
    <3>4. \A a, b \in SUBSET Turns : a \cup b \cup {q} \in SUBSET Turns
      BY <1>0
    <3> QED BY <1>told, <3>3, <3>4 DEF kept
  <2>3. /\ tasks' = (tasks \ {t}) \cup {u} /\ context' = [context EXCEPT ![k] = kept]
        /\ UNCHANGED <<file, fresh, faults>>
    BY <1>3 DEF Answer, Become, q, i, k
  <2> HIDE DEF draft, kept
  <2>4. u \in Task /\ u.run = q
    BY <1>0, <2>1 DEF Task, Ends, q
  <2> HIDE DEF u
  <2> QED BY <1>0, <1>move, <2>2, <2>3, <2>4
<1>4. ASSUME WriteFile(t) PROVE TypesInv'
  <2> DEFINE u == [t EXCEPT !.pc = "answered"]
             v == [t EXCEPT !.pc = "failed"]
  <2>1. u \in Task /\ u.run = q /\ u.pc = "answered" /\ v \in Task /\ v.run = q /\ v.pc = "failed"
    BY <1>0 DEF Task, Ends, q
  <2>2. context' = context
    BY <1>4 DEF WriteFile
  <2>3. \/ /\ tasks' = (tasks \ {t}) \cup {u} /\ file' = [file EXCEPT ![i] = t.draft]
           /\ fresh' = [fresh EXCEPT ![i] = @ \cup {q}] /\ faults' = faults
        \/ /\ tasks' = (tasks \ {t}) \cup {v} /\ UNCHANGED <<file, fresh>>
           /\ faults < MaxFaults /\ faults' = faults + 1
    BY <1>4 DEF WriteFile, Fault, Become, q, i
  <2> HIDE DEF u, v
  <2>4. CASE /\ tasks' = (tasks \ {t}) \cup {u} /\ file' = [file EXCEPT ![i] = t.draft]
             /\ fresh' = [fresh EXCEPT ![i] = @ \cup {q}] /\ faults' = faults
    <3>1. file' \in [Ids -> Seq(Turns) \cup {None}]
      BY <1>0, <1>told, <2>4
    <3>2. fresh' \in [Ids -> SUBSET Turns]
      BY <1>0, <2>4
    <3> QED BY <1>0, <1>move, <2>1, <2>2, <2>4, <3>1, <3>2
  <2>5. CASE /\ tasks' = (tasks \ {t}) \cup {v} /\ UNCHANGED <<file, fresh>>
             /\ faults < MaxFaults /\ faults' = faults + 1
    <3>1. faults' \in 0..MaxFaults
      BY <1>0, <2>5
    <3> QED BY <1>0, <1>move, <2>1, <2>2, <2>5, <3>1
  <2> QED BY <2>3, <2>4, <2>5
<1>5. ASSUME FailTurn(t) PROVE TypesInv'
  <2>0. PICK pc \in {"unkept", "failed"} : tasks' = (tasks \ {t}) \cup {[t EXCEPT !.pc = pc]}
    BY <1>5 DEF FailTurn, Become
  <2> DEFINE v == [t EXCEPT !.pc = pc]
  <2>1. v \in Task /\ v.run = q /\ v.pc # "turn"
    BY <1>0 DEF Task, Ends, q
  <2>2. /\ tasks' = (tasks \ {t}) \cup {v} /\ UNCHANGED <<file, fresh, faults>>
        /\ \E kept \in {{}, t.told \cup {q}} : context' = [context EXCEPT ![k] = @ \cup kept]
    BY <1>5, <2>0 DEF FailTurn, q, k
  <2>3. PICK kept \in SUBSET Turns : context' = [context EXCEPT ![k] = @ \cup kept]
    BY <1>0, <1>told, <2>2
  <2>4. context[k] \cup kept \in SUBSET Turns
    <3>1. context[k] \in (SUBSET Turns) \cup {None} /\ t.pc = "turn"
      BY <1>0, <1>5 DEF FailTurn
    <3>2. context[k] # None
      BY <1>0, <3>1 DEF k, q
    <3>3. context[k] \in SUBSET Turns
      BY <3>1, <3>2
    <3> QED BY <2>3, <3>3
  <2> HIDE DEF v
  <2> QED BY <1>0, <1>move, <2>1, <2>2, <2>3, <2>4
<1>6. ASSUME Finish(t) PROVE TypesInv'
  BY <1>0, <1>6, <1>rest DEF Finish
<1> QED BY <1>2, <1>3, <1>4, <1>5, <1>6 DEF Advance

(* The types, when a request's handler goes on.                            *)
LEMMA HandlerTypes ==
  ASSUME MemoryInv, MemoryInv', TypesInv,
         \/ \E v \in Versions : Publish(v) /\ UNCHANGED memory
         \/ \E p \in Requests : Resolve(p) /\ UNCHANGED memory
         \/ \E p \in Requests : LookForFile(p) \/ Import(p) \/ Submit(p)
  PROVE  TypesInv'
<1>0. /\ BindingOK' /\ run' \in [Requests -> [lease : Nat, status : Statuses]]
      /\ \A p \in Requests : TurnOK(p)'
  BY DEF MemoryInv, BindingInv
<1>1. UNCHANGED <<tasks, context, lost, faults>>
  BY DEF memory, LookForFile, Import, Submit
<1>2. ASSUME NEW t \in tasks PROVE KeyOf(t.run)' = KeyOf(t.run)
  <2>1. t.run \in Requests /\ at[t.run] = "submitted"
    BY TaskKey
  <2>2. UNCHANGED <<ask[t.run], uses[t.run]>>
    BY <2>1, OthersResolve DEF LookForFile, Import, Submit, Goto
  <2> QED BY <2>2 DEF KeyOf
<1>3. /\ file' \in [Ids -> Seq(Turns) \cup {None}]
      /\ fresh' \in [Ids -> SUBSET Turns]
  <2>0. /\ file \in [Ids -> Seq(Turns) \cup {None}]
        /\ fresh \in [Ids -> SUBSET Turns]
    BY DEF TypesInv, CTypeOK
  <2>1. ASSUME NEW q \in Requests, Import(q)
        PROVE  /\ file' \in [Ids -> Seq(Turns) \cup {None}]
               /\ fresh' \in [Ids -> SUBSET Turns]
    <3>1. uses[q] \in Ids
      BY <2>1 DEF Import, MemoryInv, BindingInv, BindingOK, TurnOK
    <3>2. LegacyOf(uses[q]) \in Seq(Turns) /\ ToSet(LegacyOf(uses[q])) \subseteq Turns
      BY <3>1, LegacyType
    <3> QED BY <2>0, <2>1, <3>1, <3>2 DEF Import
  <2>2. CASE UNCHANGED <<file, fresh>>
    BY <2>0, <2>2
  <2> QED BY <2>1, <2>2 DEF memory, LookForFile, Submit
<1>4. \A q \in Requests :
        at'[q] \in {"resolved", "importing", "open", "submitted"} => uses'[q] # None
  BY <1>0 DEF TurnOK
<1> QED BY <1>0, <1>1, <1>2, <1>3, <1>4 DEF TypesInv, CTypeOK, Statuses, Ends

(* The types, in every state of the system.                                *)
THEOREM TypesInvariance == CSpec => []TypesInv
<1>1. CInit => TypesInv
  <2> SUFFICES ASSUME CInit PROVE TypesInv
    OBVIOUS
  <2>1. BindingInv
    BY InitBindingInv DEF CInit
  <2>2. \A q \in Requests : at[q] = "none"
    BY DEF CInit, InitBinding
  <2>3. faults \in 0..MaxFaults
    BY MemoryAssumption DEF CInit
  <2> QED BY <2>1, <2>2, <2>3 DEF BindingInv, TypesInv, CTypeOK, CInit
<1>2. MemoryInv /\ MemoryInv' /\ TypesInv /\ [CNext]_cvars => TypesInv'
  <2> SUFFICES ASSUME MemoryInv, MemoryInv', TypesInv, [CNext]_cvars PROVE TypesInv'
    OBVIOUS
  <2>0. /\ BindingOK' /\ run' \in [Requests -> [lease : Nat, status : Statuses]]
        /\ \A p \in Requests : at'[p] \in {"resolved", "importing", "open", "submitted"} => uses'[p] # None
    BY DEF MemoryInv, BindingInv, TurnOK
  <2>1. CASE \E t \in tasks : Advance(t)
    BY <2>1, AdvanceTypes
  <2>2. CASE \/ \E v \in Versions : Publish(v) /\ UNCHANGED memory
             \/ \E q \in Requests : Resolve(q) /\ UNCHANGED memory
             \/ \E q \in Requests : LookForFile(q) \/ Import(q) \/ Submit(q)
    BY <2>2, HandlerTypes
  <2>3. ASSUME NEW q \in Requests, TakeLease(q) PROVE TypesInv'
    <3>1. /\ UNCHANGED <<resolving, file, context, lost, fresh, faults>>
          /\ tasks' = tasks \cup {[run |-> q, lease |-> run'[q].lease, told |-> {},
                                   draft |-> <<>>, pc |-> "waiting"]}
      BY <2>3 DEF TakeLease
    <3>2. run'[q].lease \in Nat
      BY <2>0
    <3>3. tasks' \subseteq Task
      <4>1. \A n \in Nat : [run |-> q, lease |-> n, told |-> {}, draft |-> <<>>,
                           pc |-> "waiting"] \in Task
        BY DEF Task
      <4> QED BY <3>1, <3>2, <4>1 DEF TypesInv, CTypeOK
    <3>4. \A u \in tasks' : u.pc = "turn" => u \in tasks
      BY <3>1
    <3>5. \A r : KeyOf(r)' = KeyOf(r)
      BY <3>1 DEF KeyOf, resolving
    <3> QED BY <2>0, <3>1, <3>3, <3>4, <3>5 DEF TypesInv, CTypeOK, Statuses, Ends
  <2>4. ASSUME NEW q \in Requests, LoseLease(q) PROVE TypesInv'
    <3>1. UNCHANGED <<resolving, file, tasks, context, lost, fresh>> /\ faults' \in 0..MaxFaults
      BY <2>4, MemoryAssumption DEF LoseLease, Fault, TypesInv, CTypeOK
    <3>2. \A r : KeyOf(r)' = KeyOf(r)
      BY <3>1 DEF KeyOf, resolving
    <3> QED BY <2>0, <3>1, <3>2 DEF TypesInv, CTypeOK, Statuses, Ends
  <2>5. CASE Crash
    <3>1. /\ tasks' = {} /\ file' = file
          /\ context' = [k \in Keys |-> None] /\ fresh' = [i \in Ids |-> {}]
          /\ DOMAIN lost' = Keys
          /\ faults' \in 0..MaxFaults
      BY <2>5, MemoryAssumption DEF Crash, Fault, TypesInv, CTypeOK
    <3> QED BY <2>0, <3>1 DEF TypesInv, CTypeOK, Statuses, Ends
  <2>6. CASE UNCHANGED cvars
    <3>1. UNCHANGED <<file, tasks, context, lost, fresh, faults, ask, uses>>
      BY <2>6 DEF cvars
    <3> QED BY <2>0, <3>1 DEF TypesInv, CTypeOK, Statuses, Ends, KeyOf
  <2> QED BY <2>1, <2>2, <2>3, <2>4, <2>5, <2>6 DEF CNext
<1> QED BY <1>1, <1>2, MemoryInvariance, PTL DEF CSpec

(* What a turn is told, drafts and writes are turns of the session, and a  *)
(* request that goes on has its session.                                   *)
THEOREM ConversationTypes == CSpec => []CTypeOK
<1>1. TypesInv => CTypeOK
  BY DEF TypesInv
<1> QED BY <1>1, TypesInvariance, PTL

-----------------------------------------------------------------------------
(* The file                                                                *)

\* A request that is to import found a v1 file; one that is past the import
\* leaves a file, if there is anything to put in it.
Importing(q) ==
  /\ at[q] = "importing" => LegacyOf(uses[q]) # <<>>
  /\ at[q] \in {"open", "submitted"} => file[uses[q]] # None \/ LegacyOf(uses[q]) = <<>>

\* What a task is about to write is the conversation and its own turn.
Drafted(t) == t.pc = "writing" =>
  \E n \in 0..Len(written[uses[t.run]]) :
    /\ n > 0 => LegacyOf(uses[t.run]) # <<>>
    /\ t.draft = Trim(Append(Conversation(uses[t.run], n), t.run))

\* session_lock: of the tasks of a session, one at most is in run_turn.
Inside == {"turn", "writing"}
OneTurn == \A t, u \in tasks :
  t.pc \in Inside /\ u.pc \in Inside /\ uses[t.run] = uses[u.run] => t = u

\* The file is the conversation, without its oldest turns if there is a v1 file.
FileHistory == \A i \in Ids :
  IF file[i] = None THEN written[i] = <<>>
  ELSE \E n \in 0..Len(written[i]) :
         /\ n > 0 \/ written[i] = <<>> => LegacyOf(i) # <<>>
         /\ file[i] = IF n = Len(written[i]) THEN LegacyOf(i) ELSE Trim(Conversation(i, n))

HistoryInv == /\ \A q \in Requests : Importing(q)
              /\ FileHistory
              /\ \A t \in tasks : Drafted(t)
              /\ OneTurn

(* The conversation is a sequence of turns.  A turn added to what was      *)
(* written is one added to the conversation.                               *)
LEMMA ConversationType ==
  ASSUME MemoryInv, NEW i \in Ids, NEW n \in 0..Len(written[i])
  PROVE  /\ written[i] \in Seq(Turns) /\ Len(written[i]) \in Nat
         /\ SubSeq(written[i], n + 1, Len(written[i])) \in Seq(Turns)
         /\ Conversation(i, n) \in Seq(Turns)
<1>1. written[i] \in Seq(Turns) /\ Len(written[i]) \in Nat
  <2>1. written[i] \in Seq(Requests)
    BY DEF MemoryInv
  <2> QED BY <2>1, RequestsAreTurns, SeqMonotonic
<1>2. SubSeq(written[i], n + 1, Len(written[i])) \in Seq(Turns)
  <2>1. \A j \in (n + 1)..Len(written[i]) : written[i][j] \in Turns
    BY <1>1
  <2> QED BY <1>1, <2>1, SubSeqProperties
<1> QED BY <1>1, <1>2, LegacyType, ConcatProperties DEF Conversation

(* A turn that is written is added at the end of the conversation.         *)
LEMMA ConversationGrows ==
  ASSUME NEW w \in Seq(Turns), NEW L \in Seq(Turns), NEW n \in 0..Len(w), NEW x \in Turns
  PROVE  L \o SubSeq(Append(w, x), n + 1, Len(Append(w, x)))
           = Append(L \o SubSeq(w, n + 1, Len(w)), x)
<1> DEFINE v == Append(w, x)
           s == SubSeq(w, n + 1, Len(w))
           r == SubSeq(v, n + 1, Len(v))
           u == Append(s, x)
<1>1. /\ v \in Seq(Turns) /\ Len(v) = Len(w) + 1 /\ v[Len(w) + 1] = x
      /\ \A j \in 1..Len(w) : v[j] = w[j]
      /\ Len(w) \in Nat /\ n \in Nat
  BY AppendProperties
<1>2. /\ s \in Seq(Turns) /\ Len(s) = Len(w) - n
      /\ \A j \in 1..(Len(w) - n) : s[j] = w[n + j]
  <2>1. \A j \in (n + 1)..Len(w) : w[j] \in Turns
    BY <1>1
  <2>2. /\ s \in Seq(Turns) /\ Len(s) = IF n + 1 <= Len(w) THEN Len(w) - (n + 1) + 1 ELSE 0
        /\ \A j \in 1..(Len(w) - (n + 1) + 1) : s[j] = w[n + 1 + j - 1]
    BY <1>1, <2>1, SubSeqProperties
  <2> QED BY <1>1, <2>2
<1> HIDE DEF v
<1>3. /\ r \in Seq(Turns) /\ Len(r) = Len(w) - n + 1
      /\ \A j \in 1..(Len(w) - n + 1) : r[j] = v[n + j]
  <2>1. \A j \in (n + 1)..Len(v) : v[j] \in Turns
    BY <1>1
  <2>2. /\ r \in Seq(Turns) /\ Len(r) = IF n + 1 <= Len(v) THEN Len(v) - (n + 1) + 1 ELSE 0
        /\ \A j \in 1..(Len(v) - (n + 1) + 1) : r[j] = v[n + 1 + j - 1]
    BY <1>1, <2>1, SubSeqProperties
  <2> QED BY <1>1, <2>2
<1> HIDE DEF s, r
<1>4. /\ u \in Seq(Turns) /\ Len(u) = Len(w) - n + 1 /\ u[Len(w) - n + 1] = x
      /\ \A j \in 1..(Len(w) - n) : u[j] = s[j]
  BY <1>2, AppendProperties
<1> HIDE DEF u
<1>5. ASSUME NEW j \in 1..(Len(w) - n + 1) PROVE r[j] = u[j]
  <2>1. CASE j = Len(w) - n + 1
    <3>1. n + j = Len(w) + 1
      BY <1>1, <2>1
    <3> QED BY <1>1, <1>3, <1>4, <2>1, <3>1
  <2>2. CASE j # Len(w) - n + 1
    <3>1. j \in 1..(Len(w) - n) /\ n + j \in 1..Len(w)
      BY <1>1, <2>2
    <3> QED BY <1>1, <1>2, <1>3, <1>4, <3>1
  <2> QED BY <2>1, <2>2
<1>6. r = u
  BY <1>3, <1>4, <1>5, SeqEqual
<1>7. <<x>> \in Seq(Turns)
  OBVIOUS
<1>8. L \o (s \o <<x>>) = (L \o s) \o <<x>>
  BY <1>2, <1>7, ConcatAssociative
<1>9. u = s \o <<x>>
  BY <1>2, AppendIsConcat DEF u
<1>10. L \o s \in Seq(Turns)
  BY <1>2, ConcatProperties
<1>11. Append(L \o s, x) = (L \o s) \o <<x>>
  BY <1>10, AppendIsConcat
<1>12. L \o r = Append(L \o s, x)
  BY <1>6, <1>8, <1>9, <1>11
<1> QED BY <1>12 DEF v, s, r

(* append_conversation_turn: the file, as it was loaded, and the turn, is  *)
(* the conversation and the turn.                                          *)
LEMMA AnswerDrafts ==
  ASSUME MemoryInv, TypesInv, HistoryInv, NEW t \in tasks
  PROVE  LET i == uses[t.run]
         IN \E n \in 0..Len(written[i]) :
              /\ n > 0 => LegacyOf(i) # <<>>
              /\ Trim(Append(Load(i), t.run)) = Trim(Append(Conversation(i, n), t.run))
<1> DEFINE q == t.run
           i == uses[q]
<1>0. /\ q \in Turns /\ i \in Ids /\ at[q] = "submitted" /\ q \in Requests
      /\ LegacyOf(i) \in Seq(Turns) /\ written[i] \in Seq(Turns) /\ Len(written[i]) \in Nat
      /\ file[i] = None \/ file[i] \in Seq(Turns)
  <2>1. q \in Requests /\ i \in Ids /\ at[q] = "submitted" /\ q \in Turns
    BY TaskKey, RequestsAreTurns
  <2>2. written[i] \in Seq(Requests)
    BY <2>1 DEF MemoryInv
  <2>3. written[i] \in Seq(Turns)
    BY <2>2, RequestsAreTurns, SeqMonotonic
  <2> QED BY <2>1, <2>3, LegacyType DEF TypesInv, CTypeOK
<1>1. Importing(q) /\ FileHistory
  BY <1>0 DEF HistoryInv
<1> HIDE DEF q, i
<1>empty. ASSUME NEW n \in Nat, n >= Len(written[i])
          PROVE  Conversation(i, n) = LegacyOf(i)
  <2>1. SubSeq(written[i], n + 1, Len(written[i])) = <<>>
    BY <1>0, <1>empty, SubSeqEmpty
  <2> QED BY <1>0, <2>1, ConcatEmptySeq DEF Conversation
<1>2. CASE file[i] = None
  <2>1. written[i] = <<>> /\ LegacyOf(i) = <<>> /\ Load(i) = <<>>
    BY <1>0, <1>1, <1>2 DEF FileHistory, Importing, Load, i
  <2>2. Conversation(i, 0) = <<>> /\ 0 \in 0..Len(written[i])
    <3>1. Len(written[i]) = 0
      BY <2>1
    <3>2. Conversation(i, 0) = LegacyOf(i)
      BY <1>empty, <3>1
    <3> QED BY <2>1, <3>1, <3>2
  <2>3. 0 > 0 => LegacyOf(i) # <<>>
    OBVIOUS
  <2>4. Trim(Append(Load(i), q)) = Trim(Append(Conversation(i, 0), q))
    BY <2>1, <2>2
  <2> QED BY <2>2, <2>3, <2>4 DEF q, i
<1>3. CASE file[i] # None
  <2>1. PICK n \in 0..Len(written[i]) :
          /\ n > 0 => LegacyOf(i) # <<>>
          /\ file[i] = IF n = Len(written[i]) THEN LegacyOf(i) ELSE Trim(Conversation(i, n))
    BY <1>0, <1>1, <1>3 DEF FileHistory
  <2>2. Load(i) = LastTurns(file[i])
    BY <1>3 DEF Load
  <2>3. Trim(Append(Load(i), q)) = Trim(Append(Conversation(i, n), q))
    <3>1. CASE n = Len(written[i])
      <4>1. Conversation(i, n) = LegacyOf(i) /\ file[i] = LegacyOf(i)
        BY <1>empty, <1>0, <2>1, <3>1
      <4> QED BY <1>0, <2>2, <4>1, AppendToLoaded
    <3>2. CASE n # Len(written[i])
      <4>1. Conversation(i, n) \in Seq(Turns) /\ file[i] = Trim(Conversation(i, n))
        BY <1>0, <2>1, <3>2, ConversationType
      <4> QED BY <1>0, <2>2, <4>1, AppendToLoaded
    <3> QED BY <3>1, <3>2
  <2> QED BY <2>1, <2>3 DEF q, i
<1> QED BY <1>2, <1>3

(* A task moves on and writes nothing: into run_turn only when the lock of *)
(* its session is free, to a draft only of the conversation.               *)
LEMMA TaskHistory ==
  ASSUME MemoryInv, HistoryInv, NEW t \in tasks, NEW u, u.run = t.run,
         tasks' = (tasks \ {t}) \cup {u}, UNCHANGED <<resolving, file, written>>,
         u.pc \in Inside => t.pc \in Inside \/ LockFree(uses[t.run]),
         Drafted(u)
  PROVE  HistoryInv'
<1>0. UNCHANGED <<ask, at, uses, file, written>>
  BY DEF resolving
<1>1. \A q \in Requests : Importing(q)'
  BY <1>0 DEF HistoryInv, Importing
<1>2. FileHistory'
  BY <1>0 DEF HistoryInv, FileHistory, Conversation
<1>3. \A s \in tasks' : Drafted(s)'
  BY <1>0 DEF HistoryInv, Drafted, Conversation
<1>4. OneTurn'
  <2> SUFFICES ASSUME NEW a \in tasks', NEW b \in tasks', a.pc \in Inside, b.pc \in Inside,
                      uses[a.run] = uses[b.run]
               PROVE  a = b
    BY <1>0 DEF OneTurn
  <2>1. u.pc \in Inside => \A c \in tasks : c.pc \in Inside /\ uses[c.run] = uses[t.run] => c = t
    BY DEF LockFree, Inside, HistoryInv, OneTurn
  <2>2. \A c, d \in tasks : c.pc \in Inside /\ d.pc \in Inside /\ uses[c.run] = uses[d.run] => c = d
    BY DEF HistoryInv, OneTurn
  <2>3. (a \in tasks /\ a # t) \/ a = u
    OBVIOUS
  <2>4. (b \in tasks /\ b # t) \/ b = u
    OBVIOUS
  <2> QED BY <2>1, <2>2, <2>3, <2>4
<1> QED BY <1>1, <1>2, <1>3, <1>4 DEF HistoryInv

(* append_conversation_turn replaces the file.                             *)
LEMMA WriteHistory ==
  ASSUME MemoryInv, TypesInv, HistoryInv, NEW t \in tasks, t.pc = "writing",
         file' = [file EXCEPT ![uses[t.run]] = t.draft],
         written' = [written EXCEPT ![uses[t.run]] = Append(@, t.run)],
         Become(t, [t EXCEPT !.pc = "answered"]), UNCHANGED resolving
  PROVE  HistoryInv'
<1> DEFINE q == t.run
           i == uses[q]
           u == [t EXCEPT !.pc = "answered"]
<1>0. /\ q \in Requests /\ q \in Turns /\ i \in Ids /\ t \in Task
      /\ UNCHANGED <<ask, at, uses>> /\ tasks' = (tasks \ {t}) \cup {u}
      /\ tasks \subseteq Task
  BY TaskKey, RequestsAreTurns DEF TypesInv, CTypeOK, resolving, Become
<1>1. u.run = q /\ u.pc = "answered"
  BY <1>0 DEF Task
<1>2. t.draft \in Seq(Turns) /\ t.draft # None
  BY <1>0, MemoryAssumption DEF Task
<1> HIDE DEF u
<1>3. ASSUME NEW s \in tasks', s.pc \in Inside
      PROVE  s \in tasks /\ uses[s.run] # i /\ uses[s.run] \in Ids
  <2>1. s \in tasks /\ s # t
    BY <1>0, <1>1, <1>3 DEF Inside
  <2> QED BY <2>1, <1>3, TaskKey DEF HistoryInv, OneTurn, Inside
<1>4. \A j \in Ids \ {i} : file'[j] = file[j] /\ written'[j] = written[j]
  BY DEF TypesInv, CTypeOK, MemoryInv
<1>5. \A j \in Ids : file'[j] = IF j = i THEN t.draft ELSE file[j]
  BY DEF TypesInv, CTypeOK
<1>6. written'[i] = Append(written[i], q)
  BY <1>0 DEF MemoryInv
<1>7. \A p \in Requests : Importing(p)'
  <2> SUFFICES ASSUME NEW p \in Requests, at[p] \in {"open", "submitted"}
               PROVE  file'[uses[p]] # None \/ LegacyOf(uses[p]) = <<>>
    BY <1>0 DEF HistoryInv, Importing
  <2>1. uses[p] \in Ids
    BY DEF TypesInv, CTypeOK, BindingOK
  <2> QED BY <2>1, <1>2, <1>5 DEF HistoryInv, Importing
<1>8. FileHistory'
  <2> SUFFICES ASSUME NEW j \in Ids
               PROVE  IF file'[j] = None THEN written'[j] = <<>>
                      ELSE \E n \in 0..Len(written'[j]) :
                             /\ n > 0 \/ written'[j] = <<>> => LegacyOf(j) # <<>>
                             /\ file'[j] = IF n = Len(written'[j]) THEN LegacyOf(j)
                                           ELSE Trim(Conversation(j, n)')
    BY DEF FileHistory, LegacyOf
  <2>1. CASE j # i
    BY <1>4, <2>1 DEF HistoryInv, FileHistory, Conversation, LegacyOf
  <2>2. CASE j = i
    <3>1. PICK n \in 0..Len(written[j]) :
            /\ n > 0 => LegacyOf(j) # <<>>
            /\ t.draft = Trim(Append(Conversation(j, n), q))
      BY <2>2 DEF HistoryInv, Drafted
    <3>2. written[j] \in Seq(Turns) /\ Len(written[j]) \in Nat /\ LegacyOf(j) \in Seq(Turns)
      BY ConversationType, LegacyType
    <3>3. written'[j] = Append(written[j], q)
      BY <1>6, <2>2
    <3>4. Conversation(j, n)' = Append(Conversation(j, n), q)
      <4>1. LegacyOf(j) \o SubSeq(Append(written[j], q), n + 1, Len(Append(written[j], q)))
              = Append(LegacyOf(j) \o SubSeq(written[j], n + 1, Len(written[j])), q)
        BY <1>0, <3>2, ConversationGrows
      <4> QED BY <3>3, <4>1 DEF Conversation, LegacyOf
    <3>5. Len(written'[j]) = Len(written[j]) + 1
      BY <1>0, <3>2, <3>3, AppendProperties
    <3>6. n \in 0..Len(written'[j]) /\ n # Len(written'[j]) /\ written'[j] # <<>>
      BY <3>2, <3>5
    <3>7. file'[j] = t.draft /\ file'[j] # None
      BY <1>2, <1>5, <2>2
    <3>8. file'[j] = Trim(Conversation(j, n)')
      BY <3>1, <3>4, <3>7
    <3> QED BY <3>1, <3>6, <3>7, <3>8
  <2> QED BY <2>1, <2>2
<1>9. \A s \in tasks' : Drafted(s)'
  <2> SUFFICES ASSUME NEW s \in tasks', s.pc = "writing", NEW j, j = uses[s.run]
               PROVE  \E n \in 0..Len(written'[j]) :
                        /\ n > 0 => LegacyOf(j) # <<>>
                        /\ s.draft = Trim(Append(Conversation(j, n)', s.run))
    BY <1>0 DEF Drafted, LegacyOf, Conversation
  <2>1. s \in tasks /\ j # i /\ j \in Ids
    BY <1>3 DEF Inside
  <2>2. PICK n \in 0..Len(written[j]) :
          /\ n > 0 => LegacyOf(j) # <<>>
          /\ s.draft = Trim(Append(Conversation(j, n), s.run))
    BY <2>1 DEF HistoryInv, Drafted
  <2>3. written'[j] = written[j]
    BY <1>4, <2>1
  <2>4. Conversation(j, n)' = Conversation(j, n)
    BY <2>3 DEF Conversation, LegacyOf
  <2> QED BY <2>2, <2>3, <2>4
<1>10. OneTurn'
  <2>1. \A s \in tasks' : s.pc \in Inside => s \in tasks
    BY <1>3
  <2> QED BY <1>0, <2>1 DEF HistoryInv, OneTurn
<1> QED BY <1>7, <1>8, <1>9, <1>10 DEF HistoryInv

(* The end of a task, or a new one that waits.                             *)
LEMMA TasksHistory ==
  ASSUME HistoryInv, UNCHANGED <<resolving, file, written>>,
         \A s \in tasks' : s \in tasks \/ s.pc \notin Inside
  PROVE  HistoryInv'
<1>0. UNCHANGED <<ask, at, uses, file, written>>
  BY DEF resolving
<1>1. \A q \in Requests : Importing(q)'
  BY <1>0 DEF HistoryInv, Importing
<1>2. FileHistory'
  BY <1>0 DEF HistoryInv, FileHistory, Conversation
<1>3. \A s \in tasks' : Drafted(s)'
  BY <1>0 DEF HistoryInv, Drafted, Conversation, Inside
<1>4. OneTurn'
  BY <1>0 DEF HistoryInv, OneTurn
<1> QED BY <1>1, <1>2, <1>3, <1>4 DEF HistoryInv

(* A task that moves on.                                                   *)
LEMMA AdvanceHistory ==
  ASSUME MemoryInv, TypesInv, HistoryInv, NEW t \in tasks, Advance(t) PROVE HistoryInv'
<1>0. t \in Task
  BY DEF TypesInv, CTypeOK
<1>failed. ASSUME NEW pc \in {"unkept", "failed"},
                  tasks' = (tasks \ {t}) \cup {[t EXCEPT !.pc = pc]},
                  UNCHANGED <<resolving, file, written>>
           PROVE  HistoryInv'
  <2> DEFINE u == [t EXCEPT !.pc = pc]
  <2>1. u.run = t.run /\ u.pc = pc
    BY <1>0 DEF Task
  <2> HIDE DEF u
  <2>2. Drafted(u) /\ u.pc \notin Inside
    BY <2>1 DEF Drafted, Inside
  <2> QED BY <1>failed, <2>1, <2>2, TaskHistory DEF u
<1>1. ASSUME EnterTurn(t) PROVE HistoryInv'
  <2> DEFINE told == IF context[KeyOf(t.run)] = None THEN ToSet(Load(uses[t.run])) ELSE {}
             u == [t EXCEPT !.pc = "turn", !.told = told]
  <2>1. /\ LockFree(uses[t.run]) /\ UNCHANGED <<resolving, file, written>>
        /\ \/ tasks' = (tasks \ {t}) \cup {u}
           \/ tasks' = (tasks \ {t}) \cup {[t EXCEPT !.pc = "failed"]}
    BY <1>1 DEF EnterTurn, Become
  <2> HIDE DEF told
  <2>2. u.run = t.run /\ u.pc = "turn"
    BY <1>0 DEF Task
  <2> HIDE DEF u
  <2>3. Drafted(u)
    BY <2>2 DEF Drafted
  <2> QED BY <1>failed, <2>1, <2>2, <2>3, TaskHistory
<1>2. ASSUME Answer(t) PROVE HistoryInv'
  <2> DEFINE draft == Trim(Append(Load(uses[t.run]), t.run))
             u == [t EXCEPT !.pc = "writing", !.draft = draft]
  <2>1. /\ t.pc = "turn" /\ UNCHANGED <<resolving, file, written>>
        /\ tasks' = (tasks \ {t}) \cup {u}
    BY <1>2 DEF Answer, Become
  <2>2. PICK n \in 0..Len(written[uses[t.run]]) :
          /\ n > 0 => LegacyOf(uses[t.run]) # <<>>
          /\ draft = Trim(Append(Conversation(uses[t.run], n), t.run))
    BY AnswerDrafts
  <2> HIDE DEF draft
  <2>3. u.run = t.run /\ u.pc = "writing" /\ u.draft = draft
    BY <1>0 DEF Task
  <2> HIDE DEF u
  <2>4. Drafted(u)
    BY <2>2, <2>3 DEF Drafted
  <2> QED BY <2>1, <2>3, <2>4, TaskHistory DEF Inside
<1>3. ASSUME WriteFile(t) PROVE HistoryInv'
  <2>1. CASE /\ file' = [file EXCEPT ![uses[t.run]] = t.draft]
             /\ written' = [written EXCEPT ![uses[t.run]] = Append(@, t.run)]
             /\ Become(t, [t EXCEPT !.pc = "answered"])
    BY <1>3, <2>1, WriteHistory DEF WriteFile
  <2>2. CASE Become(t, [t EXCEPT !.pc = "failed"]) /\ UNCHANGED <<file, written>>
    BY <1>3, <1>failed, <2>2 DEF WriteFile, Become
  <2> QED BY <1>3, <2>1, <2>2 DEF WriteFile
<1>4. ASSUME FailTurn(t) PROVE HistoryInv'
  BY <1>4, <1>failed DEF FailTurn, Become
<1>5. ASSUME Finish(t) PROVE HistoryInv'
  BY <1>5, TasksHistory DEF Finish
<1> QED BY <1>1, <1>2, <1>3, <1>4, <1>5 DEF Advance

(* A request's handler goes on: what it imports takes the place of the     *)
(* turns that others have written since it looked.                         *)
LEMMA HandlerHistory ==
  ASSUME MemoryInv, TypesInv, HistoryInv,
         \/ \E v \in Versions : Publish(v) /\ UNCHANGED memory
         \/ \E p \in Requests : Resolve(p) /\ UNCHANGED memory
         \/ \E p \in Requests : LookForFile(p) \/ Import(p) \/ Submit(p)
  PROVE  HistoryInv'
<1>0. /\ UNCHANGED <<tasks, written>> /\ file \in [Ids -> Seq(Turns) \cup {None}]
      /\ at \in [Requests -> Places] /\ uses \in [Requests -> Ids \cup {None}]
      /\ \A p \in Requests : at[p] \in {"resolved", "importing", "open", "submitted"} => uses[p] \in Ids
  BY DEF memory, LookForFile, Import, Submit, TypesInv, CTypeOK, BindingOK
<1>1. ASSUME NEW t \in tasks PROVE UNCHANGED uses[t.run]
  <2>1. t.run \in Requests /\ at[t.run] = "submitted"
    BY TaskKey
  <2> QED BY <2>1, OthersResolve DEF LookForFile, Import, Submit, Goto
<1>2. (\A t \in tasks : Drafted(t))' /\ OneTurn'
  <2>1. ASSUME NEW t \in tasks, t.pc = "writing", NEW j, j = uses[t.run]
        PROVE  \E n \in 0..Len(written[j]) :
                 /\ n > 0 => LegacyOf(j) # <<>>
                 /\ t.draft = Trim(Append(Conversation(j, n)', t.run))
    BY <1>0, <2>1 DEF HistoryInv, Drafted, Conversation, LegacyOf
  <2>2. ASSUME NEW t \in tasks, t.pc = "writing"
        PROVE  \E n \in 0..Len(written'[uses'[t.run]]) :
                 /\ n > 0 => LegacyOf(uses'[t.run]) # <<>>
                 /\ t.draft = Trim(Append(Conversation(uses[t.run], n)', t.run))
    <3>1. uses'[t.run] = uses[t.run] /\ written' = written
      BY <1>0, <1>1
    <3> QED BY <2>1, <2>2, <3>1 DEF Conversation, LegacyOf
  <2> QED BY <1>0, <1>1, <2>2 DEF HistoryInv, Drafted, OneTurn, LegacyOf
<1>same. ASSUME file' = file PROVE FileHistory'
  BY <1>0, <1>same DEF HistoryInv, FileHistory, Conversation
<1>3. ASSUME \/ \E v \in Versions : Publish(v) /\ UNCHANGED memory
             \/ \E p \in Requests : Resolve(p) /\ UNCHANGED memory
      PROVE  HistoryInv'
  <2>1. UNCHANGED file
    BY <1>3 DEF memory
  <2>2. ASSUME NEW p \in Requests PROVE Importing(p)'
    <3>1. at'[p] \in {"importing", "open", "submitted"} => at'[p] = at[p] /\ uses'[p] = uses[p]
      BY <1>3, OthersResolve
    <3> QED BY <2>1, <3>1 DEF HistoryInv, Importing, LegacyOf
  <2> QED BY <1>2, <1>same, <2>1, <2>2 DEF HistoryInv
<1>4. ASSUME NEW q \in Requests, LookForFile(q) PROVE HistoryInv'
  <2>1. UNCHANGED <<file, uses>> /\ \A p \in Requests \ {q} : at'[p] = at[p]
    BY <1>0, <1>4 DEF LookForFile, memory, Goto
  <2>2. /\ at'[q] \in {"importing", "open"}
        /\ at'[q] = "importing" <=> file[uses[q]] = None /\ LegacyOf(uses[q]) # <<>>
    BY <1>0, <1>4 DEF LookForFile, Goto
  <2>3. \A p \in Requests : Importing(p)'
    BY <2>1, <2>2 DEF HistoryInv, Importing
  <2> QED BY <1>2, <1>same, <2>1, <2>3 DEF HistoryInv
<1>5. ASSUME NEW q \in Requests, Submit(q) PROVE HistoryInv'
  <2>1. UNCHANGED <<file, uses>> /\ \A p \in Requests \ {q} : at'[p] = at[p]
    BY <1>0, <1>5 DEF Submit, Goto
  <2>2. at[q] = "open" /\ at'[q] = "submitted"
    BY <1>0, <1>5 DEF Submit, Goto
  <2>3. \A p \in Requests : Importing(p)'
    BY <2>1, <2>2 DEF HistoryInv, Importing
  <2> QED BY <1>2, <1>same, <2>1, <2>3 DEF HistoryInv
<1>6. ASSUME NEW q \in Requests, Import(q) PROVE HistoryInv'
  <2> DEFINE i == uses[q]
  <2>0. i \in Ids /\ LegacyOf(i) # <<>> /\ LegacyOf(i) # None /\ at[q] = "importing"
    <3>1. i \in Ids /\ at[q] = "importing"
      BY <1>0, <1>6 DEF Import
    <3>2. LegacyOf(i) # <<>> /\ LegacyOf(i) \in Seq(Turns)
      BY <3>1, LegacyType DEF HistoryInv, Importing
    <3> QED BY <3>1, <3>2, MemoryAssumption
  <2>1. /\ uses' = uses /\ at'[q] = "open" /\ \A p \in Requests \ {q} : at'[p] = at[p]
        /\ \A j \in Ids : file'[j] = IF j = i THEN LegacyOf(i) ELSE file[j]
    BY <1>0, <1>6 DEF Import, Goto
  <2> HIDE DEF i
  <2>2. ASSUME NEW p \in Requests PROVE Importing(p)'
    <3>1. at'[p] \in {"importing", "open", "submitted"} =>
            at[p] \in {"importing", "open", "submitted"} /\ uses[p] \in Ids
      BY <1>0, <2>0, <2>1
    <3>2. p # q \/ (at'[p] = "open" /\ uses[p] = i)
      BY <2>1 DEF i
    <3> QED BY <2>0, <2>1, <3>1, <3>2 DEF HistoryInv, Importing
  <2>3. FileHistory'
    <3> SUFFICES ASSUME NEW j \in Ids
                 PROVE  IF file'[j] = None THEN written'[j] = <<>>
                        ELSE \E n \in 0..Len(written'[j]) :
                               /\ n > 0 \/ written'[j] = <<>> => LegacyOf(j) # <<>>
                               /\ file'[j] = IF n = Len(written'[j]) THEN LegacyOf(j)
                                             ELSE Trim(Conversation(j, n)')
      BY DEF FileHistory, LegacyOf
    <3>1. CASE j = i
      <4>1. Len(written'[j]) \in 0..Len(written'[j])
        BY <1>0 DEF MemoryInv
      <4> QED BY <2>0, <2>1, <3>1, <4>1
    <3>2. CASE j # i
      BY <1>0, <2>1, <3>2 DEF HistoryInv, FileHistory, Conversation, LegacyOf
    <3> QED BY <3>1, <3>2
  <2> QED BY <1>2, <2>2, <2>3 DEF HistoryInv
<1> QED BY <1>3, <1>4, <1>5, <1>6

(* The file, in every state of the system.                                 *)
THEOREM HistoryInvariance == CSpec => []HistoryInv
<1>1. CInit => HistoryInv
  <2> SUFFICES ASSUME CInit PROVE HistoryInv
    OBVIOUS
  <2>1. \A q \in Requests : at[q] = "none"
    BY DEF CInit, InitBinding
  <2> QED BY <2>1 DEF CInit, HistoryInv, Importing, FileHistory, OneTurn
<1>2. MemoryInv /\ TypesInv /\ HistoryInv /\ [CNext]_cvars => HistoryInv'
  <2> SUFFICES ASSUME MemoryInv, TypesInv, HistoryInv, [CNext]_cvars PROVE HistoryInv'
    OBVIOUS
  <2>1. CASE \E t \in tasks : Advance(t)
    BY <2>1, AdvanceHistory
  <2>2. CASE \/ \E v \in Versions : Publish(v) /\ UNCHANGED memory
             \/ \E q \in Requests : Resolve(q) /\ UNCHANGED memory
             \/ \E q \in Requests : LookForFile(q) \/ Import(q) \/ Submit(q)
    BY <2>2, HandlerHistory
  <2>3. CASE \E q \in Requests : TakeLease(q) \/ LoseLease(q)
    BY <2>3, TasksHistory DEF TakeLease, LoseLease, Inside
  <2>4. CASE Crash
    <3>1. UNCHANGED <<uses, file, written>> /\ tasks' = {}
      BY <2>4 DEF Crash
    <3>2. \A q \in Requests : at'[q] # "importing" /\ (at'[q] \in {"open", "submitted"} => at'[q] = at[q])
      BY <2>4 DEF Crash
    <3> QED BY <3>1, <3>2 DEF HistoryInv, Importing, FileHistory, OneTurn, Conversation
  <2>5. CASE UNCHANGED cvars
    BY <2>5, TasksHistory DEF cvars, resolving
  <2> QED BY <2>1, <2>2, <2>3, <2>4, <2>5 DEF CNext
<1> QED BY <1>1, <1>2, MemoryInvariance, TypesInvariance, PTL DEF CSpec

(* trim_conversation: without a v1 file, the file is the most recent turns *)
(* that fit, each as often as it was appended.                             *)
THEOREM FileIsHistory == CSpec => []FileIsRecentHistory
<1>1. MemoryInv /\ HistoryInv => FileIsRecentHistory
  <2> SUFFICES ASSUME MemoryInv, HistoryInv, NEW i \in Ids, LegacyOf(i) = <<>>
               PROVE  file[i] = IF written[i] = <<>> THEN None ELSE Trim(written[i])
    BY DEF FileIsRecentHistory
  <2>1. FileHistory
    BY DEF HistoryInv
  <2>2. CASE file[i] = None
    BY <2>1, <2>2 DEF FileHistory
  <2>3. CASE file[i] # None
    <3>1. PICK n \in 0..Len(written[i]) :
            /\ n > 0 \/ written[i] = <<>> => LegacyOf(i) # <<>>
            /\ file[i] = IF n = Len(written[i]) THEN LegacyOf(i) ELSE Trim(Conversation(i, n))
      BY <2>1, <2>3 DEF FileHistory
    <3>2. n = 0 /\ written[i] # <<>>
      BY <3>1
    <3>3. written[i] \in Seq(Turns) /\ Len(written[i]) # 0
      BY <3>2, ConversationType, EmptySeq
    <3>4. Conversation(i, 0) = written[i]
      <4>1. SubSeq(written[i], 1, Len(written[i])) = written[i]
        BY <3>3, SubSeqFull
      <4> QED BY <3>3, <4>1, ConcatEmptySeq DEF Conversation
    <3> QED BY <3>1, <3>2, <3>3, <3>4
  <2> QED BY <2>2, <2>3
<1> QED BY <1>1, MemoryInvariance, HistoryInvariance, PTL

(* import_legacy_conversation: with a v1 file, the file is its turns and   *)
(* the turns appended, without the oldest of them.                         *)
THEOREM ImportedFileHistory == CSpec => []ImportedFileIsHistory
<1>1. HistoryInv => ImportedFileIsHistory
  BY DEF HistoryInv, FileHistory, ImportedFileIsHistory
<1> QED BY <1>1, HistoryInvariance, PTL

-----------------------------------------------------------------------------
(* What turns know                                                         *)

\* A harness session that is in use.
Aware(k) == context[k] # None

\* It knows a turn: it was told, or is being told; or it need not, as it was told
\* with a prompt it did not keep, or as another source took the turn, or another
\* request imported it, in this process.
Knows(k, x) == \/ x \in context[k]
               \/ x \in lost[k]
               \/ \E t \in tasks : t.pc = "turn" /\ KeyOf(t.run) = k /\ x \in t.told
               \/ x \in fresh[k[2]] /\ Foreign(x, k[1])

FileKnown == \A k \in Keys : Aware(k) => \A x \in ToSet(Load(k[2])) : Knows(k, x)

\* The same of a file that is about to be, but for the turn that writes it.
DraftKnown(t) == t.pc = "writing" =>
  \A k \in Keys : k[2] = uses[t.run] /\ Aware(k) =>
    \A x \in ToSet(t.draft) : Knows(k, x) \/ (x = t.run /\ k[1] # ask[t.run].source)

\* Nobody takes a turn in a session whose v1 file is still to be imported.
Hydrated == \A k \in Keys : context[k] # None => file[k[2]] # None \/ LegacyOf(k[2]) = <<>>

FreshWritten == \A i \in Ids : \A x \in fresh[i] \cap Requests :
  \E j \in DOMAIN written[i] : written[i][j] = x

KnowledgeInv == /\ FileKnown
                /\ \A t \in tasks : DraftKnown(t)
                /\ Hydrated
                /\ FreshWritten

(* A step that writes no file: what was known is known, and a harness      *)
(* session that comes to be used is told the file.                         *)
LEMMA KnowledgeMoves ==
  ASSUME KnowledgeInv, UNCHANGED <<resolving, file, written, fresh>>,
         \A k \in Keys : Aware(k)' /\ Aware(k) => \A x : Knows(k, x) => Knows(k, x)',
         \A k \in Keys : Aware(k)' /\ ~Aware(k) =>
           /\ \A x \in ToSet(Load(k[2])) : Knows(k, x)'
           /\ \A t \in tasks : t.pc = "writing" => uses[t.run] # k[2],
         \A k \in Keys : context'[k] # None =>
           context[k] # None \/ file[k[2]] # None \/ LegacyOf(k[2]) = <<>>,
         \A s \in tasks' : s \in tasks \/ DraftKnown(s)'
  PROVE  KnowledgeInv'
<1>0. UNCHANGED <<ask, at, uses, file, written, fresh>>
  BY DEF resolving
<1>1. FileKnown'
  <2>1. \A i : Load(i)' = Load(i)
    BY <1>0 DEF Load
  <2> SUFFICES ASSUME NEW k \in Keys, Aware(k)', NEW x \in ToSet(Load(k[2])) PROVE Knows(k, x)'
    BY <2>1 DEF FileKnown
  <2> QED BY DEF KnowledgeInv, FileKnown
<1>2. ASSUME NEW s \in tasks' PROVE DraftKnown(s)'
  <2>1. CASE s \in tasks
    <3> SUFFICES ASSUME s.pc = "writing", NEW k \in Keys, k[2] = uses[s.run], Aware(k)',
                        NEW x \in ToSet(s.draft)
                 PROVE  Knows(k, x)' \/ (x = s.run /\ k[1] # ask[s.run].source)
      BY <1>0 DEF DraftKnown
    <3>1. Aware(k)
      BY <2>1
    <3>2. Knows(k, x) \/ (x = s.run /\ k[1] # ask[s.run].source)
      BY <2>1, <3>1 DEF KnowledgeInv, DraftKnown
    <3> QED BY <3>1, <3>2
  <2> QED BY <2>1
<1>3. Hydrated' /\ FreshWritten'
  BY <1>0 DEF KnowledgeInv, Hydrated, FreshWritten, LegacyOf
<1> QED BY <1>1, <1>2, <1>3 DEF KnowledgeInv

(* A task that moves on and writes no file.                                *)
LEMMA TurnKnowledge ==
  ASSUME MemoryInv, TypesInv, HistoryInv, KnowledgeInv, NEW t \in tasks,
         EnterTurn(t) \/ Answer(t) \/ FailTurn(t)
  PROVE  KnowledgeInv'
<1> DEFINE q == t.run
           i == uses[q]
           k == KeyOf(q)
<1>0. /\ q \in Requests /\ i \in Ids /\ at[q] = "submitted" /\ k \in Keys /\ t \in Task
      /\ k = <<ask[q].source, i>> /\ k[2] = i /\ k[1] = ask[q].source
      /\ UNCHANGED <<resolving, file, written, fresh>> /\ tasks \subseteq Task
      /\ context \in [Keys -> (SUBSET Turns) \cup {None}]
  BY TaskKey DEF EnterTurn, Answer, FailTurn, TypesInv, CTypeOK, KeyOf
<1>keys. \A r : KeyOf(r)' = KeyOf(r)
  BY <1>0 DEF KeyOf, resolving
<1>foreign. \A x, source : Foreign(x, source)' = Foreign(x, source)
  BY <1>0 DEF Foreign, resolving
<1>filed. file[i] # None \/ LegacyOf(i) = <<>>
  BY <1>0 DEF HistoryInv, Importing
<1> HIDE DEF q, i, k
<1>failed. ASSUME NEW pc \in {"unkept", "failed"}, NEW u, u = [t EXCEPT !.pc = pc]
           PROVE  u.pc = pc /\ DraftKnown(u)'
  <2>1. u.pc = pc
    BY <1>0, <1>failed DEF Task
  <2> QED BY <2>1 DEF DraftKnown
<1>1. ASSUME EnterTurn(t) PROVE KnowledgeInv'
  <2> SUFFICES ASSUME NEW told, told = IF context[k] = None THEN ToSet(Load(i)) ELSE {},
                      NEW u, u = [t EXCEPT !.pc = "turn", !.told = told],
                      NEW v, v = [t EXCEPT !.pc = "failed"]
               PROVE  KnowledgeInv'
    OBVIOUS
  <2>1. /\ t.pc = "waiting" /\ LockFree(i) /\ lost' = lost
        /\ \/ /\ tasks' = (tasks \ {t}) \cup {u}
              /\ context' = [context EXCEPT ![k] = IF @ = None THEN {} ELSE @]
           \/ tasks' = (tasks \ {t}) \cup {v} /\ context' = context
    BY <1>1 DEF EnterTurn, Become, q, i, k
  <2>2. v.pc = "failed" /\ DraftKnown(v)'
    BY <1>failed
  <2>3. u.run = q /\ u.pc = "turn" /\ u.told = told
    BY <1>0 DEF Task, Ends, q
  <2>4. DraftKnown(u)'
    BY <2>3 DEF DraftKnown
  <2>5. \A s \in tasks' : s \in tasks \/ DraftKnown(s)'
    BY <2>1, <2>2, <2>4
  <2>6. \A c \in Keys : context[c] # None => context'[c] = context[c]
    BY <1>0, <2>1
  <2>7. \A c \in Keys : Aware(c)' /\ Aware(c) => \A x : Knows(c, x) => Knows(c, x)'
    <3>1. \A s \in tasks : s.pc = "turn" => s \in tasks'
      BY <2>1
    <3> QED BY <1>0, <1>keys, <1>foreign, <2>1, <2>6, <3>1 DEF Knows, Aware
  <2>8. ASSUME NEW c \in Keys, context[c] = None, context'[c] # None
        PROVE  c = k /\ u \in tasks' /\ told = ToSet(Load(i))
    BY <1>0, <2>1, <2>8
  <2>9. \A c \in Keys : Aware(c)' /\ ~Aware(c) =>
          /\ \A x \in ToSet(Load(c[2])) : Knows(c, x)'
          /\ \A s \in tasks : s.pc = "writing" => uses[s.run] # c[2]
    <3> SUFFICES ASSUME NEW c \in Keys, Aware(c)', ~Aware(c)
                 PROVE  /\ \A x \in ToSet(Load(c[2])) : Knows(c, x)'
                        /\ \A s \in tasks : s.pc = "writing" => uses[s.run] # c[2]
      OBVIOUS
    <3>1. c = k /\ u \in tasks' /\ told = ToSet(Load(i))
      BY <2>1, <2>8 DEF Aware
    <3>2. \A s \in tasks : s.pc = "writing" => uses[s.run] # c[2]
      BY <1>0, <2>1, <3>1 DEF LockFree
    <3>3. \A x \in ToSet(Load(c[2])) : Knows(c, x)'
      BY <1>0, <1>keys, <2>3, <3>1 DEF Knows, k
    <3> QED BY <3>2, <3>3
  <2>10. \A c \in Keys : context'[c] # None =>
           context[c] # None \/ file[c[2]] # None \/ LegacyOf(c[2]) = <<>>
    BY <1>0, <1>filed, <2>8
  <2> QED BY <1>0, <2>5, <2>7, <2>9, <2>10, KnowledgeMoves
<1>2. ASSUME Answer(t) PROVE KnowledgeInv'
  <2> SUFFICES ASSUME NEW draft, draft = Trim(Append(Load(i), q)),
                      NEW u, u = [t EXCEPT !.pc = "writing", !.draft = draft]
               PROVE  KnowledgeInv'
    OBVIOUS
  <2>1. /\ t.pc = "turn" /\ lost' = lost /\ tasks' = (tasks \ {t}) \cup {u}
        /\ context' = [context EXCEPT ![k] = @ \cup t.told \cup {q}]
    BY <1>2 DEF Answer, Become, q, i, k
  <2>2. context[k] # None
    BY <2>1 DEF TypesInv, k, q
  <2>3. u.run = q /\ u.pc = "writing" /\ u.draft = draft
    BY <1>0 DEF Task, Ends, q
  <2>4. /\ \A c \in Keys : context[c] \subseteq context'[c]
        /\ t.told \cup {q} \subseteq context'[k]
        /\ \A c \in Keys : context'[c] # None => context[c] # None
    BY <1>0, <2>1, <2>2
  <2>5. \A c \in Keys : Aware(c)' => Aware(c)
    BY <2>1, <2>4 DEF Aware
  <2>6. \A c \in Keys : \A x : Knows(c, x) => Knows(c, x)'
    <3> SUFFICES ASSUME NEW c \in Keys, NEW x, Knows(c, x) PROVE Knows(c, x)'
      OBVIOUS
    <3>1. CASE x \in context[c] \cup lost[c]
      BY <2>1, <2>4, <3>1 DEF Knows
    <3>2. ASSUME NEW s \in tasks, s.pc = "turn", KeyOf(s.run) = c, x \in s.told PROVE Knows(c, x)'
      <4>1. CASE s = t
        BY <2>4, <3>2, <4>1 DEF Knows, k, q
      <4>2. CASE s # t
        BY <1>keys, <2>1, <3>2, <4>2 DEF Knows
      <4> QED BY <4>1, <4>2
    <3>3. CASE x \in fresh[c[2]] /\ Foreign(x, c[1])
      BY <1>0, <1>foreign, <3>3 DEF Knows
    <3> QED BY <3>1, <3>2, <3>3 DEF Knows
  <2>7. DraftKnown(u)'
    <3> SUFFICES ASSUME NEW c \in Keys, c[2] = i, Aware(c)', NEW x \in ToSet(draft)
                 PROVE  Knows(c, x)' \/ (x = q /\ c[1] # ask[q].source)
      BY <1>0, <2>3 DEF DraftKnown, resolving, i, q
    <3>1. x \in ToSet(Load(i)) \/ x = q
      <4>1. Load(i) \in Seq(Turns) /\ q \in Turns
        BY <1>0, LoadType, RequestsAreTurns DEF TypesInv, CTypeOK
      <4> DEFINE a == Append(Load(i), q)
      <4>2. /\ a \in Seq(Turns) /\ Len(a) = Len(Load(i)) + 1 /\ a[Len(Load(i)) + 1] = q
            /\ \A j \in 1..Len(Load(i)) : a[j] = Load(i)[j]
            /\ DOMAIN Load(i) = 1..Len(Load(i)) /\ Len(Load(i)) \in Nat
        BY <4>1, AppendProperties
      <4>3. x \in ToSet(a)
        BY <4>2, TrimProperties
      <4> HIDE DEF a
      <4>4. PICK j \in 1..Len(a) : x = a[j]
        BY <4>2, <4>3 DEF ToSet
      <4>5. CASE j = Len(Load(i)) + 1
        BY <4>2, <4>4, <4>5
      <4>6. CASE j # Len(Load(i)) + 1
        <5>1. j \in 1..Len(Load(i))
          BY <4>2, <4>6
        <5> QED BY <4>2, <4>4, <5>1 DEF ToSet
      <4> QED BY <4>5, <4>6
    <3>2. CASE x \in ToSet(Load(i))
      BY <2>5, <2>6, <3>2 DEF KnowledgeInv, FileKnown
    <3>3. CASE x = q /\ c[1] = ask[q].source
      <4>1. c = k
        BY <1>0, <3>3 DEF Keys
      <4> QED BY <2>4, <3>3, <4>1 DEF Knows
    <3> QED BY <3>1, <3>2, <3>3
  <2>8. \A s \in tasks' : s \in tasks \/ DraftKnown(s)'
    BY <2>1, <2>7
  <2> QED BY <1>0, <2>4, <2>5, <2>6, <2>8, KnowledgeMoves
<1>3. ASSUME FailTurn(t) PROVE KnowledgeInv'
  <2>0. PICK pc \in {"unkept", "failed"} : tasks' = (tasks \ {t}) \cup {[t EXCEPT !.pc = pc]}
    BY <1>3 DEF FailTurn, Become
  <2> SUFFICES ASSUME NEW v, v = [t EXCEPT !.pc = pc] PROVE KnowledgeInv'
    OBVIOUS
  <2>1. PICK kept \in {{}, t.told \cup {q}} :
          /\ context' = [context EXCEPT ![k] = @ \cup kept]
          /\ lost' = [lost EXCEPT ![k] = @ \cup (t.told \ kept)]
    BY <1>3 DEF FailTurn, q, k
  <2>2. t.pc = "turn" /\ tasks' = (tasks \ {t}) \cup {v}
    BY <1>3, <2>0 DEF FailTurn
  <2>3. v.pc # "turn" /\ DraftKnown(v)' /\ context[k] # None
    BY <1>failed, <2>2 DEF TypesInv, k, q
  <2>4. /\ \A c \in Keys : context[c] \subseteq context'[c] /\ lost[c] \subseteq lost'[c]
        /\ t.told \subseteq context'[k] \cup lost'[k]
        /\ \A c \in Keys : context'[c] # None => context[c] # None
    <3>1. \A c \in Keys : context'[c] = IF c = k THEN context[k] \cup kept ELSE context[c]
      BY <1>0, <2>1
    <3>2. \A c \in Keys : lost'[c] = IF c = k THEN lost[k] \cup (t.told \ kept) ELSE lost[c]
      BY <1>0, <2>1 DEF TypesInv
    <3> QED BY <1>0, <2>3, <3>1, <3>2
  <2>5. \A c \in Keys : Aware(c)' => Aware(c)
    BY <2>4 DEF Aware
  <2>6. \A c \in Keys : \A x : Knows(c, x) => Knows(c, x)'
    <3> SUFFICES ASSUME NEW c \in Keys, NEW x, Knows(c, x) PROVE Knows(c, x)'
      OBVIOUS
    <3>1. CASE x \in context[c] \cup lost[c]
      BY <2>4, <3>1 DEF Knows
    <3>2. ASSUME NEW s \in tasks, s.pc = "turn", KeyOf(s.run) = c, x \in s.told PROVE Knows(c, x)'
      <4>1. CASE s = t
        BY <2>4, <3>2, <4>1 DEF Knows, k, q
      <4>2. CASE s # t
        BY <1>keys, <2>2, <3>2, <4>2 DEF Knows
      <4> QED BY <4>1, <4>2
    <3>3. CASE x \in fresh[c[2]] /\ Foreign(x, c[1])
      BY <1>0, <1>foreign, <3>3 DEF Knows
    <3> QED BY <3>1, <3>2, <3>3 DEF Knows
  <2>7. \A s \in tasks' : s \in tasks \/ DraftKnown(s)'
    BY <2>2, <2>3
  <2> QED BY <1>0, <2>4, <2>5, <2>6, <2>7, KnowledgeMoves
<1> QED BY <1>1, <1>2, <1>3

(* A task that ends, or a new one, or a lease that is lost.                *)
LEMMA TasksKnowledge ==
  ASSUME KnowledgeInv, UNCHANGED <<resolving, file, written, fresh, context, lost>>,
         \A s \in tasks : s.pc = "turn" => s \in tasks',
         \A s \in tasks' : s \in tasks \/ s.pc # "writing"
  PROVE  KnowledgeInv'
<1>0. /\ \A r : KeyOf(r)' = KeyOf(r)
      /\ \A x, source : Foreign(x, source)' = Foreign(x, source)
  BY DEF KeyOf, Foreign, resolving
<1>1. \A k : Aware(k)' <=> Aware(k)
  BY DEF Aware
<1>2. \A k, x : Knows(k, x) => Knows(k, x)'
  BY <1>0 DEF Knows
<1>3. \A s \in tasks' : s \in tasks \/ DraftKnown(s)'
  BY DEF DraftKnown
<1> QED BY <1>1, <1>2, <1>3, KnowledgeMoves

(* append_conversation_turn replaces the file: what it now holds was known *)
(* of the draft, and the turn that wrote it is new to the other source.    *)
LEMMA WriteKnowledge ==
  ASSUME MemoryInv, TypesInv, HistoryInv, KnowledgeInv, NEW t \in tasks, t.pc = "writing",
         file' = [file EXCEPT ![uses[t.run]] = t.draft],
         written' = [written EXCEPT ![uses[t.run]] = Append(@, t.run)],
         fresh' = [fresh EXCEPT ![uses[t.run]] = @ \cup {t.run}],
         Become(t, [t EXCEPT !.pc = "answered"]),
         UNCHANGED <<resolving, context, lost>>
  PROVE  KnowledgeInv'
<1> DEFINE q == t.run
           i == uses[q]
<1> SUFFICES ASSUME NEW u, u = [t EXCEPT !.pc = "answered"] PROVE KnowledgeInv'
  OBVIOUS
<1>0. /\ q \in Requests /\ i \in Ids /\ t \in Task /\ tasks \subseteq Task
      /\ UNCHANGED <<ask, at, uses>> /\ tasks' = (tasks \ {t}) \cup {u}
      /\ fresh \in [Ids -> SUBSET Turns] /\ file \in [Ids -> Seq(Turns) \cup {None}]
  BY TaskKey DEF TypesInv, CTypeOK, resolving, Become
<1>1. u.pc = "answered" /\ t.draft \in Seq(Turns) /\ t.draft # None
  BY <1>0, MemoryAssumption DEF Task
<1>2. /\ file'[i] = t.draft /\ \A j \in Ids \ {i} : file'[j] = file[j] /\ written'[j] = written[j]
      /\ \A j \in Ids : fresh[j] \subseteq fresh'[j] /\ fresh'[j] \subseteq fresh[j] \cup {q}
      /\ \A j \in Ids \ {i} : fresh'[j] = fresh[j]
      /\ q \in fresh'[i]
  BY <1>0 DEF MemoryInv
<1>keys. /\ \A r : KeyOf(r)' = KeyOf(r)
         /\ \A x, source : Foreign(x, source)' = Foreign(x, source)
  BY <1>0 DEF KeyOf, Foreign
<1>3. \A k \in Keys : Aware(k)' <=> Aware(k)
  BY DEF Aware
<1>4. \A k \in Keys : \A x : Knows(k, x) => Knows(k, x)'
  <2>1. \A s \in tasks : s.pc = "turn" => s \in tasks'
    BY <1>0
  <2>2. \A k \in Keys : fresh[k[2]] \subseteq fresh'[k[2]]
    BY <1>2 DEF Keys
  <2> QED BY <1>keys, <2>1, <2>2 DEF Knows
<1>5. ASSUME NEW s \in tasks', s.pc \in Inside
      PROVE  s \in tasks /\ uses[s.run] # i /\ uses[s.run] \in Ids
  <2>1. s \in tasks /\ s # t
    BY <1>0, <1>1, <1>5 DEF Inside
  <2> QED BY <2>1, <1>5, TaskKey DEF HistoryInv, OneTurn, Inside
<1>6. FileKnown'
  <2> SUFFICES ASSUME NEW k \in Keys, NEW j \in Ids, j = k[2], Aware(k)',
                      NEW x \in ToSet(Load(j)')
               PROVE  Knows(k, x)'
    BY DEF FileKnown, Keys, Load
  <2>1. CASE j # i
    <3>1. Load(j)' = Load(j)
      BY <1>2, <2>1 DEF Load
    <3> QED BY <1>3, <1>4, <3>1 DEF KnowledgeInv, FileKnown
  <2>2. CASE j = i
    <3>1. Load(j)' = LastTurns(t.draft)
      BY <1>1, <1>2, <2>2 DEF Load
    <3>2. x \in ToSet(t.draft)
      BY <1>1, <3>1, TrimProperties
    <3>3. Knows(k, x) \/ (x = q /\ k[1] # ask[q].source)
      BY <1>3, <2>2, <3>2 DEF KnowledgeInv, DraftKnown
    <3>4. CASE x = q /\ k[1] # ask[q].source
      <4>1. Foreign(x, k[1])' /\ x \in fresh'[k[2]]
        BY <1>0, <1>2, <2>2, <3>4 DEF Foreign
      <4> QED BY <4>1 DEF Knows
    <3> QED BY <1>4, <3>3, <3>4
  <2> QED BY <2>1, <2>2
<1>7. ASSUME NEW s \in tasks' PROVE DraftKnown(s)'
  <2> SUFFICES ASSUME s.pc = "writing", NEW k \in Keys, k[2] = uses[s.run], Aware(k)',
                      NEW x \in ToSet(s.draft)
               PROVE  Knows(k, x)' \/ (x = s.run /\ k[1] # ask[s.run].source)
    BY <1>0 DEF DraftKnown
  <2>1. s \in tasks
    BY <1>5 DEF Inside
  <2> QED BY <1>3, <1>4, <2>1 DEF KnowledgeInv, DraftKnown
<1>8. Hydrated'
  <2>1. \A j \in Ids : file[j] # None => file'[j] # None
    BY <1>1, <1>2
  <2>2. \A k \in Keys : k[2] \in Ids
    BY DEF Keys
  <2> QED BY <2>1, <2>2 DEF KnowledgeInv, Hydrated, LegacyOf
<1>9. FreshWritten'
  <2> SUFFICES ASSUME NEW j \in Ids, NEW x \in fresh'[j], x \in Requests
               PROVE  \E n \in DOMAIN written'[j] : written'[j][n] = x
    BY DEF FreshWritten
  <2>1. CASE j # i
    BY <1>2, <2>1 DEF KnowledgeInv, FreshWritten
  <2>2. CASE j = i
    <3>1. written[j] \in Seq(Requests) /\ written'[j] = Append(written[j], q)
      BY <1>0, <2>2 DEF MemoryInv
    <3>2. /\ written'[j] \in Seq(Requests) /\ Len(written'[j]) = Len(written[j]) + 1
          /\ written'[j][Len(written[j]) + 1] = q /\ Len(written[j]) \in Nat
          /\ \A n \in 1..Len(written[j]) : written'[j][n] = written[j][n]
      BY <1>0, <3>1, AppendProperties
    <3>3. DOMAIN written'[j] = 1..(Len(written[j]) + 1) /\ DOMAIN written[j] = 1..Len(written[j])
      BY <3>1, <3>2
    <3>4. CASE x = q
      BY <3>2, <3>3, <3>4
    <3>5. CASE x # q
      <4>1. x \in fresh[j]
        BY <1>2, <3>5
      <4>2. PICK n \in DOMAIN written[j] : written[j][n] = x
        BY <4>1 DEF KnowledgeInv, FreshWritten
      <4> QED BY <3>2, <3>3, <4>2
    <3> QED BY <3>4, <3>5
  <2> QED BY <2>1, <2>2
<1> QED BY <1>6, <1>7, <1>8, <1>9 DEF KnowledgeInv

(* A request's handler goes on: an import finds nobody in a turn of the    *)
(* session, unless others have imported before it; then it puts back what  *)
(* they imported.                                                          *)
LEMMA HandlerKnowledge ==
  ASSUME MemoryInv, TypesInv, HistoryInv, KnowledgeInv,
         \/ \E v \in Versions : Publish(v) /\ UNCHANGED memory
         \/ \E p \in Requests : Resolve(p) /\ UNCHANGED memory
         \/ \E p \in Requests : LookForFile(p) \/ Import(p) \/ Submit(p)
  PROVE  KnowledgeInv'
<1>0. /\ UNCHANGED <<tasks, context, lost, written>>
      /\ file \in [Ids -> Seq(Turns) \cup {None}] /\ fresh \in [Ids -> SUBSET Turns]
      /\ uses \in [Requests -> Ids \cup {None}]
      /\ \A p \in Requests : at[p] \in {"resolved", "importing", "open", "submitted"} => uses[p] \in Ids
  BY DEF memory, LookForFile, Import, Submit, TypesInv, CTypeOK, BindingOK
<1>same. \A p \in Requests : at[p] = "submitted" => uses'[p] = uses[p] /\ ask'[p] = ask[p]
  BY OthersResolve DEF LookForFile, Import, Submit, Goto
<1>1. ASSUME NEW t \in tasks
      PROVE  /\ t.run \in Requests /\ KeyOf(t.run)' = KeyOf(t.run)
             /\ uses'[t.run] = uses[t.run] /\ ask'[t.run] = ask[t.run]
  <2>1. t.run \in Requests /\ at[t.run] = "submitted"
    BY TaskKey
  <2> QED BY <1>same, <2>1 DEF KeyOf
<1>2. ASSUME NEW i \in Ids, NEW x \in fresh[i], NEW source, Foreign(x, source)
      PROVE  Foreign(x, source)'
  <2> SUFFICES ASSUME x \in Requests PROVE ask'[x].source # source
    BY DEF Foreign
  <2>1. \E j \in DOMAIN written[i] : written[i][j] = x
    BY DEF KnowledgeInv, FreshWritten
  <2>2. TurnOK(x)
    BY DEF MemoryInv
  <2>3. at[x] = "submitted"
    BY <2>1, <2>2 DEF TurnOK
  <2> QED BY <1>2, <1>same, <2>3 DEF Foreign
<1>3. \A k \in Keys : Aware(k)' <=> Aware(k)
  BY <1>0 DEF Aware
<1>knows. ASSUME \A i \in Ids : fresh[i] \subseteq fresh'[i], NEW k \in Keys, NEW x, Knows(k, x)
          PROVE  Knows(k, x)'
  <2>1. k[2] \in Ids
    BY DEF Keys
  <2>2. CASE \E t \in tasks : t.pc = "turn" /\ KeyOf(t.run) = k /\ x \in t.told
    BY <1>0, <1>1, <2>2 DEF Knows
  <2>3. CASE x \in fresh[k[2]] /\ Foreign(x, k[1])
    BY <1>2, <1>knows, <2>1, <2>3 DEF Knows
  <2>4. CASE x \in context[k] \cup lost[k]
    BY <1>0, <2>4 DEF Knows
  <2> QED BY <1>knows, <2>2, <2>3, <2>4 DEF Knows
<1>drafts. ASSUME \A i \in Ids : fresh[i] \subseteq fresh'[i], NEW s \in tasks'
           PROVE  DraftKnown(s)'
  <2>1. s \in tasks /\ uses'[s.run] = uses[s.run] /\ ask'[s.run] = ask[s.run]
    BY <1>0, <1>1
  <2> SUFFICES ASSUME s.pc = "writing", NEW k \in Keys, k[2] = uses[s.run], Aware(k)',
                      NEW x \in ToSet(s.draft)
               PROVE  Knows(k, x)' \/ (x = s.run /\ k[1] # ask[s.run].source)
    BY <2>1 DEF DraftKnown
  <2> QED BY <1>3, <1>knows, <1>drafts, <2>1 DEF KnowledgeInv, DraftKnown
<1>4. CASE UNCHANGED <<file, fresh>>
  <2>1. FileKnown'
    <3> SUFFICES ASSUME NEW k \in Keys, Aware(k)', NEW x \in ToSet(Load(k[2])) PROVE Knows(k, x)'
      BY <1>4 DEF FileKnown, Load
    <3> QED BY <1>3, <1>4, <1>knows DEF KnowledgeInv, FileKnown
  <2>2. Hydrated' /\ FreshWritten'
    BY <1>0, <1>4 DEF KnowledgeInv, Hydrated, FreshWritten, LegacyOf
  <2> QED BY <1>4, <1>drafts, <2>1, <2>2 DEF KnowledgeInv
<1>5. ASSUME NEW q \in Requests, Import(q) PROVE KnowledgeInv'
  <2> DEFINE i == uses[q]
  <2>0. /\ i \in Ids /\ LegacyOf(i) # <<>> /\ LegacyOf(i) # None
        /\ ToSet(LegacyOf(i)) \subseteq Turns /\ Requests \cap ToSet(LegacyOf(i)) = {}
        /\ LegacyOf(i) \in Seq(Turns)
    <3>1. i \in Ids /\ at[q] = "importing"
      BY <1>0, <1>5 DEF Import
    <3>2. LegacyOf(i) # <<>> /\ LegacyOf(i) \in Seq(Turns)
      BY <3>1, LegacyType DEF HistoryInv, Importing
    <3> QED BY <3>1, <3>2, LegacyType, MemoryAssumption
  <2>1. \A j \in Ids : file'[j] = IF j = i THEN LegacyOf(i) ELSE file[j]
    BY <1>0, <1>5 DEF Import
  <2>2. /\ \A j \in Ids : fresh[j] \subseteq fresh'[j]
        /\ \A j \in Ids : fresh'[j] \cap Requests \subseteq fresh[j]
        /\ written[i] # <<>> => ToSet(LegacyOf(i)) \subseteq fresh'[i]
    <3>1. CASE written[i] = <<>>
      BY <1>5, <3>1 DEF Import
    <3>2. CASE written[i] # <<>>
      <4>1. fresh' = [fresh EXCEPT ![i] = @ \cup ToSet(LegacyOf(i))]
        BY <1>5, <3>2 DEF Import
      <4> HIDE DEF i
      <4> QED BY <1>0, <2>0, <4>1
    <3> QED BY <3>1, <3>2
  <2>3. FileKnown'
    <3> SUFFICES ASSUME NEW k \in Keys, NEW j \in Ids, j = k[2], Aware(k)',
                        NEW x \in ToSet(Load(j)')
                 PROVE  Knows(k, x)'
      BY DEF FileKnown, Keys, Load
    <3>0. Aware(k)
      BY <1>3
    <3>1. CASE j # i
      <4>1. Load(j)' = Load(j)
        BY <2>1, <3>1 DEF Load
      <4> QED BY <1>knows, <2>2, <3>0, <4>1 DEF KnowledgeInv, FileKnown
    <3>2. CASE j = i
      <4>1. Load(j)' = LastTurns(LegacyOf(i)) /\ x \in ToSet(LegacyOf(i))
        BY <2>0, <2>1, <3>2, TrimProperties DEF Load
      <4>2. CASE written[i] = <<>>
        <5>1. file[i] # None
          <6>1. file[j] # None \/ LegacyOf(j) = <<>>
            BY <3>0 DEF KnowledgeInv, Hydrated, Aware
          <6> QED BY <2>0, <3>2, <6>1
        <5>2. file[i] = LegacyOf(i)
          BY <2>0, <4>2, <5>1 DEF HistoryInv, FileHistory
        <5>3. x \in ToSet(Load(j))
          BY <3>2, <4>1, <5>1, <5>2 DEF Load
        <5> QED BY <1>knows, <2>2, <3>0, <5>3 DEF KnowledgeInv, FileKnown
      <4>3. CASE written[i] # <<>>
        <5>1. x \in fresh'[k[2]] /\ x \notin Requests
          BY <2>0, <2>2, <3>2, <4>1, <4>3
        <5> QED BY <5>1 DEF Knows, Foreign
      <4> QED BY <4>2, <4>3
    <3> QED BY <3>1, <3>2
  <2>4. Hydrated'
    <3>1. \A j \in Ids : file[j] # None => file'[j] # None
      BY <2>0, <2>1
    <3>2. \A k \in Keys : k[2] \in Ids
      BY DEF Keys
    <3> QED BY <1>0, <3>1, <3>2 DEF KnowledgeInv, Hydrated, LegacyOf
  <2>5. FreshWritten'
    BY <1>0, <2>2 DEF KnowledgeInv, FreshWritten
  <2> QED BY <1>drafts, <2>2, <2>3, <2>4, <2>5 DEF KnowledgeInv
<1> QED BY <1>4, <1>5 DEF memory, LookForFile, Submit

(* What turns know, in every state of the system.                          *)
THEOREM KnowledgeInvariance == CSpec => []KnowledgeInv
<1>1. CInit => KnowledgeInv
  BY DEF CInit, KnowledgeInv, FileKnown, Aware, Hydrated, FreshWritten
<1>2. MemoryInv /\ TypesInv /\ HistoryInv /\ KnowledgeInv /\ [CNext]_cvars => KnowledgeInv'
  <2> SUFFICES ASSUME MemoryInv, TypesInv, HistoryInv, KnowledgeInv, [CNext]_cvars
               PROVE  KnowledgeInv'
    OBVIOUS
  <2>1. ASSUME NEW t \in tasks, Advance(t) PROVE KnowledgeInv'
    <3>0. t \in Task
      BY DEF TypesInv, CTypeOK
    <3>1. CASE EnterTurn(t) \/ Answer(t) \/ FailTurn(t)
      BY <3>1, TurnKnowledge
    <3>2. CASE Finish(t)
      BY <3>2, TasksKnowledge DEF Finish, Ends
    <3>3. ASSUME WriteFile(t) PROVE KnowledgeInv'
      <4>1. CASE Become(t, [t EXCEPT !.pc = "failed"]) /\ UNCHANGED <<file, written, fresh>>
        <5>1. UNCHANGED <<resolving, context, lost>> /\ t.pc = "writing"
          BY <3>3 DEF WriteFile
        <5>2. [t EXCEPT !.pc = "failed"].pc = "failed"
          BY <3>0 DEF Task
        <5>3. \A s \in tasks : s.pc = "turn" => s \in tasks'
          BY <4>1, <5>1 DEF Become
        <5>4. \A s \in tasks' : s \in tasks \/ s.pc # "writing"
          BY <4>1, <5>2 DEF Become
        <5> QED BY <4>1, <5>1, <5>3, <5>4, TasksKnowledge
      <4>2. CASE ~UNCHANGED <<file, written, fresh>> \/ ~Become(t, [t EXCEPT !.pc = "failed"])
        BY <3>3, <4>2, WriteKnowledge DEF WriteFile
      <4> QED BY <4>1, <4>2
    <3> QED BY <2>1, <3>1, <3>2, <3>3 DEF Advance
  <2>2. CASE \/ \E v \in Versions : Publish(v) /\ UNCHANGED memory
             \/ \E q \in Requests : Resolve(q) /\ UNCHANGED memory
             \/ \E q \in Requests : LookForFile(q) \/ Import(q) \/ Submit(q)
    BY <2>2, HandlerKnowledge
  <2>3. CASE \E q \in Requests : TakeLease(q) \/ LoseLease(q)
    BY <2>3, TasksKnowledge DEF TakeLease, LoseLease
  <2>4. CASE Crash
    <3>1. /\ UNCHANGED <<file, written>> /\ tasks' = {} /\ fresh' = [i \in Ids |-> {}]
          /\ \A k \in Keys : context'[k] = None
      BY <2>4 DEF Crash
    <3> QED BY <3>1 DEF KnowledgeInv, FileKnown, Aware, Hydrated, FreshWritten
  <2>5. CASE UNCHANGED cvars
    BY <2>5, TasksKnowledge DEF cvars, resolving
  <2> QED BY <2>1, <2>2, <2>3, <2>4, <2>5 DEF CNext
<1> QED BY <1>1, <1>2, MemoryInvariance, TypesInvariance, HistoryInvariance, PTL DEF CSpec

(* Every turn knows the conversation in the file, but for turns of another *)
(* source or of a late import in the same process, and for those that were *)
(* told with a prompt the harness session did not keep.                    *)
THEOREM TurnsInformed == CSpec => []TurnsKnowHistory
<1>1. MemoryInv /\ TypesInv /\ HistoryInv /\ KnowledgeInv => TurnsKnowHistory
  <2> SUFFICES ASSUME MemoryInv, TypesInv, HistoryInv, KnowledgeInv, NEW t \in tasks,
                      t.pc = "turn", NEW x \in ToSet(Load(uses[t.run]))
               PROVE  \/ x \in context[KeyOf(t.run)] \cup t.told \cup lost[KeyOf(t.run)]
                      \/ x \in fresh[uses[t.run]] /\ Foreign(x, ask[t.run].source)
    BY DEF TurnsKnowHistory
  <2> DEFINE k == KeyOf(t.run)
  <2>1. k \in Keys /\ k[1] = ask[t.run].source /\ k[2] = uses[t.run]
    BY TaskKey DEF KeyOf
  <2>2. Aware(k)
    BY DEF Aware, TypesInv
  <2>3. Knows(k, x)
    BY <2>1, <2>2 DEF KnowledgeInv, FileKnown
  <2>4. ASSUME NEW u \in tasks, u.pc = "turn", KeyOf(u.run) = k PROVE u = t
    BY <2>4 DEF HistoryInv, OneTurn, Inside, KeyOf
  <2> QED BY <2>1, <2>3, <2>4 DEF Knows
<1> QED BY <1>1, MemoryInvariance, TypesInvariance, HistoryInvariance, KnowledgeInvariance, PTL

=============================================================================
