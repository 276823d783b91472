--------------------------- MODULE SessionBinding ---------------------------
(***************************************************************************)
(* How a request gets its session: the tables sessions, agent_versions and *)
(* external_conversation_bindings of control_plane.py, and the lookups of  *)
(* /chat, /internal/sessions/resolve and the /v1 API.  Every operation of  *)
(* ControlPlane that looks and then creates is two or three transactions;  *)
(* each is an action.                                                      *)
(*                                                                         *)
(* One tenant and one Agent; LOCAL_IDENTITY is its admin, as configured by *)
(* default.  A session id that the server issues, s_<uuid>, is named by    *)
(* the request that creates it.                                            *)
(***************************************************************************)
EXTENDS Naturals, Sequences, FiniteSets

CONSTANTS
  Requests,
  Names,          \* session ids that callers of /chat make up
  Conversations,  \* external_conversation_hash
  Principals,
  Local,          \* the principal of LOCAL_IDENTITY
  Versions,       \* Agent versions; DefaultModel and AllowedModels of each
  Models,
  DefaultModel,
  AllowedModels,
  First,          \* the version that is published from the start
  Asks,           \* what requests may ask for
  None

Ids == Names \cup Requests
Sources == {"http", "feishu"}

\* compat: /chat, or resolve with a session id only, as LOCAL_IDENTITY.
\* control: a run of /v1 in a session that /v1 issued.  new: /v1, or resolve,
\* without any.  external: resolve with a conversation.
Ask == [entry : {"compat", "control", "new", "external"},
        of : Ids \cup Conversations \cup {None}, owner : Principals,
        version : Versions \cup {None}, model : Models \cup {None},
        source : Sources]

SessionRow == [owner : Principals, version : Versions, model : Models]

ASSUME NamesAssumption ==
  /\ Names \cap Requests = {} /\ None \notin Ids \cup SessionRow
  /\ Local \in Principals
  /\ First \in Versions /\ DefaultModel \in [Versions -> Models]
  /\ AllowedModels \in [Versions -> SUBSET Models]
  /\ Asks \subseteq Ask
  /\ \A a \in Asks :
       /\ a.entry = "external" => a.of \in Conversations
       /\ a.entry = "new" => a.of = None
       /\ a.entry = "control" => a.of \in Requests /\ a.version = None
       /\ a.entry = "compat" => a.of \in Ids /\ a.version = None /\ a.owner = Local

VARIABLES
  published,  \* the published versions, by published_at
  sessions,   \* sessions[i]: the row, None before the INSERT
  binding,    \* binding[c]: the session the conversation is bound to, or None
  ask,        \* ask[q]: what q asks for; None before it arrives
  at,         \* at[q]: where its handler is
  uses        \* uses[q]: the session it was given

resolving == <<published, sessions, binding, ask, at, uses>>

\* Resolving: between two transactions.  A request with a session goes on to
\* the places after "resolved", which are Conversation's.
Resolving == {"inserting", "creating", "binding"}
Places == Resolving \cup
          {"none", "refused", "resolved", "importing", "open", "submitted"}

InitBinding == /\ published = <<First>>
               /\ sessions = [i \in Ids |-> None]
               /\ binding = [c \in Conversations |-> None]
               /\ ask = [q \in Requests |-> None]
               /\ at = [q \in Requests |-> "none"]
               /\ uses = [q \in Requests |-> None]

-----------------------------------------------------------------------------
Published == {published[i] : i \in DOMAIN published}

\* _agent_row: the version asked for, or the one published last.
VersionFor(a) == IF a.version = None THEN published[Len(published)] ELSE a.version

\* The row that a creates: agent_not_found or model_not_allowed without it.
NewRow(a) == LET v == VersionFor(a)
             IN [owner |-> a.owner, version |-> v,
                 model |-> IF a.model = None THEN DefaultModel[v] ELSE a.model]
Creatable(a) == /\ VersionFor(a) \in Published
                /\ NewRow(a).model \in AllowedModels[VersionFor(a)]

\* The checks of an existing session: get_session's, of the model, the version.
Visible(a, i) == /\ sessions[i] # None
                 /\ sessions[i].owner = a.owner \/ a.owner = Local
ModelFits(a, i) == a.model \in {None, sessions[i].model}
VersionFits(a, i) == a.version \in {None, sessions[i].version}

Goto(q, place) == at' = [at EXCEPT ![q] = place] /\ UNCHANGED uses
GiveNothing(q, i) == Goto(q, "resolved")

\* The handler goes on with session i.
Give(q, i) == /\ at' = [at EXCEPT ![q] = "resolved"]
              /\ uses' = [uses EXCEPT ![q] = i]

Tables == <<published, sessions, binding>>

-----------------------------------------------------------------------------
\* publish_agent_version
Publish(v) == /\ v \notin Published
              /\ published' = Append(published, v)
              /\ UNCHANGED <<sessions, binding, ask, at, uses>>

\* The first transaction on the session a caller names.
LookUp(q, a) ==
  /\ a.entry \in {"compat", "control"}
  /\ IF Visible(a, a.of)
     THEN IF ModelFits(a, a.of) THEN Give(q, a.of) ELSE Goto(q, "refused")
     ELSE Goto(q, IF a.entry = "compat" THEN "inserting" ELSE "refused")

\* The first transaction of bind_external_conversation.
LookUpConversation(q, a) ==
  LET i == binding[a.of]
  IN /\ a.entry = "external"
     /\ IF i = None THEN Goto(q, "creating")
        ELSE IF sessions[i].owner = a.owner /\ ModelFits(a, i) /\ VersionFits(a, i)
        THEN Give(q, i)
        ELSE Goto(q, "refused")

\* A request arrives and its first transaction is done.  Nobody guesses an
\* issued id.
Arrive(q, a) ==
  /\ at[q] = "none"
  /\ a.of \in Requests => sessions[a.of] # None
  /\ ask' = [ask EXCEPT ![q] = a]
  /\ \/ LookUp(q, a)
     \/ LookUpConversation(q, a)
     \/ a.entry = "new" /\ Goto(q, "creating")
  /\ UNCHANGED Tables

\* The INSERT of get_or_create_compat_session: the primary key refuses an id
\* that another request has inserted since.
InsertNamed(q) ==
  LET a == ask[q]
  IN /\ at[q] = "inserting"
     /\ IF Creatable(a) /\ sessions[a.of] = None
        THEN sessions' = [sessions EXCEPT ![a.of] = NewRow(a)] /\ Give(q, a.of)
        ELSE Goto(q, "refused") /\ UNCHANGED sessions
     /\ UNCHANGED <<published, binding, ask>>

\* create_session
CreateSession(q) ==
  LET a == ask[q]
  IN /\ at[q] = "creating"
     /\ IF Creatable(a)
        THEN /\ sessions' = [sessions EXCEPT ![q] = NewRow(a)]
             /\ IF a.entry = "new" THEN Give(q, q) ELSE Goto(q, "binding")
        ELSE Goto(q, "refused") /\ UNCHANGED sessions
     /\ UNCHANGED <<published, binding, ask>>

BindReplaces(q) ==
  /\ at[q] = "binding"
  /\ binding' = [binding EXCEPT ![ask[q].of] = q]
  /\ Give(q, q)
  /\ UNCHANGED <<published, sessions, ask>>

BindUnchecked(q) ==
  LET c == ask[q].of
  IN /\ at[q] = "binding"
     /\ binding' = [binding EXCEPT ![c] = IF @ = None THEN q ELSE @]
     /\ Give(q, binding'[c])
     /\ UNCHANGED <<published, sessions, ask>>

\* The second transaction of bind_external_conversation: another request may
\* have bound the conversation by then, and only its owner is compared.
Bind(q) ==
  LET i == binding[ask[q].of]
  IN /\ at[q] = "binding"
     /\ IF i = None
        THEN binding' = [binding EXCEPT ![ask[q].of] = q] /\ Give(q, q)
        ELSE /\ IF sessions[i].owner = ask[q].owner THEN Give(q, i)
                                                    ELSE Goto(q, "refused")
             /\ UNCHANGED binding
     /\ UNCHANGED <<published, sessions, ask>>

Resolve(q) == \/ \E a \in Asks : Arrive(q, a)
              \/ InsertNamed(q)
              \/ CreateSession(q)
              \/ Bind(q)

-----------------------------------------------------------------------------
(* Properties                                                              *)

BindingOK == /\ published \in Seq(Versions) /\ published # <<>>
             /\ sessions \in [Ids -> SessionRow \cup {None}]
             /\ binding \in [Conversations -> Requests \cup {None}]
             /\ ask \in [Requests -> Asks \cup {None}]
             /\ at \in [Requests -> Places]
             /\ uses \in [Requests -> Ids \cup {None}]
             /\ \A q \in Requests : uses[q] # None => sessions[uses[q]] # None

(* "Resolve one transport conversation to exactly one owned session"        *)
(* (bind_external_conversation): whoever asks for a conversation, and       *)
(* however first requests overlap, is given one and the same session.       *)
OneSessionPerConversation == \A p, q \in Requests :
  /\ uses[p] # None /\ uses[q] # None
  /\ ask[p].entry = "external" /\ ask[q].entry = "external"
  /\ ask[p].of = ask[q].of
  => uses[p] = uses[q]

(* Nobody but the admin is given another principal's session, and the       *)
(* session has the model and the Agent version that were asked for: except  *)
(* that a request which lost the race to bind, and so has created a session *)
(* of its own in vain, gets the winner's as it is.                          *)
ResolvedAsAsked == \A q \in Requests : uses[q] # None =>
  /\ Visible(ask[q], uses[q])
  /\ \/ ModelFits(ask[q], uses[q]) /\ VersionFits(ask[q], uses[q])
     \/ sessions[q] # None /\ uses[q] # q

(* The strengthening that makes the two inductive: what a request between   *)
(* its transactions may rely on, and that whoever was given a               *)
(* conversation's session was given the one it is bound to.                 *)
Pending(q) ==
  /\ at[q] # "none" => ask[q] \in Asks
  /\ at[q] \in Resolving \cup {"none"} => uses[q] = None
  /\ at[q] \in {"none", "creating"} => sessions[q] = None
  /\ at[q] = "inserting" => ask[q].entry = "compat" /\ ask[q].of \in Names
  /\ at[q] = "creating" => ask[q].entry \in {"new", "external"}
  /\ at[q] = "binding" => /\ ask[q].entry = "external" /\ Visible(ask[q], q)
                          /\ ModelFits(ask[q], q) /\ VersionFits(ask[q], q)

Bound == /\ \A c \in Conversations : binding[c] # None =>
              uses[binding[c]] = binding[c]
         /\ \A q \in Requests : uses[q] # None /\ ask[q].entry = "external" =>
              binding[ask[q].of] = uses[q]

BindingInv == /\ BindingOK
              /\ \A q \in Requests : Pending(q)
              /\ Bound
              /\ ResolvedAsAsked
=============================================================================
