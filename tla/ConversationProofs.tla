------------------------- MODULE ConversationProofs -------------------------
(***************************************************************************)
(* Theorems of Conversation, and of SessionBinding as a part of it: for    *)
(* every set of requests, names, conversations, principals and versions,   *)
(* every file and any number of faults.                                    *)
(***************************************************************************)
EXTENDS Conversation, TLAPS, FiniteSetTheorems

-----------------------------------------------------------------------------
(* The row that an ask creates is of the right type, belongs to the asker  *)
(* and has the model and the version asked for.                            *)
LEMMA NewRowFits ==
  ASSUME published \in Seq(Versions), published # <<>>, NEW a \in Asks, Creatable(a)
  PROVE  /\ NewRow(a) \in SessionRow
         /\ NewRow(a) # None
         /\ NewRow(a).owner = a.owner
         /\ a.model \in {None, NewRow(a).model}
         /\ a.version \in {None, NewRow(a).version}
<1>1. a \in Ask
  BY NamesAssumption
<1>2. VersionFor(a) \in Versions
  BY <1>1 DEF VersionFor, Ask
<1>3. DefaultModel[VersionFor(a)] \in Models
  BY <1>2, NamesAssumption
<1>4. NewRow(a) \in SessionRow
  BY <1>1, <1>2, <1>3 DEF NewRow, SessionRow, Ask
<1> QED BY <1>1, <1>4, NamesAssumption DEF NewRow, VersionFor, Ask

(* What is known of an ask by its entry.                                   *)
LEMMA AskFits ==
  ASSUME NEW a \in Asks
  PROVE  /\ a.entry \in {"compat", "control", "new", "external"}
         /\ a.entry = "external" => a.of \in Conversations
         /\ a.entry \in {"compat", "control"} => a.of \in Ids /\ a.version = None
         /\ a.entry = "control" => a.of \in Requests
         /\ a.entry = "compat" => a.owner = Local
BY NamesAssumption DEF Ask, Ids

(* The invariant holds when no request has arrived and no row exists.      *)
LEMMA InitBindingInv == InitBinding => BindingInv
<1> SUFFICES ASSUME InitBinding PROVE BindingInv
  OBVIOUS
<1>1. BindingOK
  <2>1. published \in Seq(Versions) /\ published # <<>>
    BY NamesAssumption DEF InitBinding
  <2>2. at \in [Requests -> Places]
    BY DEF InitBinding, Places
  <2> QED BY <2>1, <2>2 DEF InitBinding, BindingOK
<1>2. \A q \in Requests : Pending(q)
  BY DEF InitBinding, Pending, Resolving, Ids
<1>3. Bound /\ ResolvedAsAsked
  BY DEF InitBinding, Bound, ResolvedAsAsked
<1> QED BY <1>1, <1>2, <1>3 DEF BindingInv

(* The steps of other parts: they move a request on that has its session,  *)
(* or refuse it.                                                           *)
LEMMA OthersKeep ==
  ASSUME BindingInv, UNCHANGED <<Tables, ask, uses>>,
         at' \in [Requests -> Places],
         \A q \in Requests :
           \/ at'[q] = at[q]
           \/ at[q] # "none" /\ at'[q] \notin Resolving \cup {"none"}
  PROVE  BindingInv'
<1>1. BindingOK'
  BY DEF BindingInv, BindingOK, Tables
<1>2. ASSUME NEW q \in Requests PROVE Pending(q)'
  BY DEF BindingInv, Pending, Tables, Visible, ModelFits, VersionFits, Resolving
<1>3. Bound' /\ ResolvedAsAsked'
  BY DEF BindingInv, Bound, ResolvedAsAsked, Tables, Visible, ModelFits, VersionFits
<1> QED BY <1>1, <1>2, <1>3 DEF BindingInv

(* publish_agent_version adds a version and touches no session.            *)
LEMMA PublishKeeps ==
  ASSUME BindingInv, NEW v \in Versions, Publish(v) PROVE BindingInv'
<1>1. published' \in Seq(Versions) /\ published' # <<>>
  BY DEF BindingInv, BindingOK, Publish
<1>2. UNCHANGED <<sessions, binding, ask, at, uses>>
  BY DEF Publish
<1>3. BindingOK'
  BY <1>1, <1>2 DEF BindingInv, BindingOK
<1>4. ASSUME NEW q \in Requests PROVE Pending(q)'
  BY <1>2 DEF BindingInv, Pending, Visible, ModelFits, VersionFits
<1>5. Bound' /\ ResolvedAsAsked'
  BY <1>2 DEF BindingInv, Bound, ResolvedAsAsked, Visible, ModelFits, VersionFits
<1> QED BY <1>3, <1>4, <1>5 DEF BindingInv

(* A transaction of one request, q, which has no session yet: whoever else *)
(* is on the way finds the rows it relies on as they were.                 *)
LEMMA OneMoves ==
  ASSUME BindingInv, BindingOK', NEW q \in Requests, uses[q] = None,
         \A p \in Requests \ {q} : /\ at'[p] = at[p] /\ ask'[p] = ask[p]
                                   /\ uses'[p] = uses[p]
                                   /\ sessions'[p] = sessions[p],
         \A i \in Ids : sessions[i] # None => sessions'[i] = sessions[i],
         \A c \in Conversations :
           \/ binding'[c] = binding[c]
           \/ binding[c] = None /\ binding'[c] = q /\ uses'[q] = q,
         Pending(q)',
         uses'[q] # None =>
           /\ ask'[q].entry = "external" => binding'[ask'[q].of] = uses'[q]
           /\ Visible(ask[q], uses[q])'
           /\ \/ (ModelFits(ask[q], uses[q]) /\ VersionFits(ask[q], uses[q]))'
              \/ sessions'[q] # None /\ uses'[q] # q
  PROVE  BindingInv'
<1>0. None \notin Ids /\ Requests \subseteq Ids
  BY NamesAssumption DEF Ids
<1>uses. ASSUME NEW p \in Requests, uses[p] # None
         PROVE  /\ p # q /\ ask[p] \in Asks
                /\ uses[p] \in Ids /\ sessions'[uses[p]] = sessions[uses[p]]
  <2>1. at[p] # "none"
    BY <1>uses DEF BindingInv, Pending
  <2>2. ask[p] \in Asks
    BY <2>1 DEF BindingInv, Pending
  <2>3. uses[p] \in Ids /\ sessions[uses[p]] # None
    BY <1>uses DEF BindingInv, BindingOK
  <2> QED BY <1>uses, <2>2, <2>3
<1>1. ASSUME NEW p \in Requests \ {q} PROVE Pending(p)'
  <2>1. Pending(p) /\ p \in Ids
    BY <1>0 DEF BindingInv
  <2>2. at[p] = "binding" => sessions'[p] = sessions[p]
    BY <2>1 DEF Pending, Visible
  <2> QED BY <2>1, <2>2 DEF Pending, Visible, ModelFits, VersionFits
<1>2. ASSUME NEW c \in Conversations, binding'[c] # None
      PROVE  uses'[binding'[c]] = binding'[c]
  <2>1. CASE binding'[c] = binding[c]
    <3>1. binding[c] \in Requests /\ uses[binding[c]] = binding[c]
      BY <1>2, <2>1 DEF BindingInv, BindingOK, Bound
    <3> QED BY <2>1, <3>1, <1>0
  <2>2. CASE binding'[c] = q /\ uses'[q] = q
    BY <2>2
  <2> QED BY <2>1, <2>2
<1>3. ASSUME NEW p \in Requests, uses'[p] # None, ask'[p].entry = "external"
      PROVE  binding'[ask'[p].of] = uses'[p]
  <2>1. CASE p = q
    BY <1>3, <2>1
  <2>2. CASE p # q
    <3>1. uses'[p] = uses[p] /\ ask'[p] = ask[p] /\ uses[p] # None
      BY <1>3, <2>2
    <3>2. ask[p] \in Asks /\ ask[p].of \in Conversations
      BY <1>3, <3>1, <1>uses, AskFits
    <3>3. binding[ask[p].of] = uses[p]
      BY <1>3, <3>1 DEF BindingInv, Bound
    <3> QED BY <3>1, <3>2, <3>3
  <2> QED BY <2>1, <2>2
<1>4. ASSUME NEW p \in Requests, uses'[p] # None
      PROVE  /\ Visible(ask[p], uses[p])'
             /\ \/ (ModelFits(ask[p], uses[p]) /\ VersionFits(ask[p], uses[p]))'
                \/ sessions'[p] # None /\ uses'[p] # p
  <2>1. CASE p = q
    BY <1>4, <2>1
  <2>2. CASE p # q
    <3>1. /\ uses'[p] = uses[p] /\ ask'[p] = ask[p] /\ uses[p] # None
          /\ sessions'[p] = sessions[p]
      BY <1>4, <2>2
    <3>2. sessions'[uses[p]] = sessions[uses[p]]
      BY <3>1, <1>uses
    <3>3. /\ Visible(ask[p], uses[p])
          /\ \/ ModelFits(ask[p], uses[p]) /\ VersionFits(ask[p], uses[p])
             \/ sessions[p] # None /\ uses[p] # p
      BY <3>1 DEF BindingInv, ResolvedAsAsked
    <3> QED BY <3>1, <3>2, <3>3 DEF Visible, ModelFits, VersionFits
  <2> QED BY <2>1, <2>2
<1> QED BY <1>1, <1>2, <1>3, <1>4 DEF BindingInv, Bound, ResolvedAsAsked

(* A request moves on without a session: only its place changes.           *)
LEMMA GotoType ==
  ASSUME BindingOK, NEW q \in Requests, NEW place \in Places, Goto(q, place)
  PROVE  /\ at' \in [Requests -> Places] /\ at'[q] = place
         /\ \A p \in Requests \ {q} : at'[p] = at[p]
         /\ uses' = uses
  BY DEF BindingOK, Goto

(* A request is given session i: its place and its session change.         *)
LEMMA GiveType ==
  ASSUME BindingOK, NEW q \in Requests, NEW i \in Ids, Give(q, i)
  PROVE  /\ at' \in [Requests -> Places] /\ at'[q] = "resolved"
         /\ uses' \in [Requests -> Ids \cup {None}] /\ uses'[q] = i
         /\ \A p \in Requests \ {q} : at'[p] = at[p] /\ uses'[p] = uses[p]
  BY DEF BindingOK, Give, Places

(* The first transaction of a request: refused, given the session or the   *)
(* binding found, or on the way to create one.                             *)
LEMMA ArriveKeeps ==
  ASSUME BindingInv, NEW q \in Requests, NEW a \in Asks, Arrive(q, a)
  PROVE  BindingInv'
<1>0. /\ at[q] = "none" /\ uses[q] = None /\ sessions[q] = None
      /\ published' = published /\ sessions' = sessions /\ binding' = binding
      /\ ask' \in [Requests -> Asks \cup {None}] /\ ask'[q] = a
      /\ \A p \in Requests \ {q} : ask'[p] = ask[p]
      /\ a.of \in Requests => sessions[a.of] # None
      /\ BindingOK
  BY DEF Arrive, Tables, BindingInv, BindingOK, Pending
<1>goto. ASSUME NEW place \in {"refused", "inserting", "creating"}, Goto(q, place),
                place = "inserting" => a.entry = "compat" /\ a.of \in Names,
                place = "creating" => a.entry \in {"new", "external"}
         PROVE  BindingInv'
  <2>1. /\ at' \in [Requests -> Places] /\ at'[q] = place /\ uses' = uses
        /\ \A p \in Requests \ {q} : at'[p] = at[p]
    BY <1>goto, <1>0, GotoType DEF Places, Resolving
  <2>2. BindingOK'
    BY <1>0, <2>1 DEF BindingOK
  <2>3. Pending(q)'
    BY <1>goto, <1>0, <2>1 DEF Pending
  <2> QED BY <1>0, <2>1, <2>2, <2>3, OneMoves
<1>give. ASSUME NEW i \in Ids, Give(q, i), Visible(a, i), ModelFits(a, i),
                VersionFits(a, i), a.entry = "external" => binding[a.of] = i
         PROVE  BindingInv'
  <2>1. /\ at' \in [Requests -> Places] /\ at'[q] = "resolved"
        /\ uses' \in [Requests -> Ids \cup {None}] /\ uses'[q] = i
        /\ \A p \in Requests \ {q} : at'[p] = at[p] /\ uses'[p] = uses[p]
    BY <1>give, <1>0, GiveType
  <2>2. sessions[i] # None
    BY <1>give DEF Visible
  <2>3. BindingOK'
    BY <1>0, <2>1, <2>2 DEF BindingOK
  <2>4. Pending(q)'
    BY <1>0, <2>1 DEF Pending, Resolving
  <2>5. (Visible(ask[q], uses[q]) /\ ModelFits(ask[q], uses[q])
           /\ VersionFits(ask[q], uses[q]))'
    BY <1>give, <1>0, <2>1 DEF Visible, ModelFits, VersionFits
  <2> QED BY <1>give, <1>0, <2>1, <2>3, <2>4, <2>5, OneMoves
<1>1. CASE LookUp(q, a)
  <2>1. a.entry \in {"compat", "control"} /\ a.of \in Ids /\ a.version = None
    BY <1>1, AskFits DEF LookUp
  <2>2. CASE Visible(a, a.of) /\ ModelFits(a, a.of)
    <3>1. Give(q, a.of) /\ VersionFits(a, a.of)
      BY <1>1, <2>1, <2>2 DEF LookUp, VersionFits
    <3> QED BY <2>1, <2>2, <3>1, <1>give
  <2>3. CASE Goto(q, "refused")
    BY <2>3, <1>goto
  <2>4. CASE ~Visible(a, a.of) /\ a.entry = "compat" /\ Goto(q, "inserting")
    <3>1. a.of \in Names
      BY <2>1, <2>4, <1>0, AskFits DEF Visible, Ids
    <3> QED BY <2>4, <3>1, <1>goto
  <2> QED BY <1>1, <2>2, <2>3, <2>4 DEF LookUp
<1>2. CASE LookUpConversation(q, a)
  <2> DEFINE i == binding[a.of]
  <2>1. a.entry = "external" /\ a.of \in Conversations
    BY <1>2, AskFits DEF LookUpConversation
  <2>2. CASE i # None /\ Give(q, i) /\ sessions[i].owner = a.owner
             /\ ModelFits(a, i) /\ VersionFits(a, i)
    <3>1. i \in Ids /\ uses[i] = i
      BY <2>1, <2>2 DEF BindingInv, BindingOK, Bound, Ids
    <3>2. i \in Requests
      BY <2>1, <2>2 DEF BindingInv, BindingOK
    <3>3. sessions[i] # None
      BY <2>2, <3>1, <3>2 DEF BindingInv, BindingOK
    <3>4. Visible(a, i)
      BY <2>2, <3>3 DEF Visible
    <3> QED BY <2>2, <3>1, <3>4, <1>give
  <2>3. CASE Goto(q, "creating")
    BY <2>1, <2>3, <1>goto
  <2>4. CASE Goto(q, "refused")
    BY <2>4, <1>goto
  <2> QED BY <1>2, <2>2, <2>3, <2>4 DEF LookUpConversation
<1>3. CASE a.entry = "new" /\ Goto(q, "creating")
  BY <1>3, <1>goto
<1> QED BY <1>1, <1>2, <1>3 DEF Arrive

(* The second transaction of get_or_create_compat_session: the INSERT of a *)
(* session id that the caller made up, or its failure.                     *)
LEMMA InsertNamedKeeps ==
  ASSUME BindingInv, NEW q \in Requests, InsertNamed(q) PROVE BindingInv'
<1> DEFINE a == ask[q]
<1>0. /\ at[q] = "inserting" /\ uses[q] = None /\ a \in Asks
      /\ a.entry = "compat" /\ a.of \in Names /\ a.of \in Ids /\ a.version = None
      /\ published' = published /\ binding' = binding /\ ask' = ask
      /\ BindingOK
  BY AskFits DEF InsertNamed, BindingInv, Pending, Resolving, Ids
<1>1. /\ \A i \in Ids : sessions[i] # None => sessions'[i] = sessions[i]
      /\ \A p \in Requests : sessions'[p] = sessions[p]
  BY <1>0, NamesAssumption DEF InsertNamed, BindingOK, Ids
<1>2. CASE sessions' = sessions /\ Goto(q, "refused")
  <2>1. /\ at' \in [Requests -> Places] /\ at'[q] = "refused" /\ uses' = uses
        /\ \A p \in Requests \ {q} : at'[p] = at[p]
    BY <1>0, <1>2, GotoType DEF Places, Resolving
  <2>2. BindingOK'
    BY <1>0, <1>2, <2>1 DEF BindingOK
  <2>3. Pending(q)'
    BY <1>0, <2>1 DEF Pending, Resolving
  <2> QED BY <1>0, <1>1, <2>1, <2>2, <2>3, OneMoves
<1>3. CASE /\ Creatable(a) /\ sessions[a.of] = None /\ Give(q, a.of)
           /\ sessions' = [sessions EXCEPT ![a.of] = NewRow(a)]
  <2>1. /\ at' \in [Requests -> Places] /\ at'[q] = "resolved"
        /\ uses' \in [Requests -> Ids \cup {None}] /\ uses'[q] = a.of
        /\ \A p \in Requests \ {q} : at'[p] = at[p] /\ uses'[p] = uses[p]
    BY <1>0, <1>3, GiveType
  <2>2. /\ NewRow(a) \in SessionRow /\ NewRow(a) # None
        /\ NewRow(a).owner = a.owner /\ a.model \in {None, NewRow(a).model}
    BY <1>0, <1>3, NewRowFits DEF BindingOK
  <2>3. sessions' \in [Ids -> SessionRow \cup {None}] /\ sessions'[a.of] = NewRow(a)
    BY <1>0, <1>3, <2>2 DEF BindingOK
  <2>4. BindingOK'
    <3>1. ASSUME NEW p \in Requests, uses'[p] # None PROVE sessions'[uses'[p]] # None
      <4>1. CASE p = q
        BY <4>1, <2>1, <2>2, <2>3
      <4>2. CASE p # q
        BY <4>2, <3>1, <2>1, <1>0, <1>1 DEF BindingOK
      <4> QED BY <4>1, <4>2
    <3> QED BY <1>0, <2>1, <2>3, <3>1 DEF BindingOK
  <2>5. Pending(q)'
    BY <1>0, <2>1 DEF Pending, Resolving
  <2>6. (Visible(ask[q], uses[q]) /\ ModelFits(ask[q], uses[q])
           /\ VersionFits(ask[q], uses[q]))'
    BY <1>0, <2>1, <2>2, <2>3 DEF Visible, ModelFits, VersionFits
  <2> QED BY <1>0, <1>1, <2>1, <2>4, <2>5, <2>6, OneMoves
<1> QED BY <1>2, <1>3 DEF InsertNamed

(* create_session: its new row has an id that nobody has used.             *)
LEMMA CreateSessionKeeps ==
  ASSUME BindingInv, NEW q \in Requests, CreateSession(q) PROVE BindingInv'
<1> DEFINE a == ask[q]
<1>0. /\ at[q] = "creating" /\ uses[q] = None /\ a \in Asks /\ sessions[q] = None
      /\ a.entry \in {"new", "external"} /\ q \in Ids
      /\ published' = published /\ binding' = binding /\ ask' = ask
      /\ BindingOK
  BY DEF CreateSession, BindingInv, Pending, Resolving, Ids
<1>1. CASE sessions' = sessions /\ Goto(q, "refused")
  <2>1. /\ at' \in [Requests -> Places] /\ at'[q] = "refused" /\ uses' = uses
        /\ \A p \in Requests \ {q} : at'[p] = at[p]
    BY <1>0, <1>1, GotoType DEF Places, Resolving
  <2>2. BindingOK'
    BY <1>0, <1>1, <2>1 DEF BindingOK
  <2>3. Pending(q)'
    BY <1>0, <2>1 DEF Pending, Resolving
  <2> QED BY <1>0, <1>1, <2>1, <2>2, <2>3, OneMoves
<1>2. CASE /\ Creatable(a)
           /\ sessions' = [sessions EXCEPT ![q] = NewRow(a)]
           /\ IF a.entry = "new" THEN Give(q, q) ELSE Goto(q, "binding")
  <2>1. /\ NewRow(a) \in SessionRow /\ NewRow(a) # None
        /\ NewRow(a).owner = a.owner /\ a.model \in {None, NewRow(a).model}
        /\ a.version \in {None, NewRow(a).version}
    BY <1>0, <1>2, NewRowFits DEF BindingOK
  <2>2. /\ sessions' \in [Ids -> SessionRow \cup {None}] /\ sessions'[q] = NewRow(a)
        /\ \A i \in Ids \ {q} : sessions'[i] = sessions[i]
    BY <1>0, <1>2, <2>1 DEF BindingOK
  <2>3. Visible(a, q)' /\ ModelFits(a, q)' /\ VersionFits(a, q)'
    BY <1>0, <2>1, <2>2 DEF Visible, ModelFits, VersionFits
  <2>4. CASE a.entry = "new" /\ Give(q, q)
    <3>1. /\ at' \in [Requests -> Places] /\ at'[q] = "resolved"
          /\ uses' \in [Requests -> Ids \cup {None}] /\ uses'[q] = q
          /\ \A p \in Requests \ {q} : at'[p] = at[p] /\ uses'[p] = uses[p]
      BY <1>0, <2>4, GiveType
    <3>2. BindingOK'
      <4>1. ASSUME NEW p \in Requests, uses'[p] # None
            PROVE  sessions'[uses'[p]] # None
        <5>1. CASE p = q
          BY <5>1, <3>1, <2>1, <2>2
        <5>2. CASE p # q
          BY <5>2, <4>1, <3>1, <1>0, <2>1, <2>2 DEF BindingOK
        <5> QED BY <5>1, <5>2
      <4> QED BY <1>0, <2>2, <3>1, <4>1 DEF BindingOK
    <3>3. Pending(q)'
      BY <1>0, <3>1 DEF Pending, Resolving
    <3>4. (Visible(ask[q], uses[q]) /\ ModelFits(ask[q], uses[q])
             /\ VersionFits(ask[q], uses[q]))'
      BY <1>0, <2>3, <3>1 DEF Visible, ModelFits, VersionFits
    <3> QED BY <1>0, <2>2, <2>4, <3>1, <3>2, <3>3, <3>4, OneMoves DEF Ids
  <2>5. CASE a.entry = "external" /\ Goto(q, "binding")
    <3>1. /\ at' \in [Requests -> Places] /\ at'[q] = "binding" /\ uses' = uses
          /\ \A p \in Requests \ {q} : at'[p] = at[p]
      BY <1>0, <2>5, GotoType DEF Places, Resolving
    <3>2. BindingOK'
      BY <1>0, <2>1, <2>2, <3>1 DEF BindingOK
    <3>3. Pending(q)'
      BY <1>0, <2>3, <2>5, <3>1 DEF Pending, Resolving, Visible, ModelFits, VersionFits
    <3> QED BY <1>0, <2>2, <3>1, <3>2, <3>3, OneMoves DEF Ids
  <2> QED BY <1>0, <1>2, <2>4, <2>5
<1> QED BY <1>1, <1>2 DEF CreateSession

(* The last transaction of bind_external_conversation: the binding is      *)
(* inserted, or the one that another request inserted since is used.       *)
LEMMA BindKeeps ==
  ASSUME BindingInv, NEW q \in Requests, Bind(q) PROVE BindingInv'
<1> DEFINE a == ask[q]
           i == binding[a.of]
<1>0. /\ at[q] = "binding" /\ uses[q] = None /\ a \in Asks
      /\ a.entry = "external" /\ a.of \in Conversations /\ q \in Ids
      /\ Visible(a, q) /\ ModelFits(a, q) /\ VersionFits(a, q)
      /\ sessions[q] # None
      /\ published' = published /\ sessions' = sessions /\ ask' = ask
      /\ BindingOK
  BY AskFits DEF Bind, BindingInv, Pending, Resolving, Ids, Visible
<1>1. CASE binding' = binding /\ Goto(q, "refused")
  <2>1. /\ at' \in [Requests -> Places] /\ at'[q] = "refused" /\ uses' = uses
        /\ \A p \in Requests \ {q} : at'[p] = at[p]
    BY <1>0, <1>1, GotoType DEF Places, Resolving
  <2>2. BindingOK'
    BY <1>0, <1>1, <2>1 DEF BindingOK
  <2>3. Pending(q)'
    BY <1>0, <2>1 DEF Pending, Resolving
  <2> QED BY <1>0, <1>1, <2>1, <2>2, <2>3, OneMoves
<1>give. ASSUME NEW j \in Ids, Give(q, j), sessions[j] # None,
                binding' \in [Conversations -> Requests \cup {None}],
                binding'[a.of] = j,
                \A c \in Conversations :
                  \/ binding'[c] = binding[c]
                  \/ binding[c] = None /\ binding'[c] = q /\ j = q,
                Visible(a, j)
         PROVE  BindingInv'
  <2>1. /\ at' \in [Requests -> Places] /\ at'[q] = "resolved"
        /\ uses' \in [Requests -> Ids \cup {None}] /\ uses'[q] = j
        /\ \A p \in Requests \ {q} : at'[p] = at[p] /\ uses'[p] = uses[p]
    BY <1>0, <1>give, GiveType
  <2>2. BindingOK'
    BY <1>0, <1>give, <2>1 DEF BindingOK
  <2>3. Pending(q)'
    BY <1>0, <2>1 DEF Pending, Resolving
  <2>4. Visible(ask[q], uses[q])'
    BY <1>0, <1>give, <2>1 DEF Visible
  <2>5. \/ (ModelFits(ask[q], uses[q]) /\ VersionFits(ask[q], uses[q]))'
        \/ sessions'[q] # None /\ uses'[q] # q
    BY <1>0, <2>1 DEF ModelFits, VersionFits
  <2> QED BY <1>0, <1>give, <2>1, <2>2, <2>3, <2>4, <2>5, OneMoves
<1>2. CASE i = None /\ binding' = [binding EXCEPT ![a.of] = q] /\ Give(q, q)
  <2>1. /\ binding' \in [Conversations -> Requests \cup {None}]
        /\ binding'[a.of] = q
        /\ \A c \in Conversations : c # a.of => binding'[c] = binding[c]
    BY <1>0, <1>2 DEF BindingOK
  <2> QED BY <1>0, <1>2, <2>1, <1>give
<1>3. CASE i # None /\ binding' = binding /\ Give(q, i) /\ sessions[i].owner = a.owner
  <2>1. i \in Requests /\ uses[i] = i
    BY <1>0, <1>3 DEF BindingInv, BindingOK, Bound
  <2>2. i \in Ids /\ sessions[i] # None
    BY <1>0, <1>3, <2>1 DEF BindingOK, Ids
  <2> QED BY <1>0, <1>3, <2>2, <1>give DEF BindingOK, Visible
<1> QED BY <1>1, <1>2, <1>3 DEF Bind

(* What a conversation's requests rely on, through every step of the       *)
(* handlers, the turns and the faults.                                     *)
THEOREM BindingInvariance == CSpec => []BindingInv
<1>1. CInit => BindingInv
  BY InitBindingInv DEF CInit
<1>2. BindingInv /\ [CNext]_cvars => BindingInv'
  <2> SUFFICES ASSUME BindingInv, [CNext]_cvars PROVE BindingInv'
    OBVIOUS
  <2>at. at \in [Requests -> Places]
    BY DEF BindingInv, BindingOK
  <2>1. ASSUME NEW v \in Versions, Publish(v) PROVE BindingInv'
    BY <2>1, PublishKeeps
  <2>2. ASSUME NEW q \in Requests, Resolve(q) PROVE BindingInv'
    BY <2>2, ArriveKeeps, InsertNamedKeeps, CreateSessionKeeps, BindKeeps DEF Resolve
  <2>3. ASSUME NEW q \in Requests, NEW place \in {"importing", "open", "submitted"},
               at[q] # "none", Goto(q, place), UNCHANGED <<Tables, ask>>
        PROVE  BindingInv'
    <3>1. /\ at' \in [Requests -> Places] /\ at'[q] = place /\ uses' = uses
          /\ \A p \in Requests \ {q} : at'[p] = at[p]
      BY <2>3, GotoType DEF Places, BindingInv
    <3> QED BY <2>3, <3>1, OthersKeep DEF Resolving
  <2>4. ASSUME NEW q \in Requests, LookForFile(q) \/ Import(q) \/ Submit(q)
        PROVE  BindingInv'
    BY <2>4, <2>3 DEF LookForFile, Import, Submit
  <2>5. CASE Crash
    <3>1. /\ at' \in [Requests -> Places]
          /\ \A q \in Requests : \/ at'[q] = at[q]
                                 \/ at[q] # "none" /\ at'[q] = "refused"
      BY <2>5, <2>at DEF Crash, Places, Resolving
    <3> QED BY <2>5, <3>1, OthersKeep DEF Crash, Resolving
  <2>6. CASE UNCHANGED resolving
    BY <2>6, <2>at, OthersKeep DEF resolving, Tables
  <2>7. CASE \E q \in Requests : TakeLease(q) \/ LoseLease(q)
    BY <2>7, <2>6 DEF TakeLease, LoseLease
  <2>8. CASE \E t \in tasks : Advance(t)
    BY <2>8, <2>6 DEF Advance, EnterTurn, Answer, WriteFile, FailTurn, Finish
  <2>9. CASE UNCHANGED cvars
    BY <2>9, <2>6 DEF cvars, resolving
  <2> QED BY <2>1, <2>2, <2>4, <2>5, <2>7, <2>8, <2>9 DEF CNext
<1> QED BY <1>1, <1>2, PTL DEF CSpec

(* However first requests of a conversation overlap, in whatever handlers  *)
(* and through crashes, all of them are given one session.                 *)
THEOREM ConversationsResolved == CSpec => []OneSessionPerConversation
<1>1. BindingInv => OneSessionPerConversation
  BY DEF BindingInv, Bound, OneSessionPerConversation
<1> QED BY <1>1, BindingInvariance, PTL

(* Nobody but the admin is ever given another principal's session, nor one *)
(* of another model or version, but for the losers of a race to bind.      *)
THEOREM SessionsAsAsked == CSpec => []ResolvedAsAsked
<1>1. BindingInv => ResolvedAsAsked
  BY DEF BindingInv
<1> QED BY <1>1, BindingInvariance, PTL

-----------------------------------------------------------------------------
(* Turns                                                                   *)

Statuses == {"none", "queued", "leased", "canceled"} \cup Ends
TurnPlaces == {"waiting", "turn", "writing"} \cup Ends

\* A task is a record; of its draft nothing need be known here.
TaskShape(t) ==
  /\ t = [run |-> t.run, lease |-> t.lease, told |-> t.told, draft |-> t.draft,
          pc |-> t.pc]
  /\ t.run \in Requests /\ t.pc \in TurnPlaces

Copies(q) == {j \in DOMAIN written[uses[q]] : written[uses[q]][j] = q}

\* The tasks that may still write the turn of q.
Unwritten == {"waiting", "turn", "writing"}
Writers(q) == {t \in tasks : t.run = q /\ t.pc \in Unwritten}

\* A queued run will have another one.
Due(q) == IF run[q].status = "queued" THEN 1 ELSE 0

\* A run begins when its request has its session; a turn that is remembered
\* again costs a fault.
TurnOK(q) ==
  /\ at[q] \in {"resolved", "importing", "open", "submitted"} => uses[q] # None
  /\ at[q] # "submitted" => run[q].status = "none"
  /\ run[q].status = "none" =>
       /\ \A t \in tasks : t.run # q
       /\ \A i \in Ids : \A j \in DOMAIN written[i] : written[i][j] # q
  /\ uses[q] # None /\ run[q].status = "answered" => Copies(q) # {}
  /\ uses[q] # None => \A t \in tasks : t.run = q /\ t.pc = "answered" => Copies(q) # {}
  /\ uses[q] # None =>
       Cardinality(Copies(q)) + Cardinality(Writers(q)) + Due(q) <= 1 + faults

MemoryInv == /\ BindingInv
             /\ run \in [Requests -> [lease : Nat, status : Statuses]]
             /\ written \in [Ids -> Seq(Requests)]
             /\ faults \in Nat
             /\ IsFiniteSet(tasks) /\ \A t \in tasks : TaskShape(t)
             /\ \A q \in Requests : TurnOK(q)

(* The sets that are counted are finite.                                   *)
LEMMA CountsAreNat ==
  ASSUME MemoryInv, NEW q \in Requests, uses[q] # None
  PROVE  /\ uses[q] \in Ids
         /\ IsFiniteSet(Copies(q)) /\ Cardinality(Copies(q)) \in Nat
         /\ IsFiniteSet(Writers(q)) /\ Cardinality(Writers(q)) \in Nat
         /\ Due(q) \in {0, 1}
<1>1. uses[q] \in Ids
  BY DEF MemoryInv, BindingInv, BindingOK
<1>2. written[uses[q]] \in Seq(Requests)
  BY <1>1 DEF MemoryInv
<1>3. IsFiniteSet(1..Len(written[uses[q]]))
  BY <1>2, FS_Interval
<1>4. Copies(q) \subseteq 1..Len(written[uses[q]])
  BY <1>2 DEF Copies
<1>5. IsFiniteSet(Copies(q))
  BY <1>3, <1>4, FS_Subset
<1>6. IsFiniteSet(Writers(q))
  BY FS_Subset DEF MemoryInv, Writers
<1> QED BY <1>1, <1>5, <1>6, FS_CardinalityType DEF Due

(* A task that exists is that of a run that was queued, in a session.      *)
LEMMA TaskOfRun ==
  ASSUME MemoryInv, NEW t \in tasks
  PROVE  /\ t.run \in Requests /\ run[t.run].status # "none" /\ TaskShape(t)
         /\ uses[t.run] # None /\ uses[t.run] \in Ids /\ TurnOK(t.run)
<1>1. t.run \in Requests /\ TaskShape(t)
  BY DEF MemoryInv, TaskShape
<1>2. TurnOK(t.run)
  BY <1>1 DEF MemoryInv
<1>3. run[t.run].status # "none" /\ uses[t.run] # None
  BY <1>2 DEF TurnOK
<1> QED BY <1>1, <1>2, <1>3 DEF MemoryInv, BindingInv, BindingOK

(* A task that moves on does not add to those that may write, and is one   *)
(* less when it no longer may.                                             *)
LEMMA WritersMove ==
  ASSUME MemoryInv, NEW t \in tasks, NEW u, TaskShape(u), u.run = t.run, Become(t, u),
         t.pc \in Unwritten \/ u.pc \notin Unwritten
  PROVE  /\ IsFiniteSet(tasks') /\ \A s \in tasks' : TaskShape(s)
         /\ \A p \in Requests :
              /\ Cardinality(Writers(p)') \in Nat
              /\ Cardinality(Writers(p)') <= Cardinality(Writers(p))
              /\ p = t.run /\ t.pc \in Unwritten /\ u.pc \notin Unwritten =>
                   Cardinality(Writers(p)') + 1 <= Cardinality(Writers(p))
         /\ \A s \in tasks' : s = u \/ s \in tasks
<1>1. tasks' = (tasks \ {t}) \cup {u} /\ IsFiniteSet(tasks)
  BY DEF Become, MemoryInv
<1>2. IsFiniteSet(tasks')
  <2>1. IsFiniteSet(tasks \ {t})
    BY <1>1, FS_RemoveElement
  <2> QED BY <1>1, <2>1, FS_AddElement
<1>3. ASSUME NEW p \in Requests
      PROVE  /\ Cardinality(Writers(p)') \in Nat
             /\ Cardinality(Writers(p)') <= Cardinality(Writers(p))
             /\ p = t.run /\ t.pc \in Unwritten /\ u.pc \notin Unwritten =>
                  Cardinality(Writers(p)') + 1 <= Cardinality(Writers(p))
  <2> DEFINE W == Writers(p)
             V == W \ {t}
  <2>1. IsFiniteSet(W) /\ Cardinality(W) \in Nat
    BY <1>1, FS_Subset, FS_CardinalityType DEF Writers
  <2>2. /\ IsFiniteSet(V) /\ Cardinality(V) \in Nat
        /\ Cardinality(V) = IF t \in W THEN Cardinality(W) - 1 ELSE Cardinality(W)
    BY <2>1, FS_RemoveElement, FS_CardinalityType
  <2>3. CASE p = t.run /\ t.pc \in Unwritten
    <3>1. t \in W
      BY <2>3 DEF Writers
    <3>2. CASE u.pc \in Unwritten
      <4>1. Writers(p)' = V \cup {u}
        BY <1>1, <2>3, <3>2 DEF Writers
      <4>2. /\ IsFiniteSet(V \cup {u})
            /\ Cardinality(V \cup {u}) <= Cardinality(V) + 1
        BY <2>2, FS_AddElement
      <4>3. Cardinality(V \cup {u}) \in Nat
        BY <4>2, FS_CardinalityType
      <4> HIDE DEF W, V
      <4> QED BY <2>1, <2>2, <3>1, <3>2, <4>1, <4>2, <4>3 DEF W
    <3>3. CASE u.pc \notin Unwritten
      <4>1. Writers(p)' = V
        BY <1>1, <2>3, <3>3 DEF Writers
      <4> HIDE DEF W, V
      <4> QED BY <2>1, <2>2, <3>1, <3>3, <4>1 DEF W
    <3> QED BY <3>2, <3>3
  <2>4. CASE p = t.run /\ t.pc \notin Unwritten
    <3>1. Writers(p)' = W
      BY <1>1, <2>4 DEF Writers
    <3> QED BY <2>1, <2>4, <3>1
  <2>5. CASE p # t.run
    <3>1. Writers(p)' = W
      BY <1>1, <2>5 DEF Writers
    <3> QED BY <2>1, <2>5, <3>1
  <2> QED BY <2>3, <2>4, <2>5
<1>4. \A s \in tasks' : TaskShape(s) /\ (s = u \/ s \in tasks)
  BY <1>1 DEF MemoryInv
<1> QED BY <1>2, <1>3, <1>4

(* A run whose row, session and copies stay, and that has no more writers. *)
LEMMA TurnKept ==
  ASSUME MemoryInv, NEW p \in Requests,
         UNCHANGED <<uses[p], run[p], at[p]>>,
         \A i \in Ids : \A j \in DOMAIN written'[i] : written'[i][j] = p =>
           \E k \in DOMAIN written[i] : written[i][k] = p,
         uses[p] # None => Copies(p)' = Copies(p),
         faults' \in Nat, faults' >= faults,
         \A s \in tasks' : s.run = p =>
           /\ \E t \in tasks : t.run = p
           /\ s.pc = "answered" => \E t \in tasks : t.run = p /\ t.pc = "answered",
         uses[p] # None => /\ Cardinality(Writers(p)') \in Nat
                           /\ Cardinality(Writers(p)') <= Cardinality(Writers(p))
  PROVE  TurnOK(p)'
<1>1. TurnOK(p)
  BY DEF MemoryInv
<1>2. faults \in Nat
  BY DEF MemoryInv
<1>3. Due(p)' = Due(p)
  BY DEF Due
<1>4. uses[p] # None =>
        /\ Cardinality(Copies(p)) \in Nat /\ Cardinality(Writers(p)) \in Nat
        /\ Due(p) \in {0, 1}
  BY CountsAreNat
<1>5. uses'[p] # None =>
        Cardinality(Copies(p)') + Cardinality(Writers(p)') + Due(p)' <= 1 + faults'
  BY <1>1, <1>2, <1>3, <1>4 DEF TurnOK
<1>6. run'[p].status = "none" =>
        /\ \A t \in tasks' : t.run # p
        /\ \A i \in Ids : \A j \in DOMAIN written'[i] : written'[i][j] # p
  BY <1>1 DEF TurnOK
<1>7. /\ uses'[p] # None /\ run'[p].status = "answered" => Copies(p)' # {}
      /\ uses'[p] # None => \A t \in tasks' : t.run = p /\ t.pc = "answered" => Copies(p)' # {}
  BY <1>1 DEF TurnOK
<1> QED BY <1>1, <1>5, <1>6, <1>7 DEF TurnOK

(* A request that has no session yet, or has just been given it.           *)
LEMMA ResolveMoves ==
  ASSUME BindingInv, NEW q \in Requests, Resolve(q)
  PROVE  /\ at[q] # "submitted" /\ at'[q] \in Resolving \cup {"refused", "resolved"}
         /\ at'[q] = "resolved" => uses'[q] # None
         /\ \A p \in Requests \ {q} : at'[p] = at[p] /\ uses'[p] = uses[p]
<1>0. /\ BindingOK /\ None \notin Ids /\ Requests \subseteq Ids
      /\ at \in [Requests -> Places] /\ uses \in [Requests -> Ids \cup {None}]
  BY NamesAssumption DEF BindingInv, BindingOK, Ids
<1>goto. ASSUME NEW place \in Resolving \cup {"refused"}, Goto(q, place)
         PROVE  /\ at'[q] \in Resolving \cup {"refused"}
                /\ \A p \in Requests \ {q} : at'[p] = at[p] /\ uses'[p] = uses[p]
  BY <1>goto, <1>0 DEF Goto
<1>give. ASSUME NEW i \in Ids, Give(q, i)
         PROVE  /\ at'[q] = "resolved" /\ uses'[q] # None
                /\ \A p \in Requests \ {q} : at'[p] = at[p] /\ uses'[p] = uses[p]
  BY <1>give, <1>0 DEF Give
<1>places. "resolved" \notin Resolving \cup {"refused"}
           /\ {"inserting", "creating", "binding", "refused"} \subseteq Resolving \cup {"refused"}
  BY DEF Resolving
<1>1. ASSUME NEW a \in Asks, Arrive(q, a)
      PROVE  \/ \E place \in Resolving \cup {"refused"} : Goto(q, place)
             \/ \E i \in Ids : Give(q, i)
  <2>1. CASE LookUp(q, a)
    BY <2>1, <1>places, AskFits, Zenon DEF LookUp
  <2>2. CASE LookUpConversation(q, a)
    <3>1. a.of \in Conversations
      BY <2>2, AskFits DEF LookUpConversation
    <3>2. binding[a.of] # None => binding[a.of] \in Ids
      BY <3>1, <1>0 DEF BindingOK
    <3> QED BY <2>2, <3>2, <1>places DEF LookUpConversation
  <2>3. CASE Goto(q, "creating")
    BY <2>3, <1>places
  <2> QED BY <1>1, <2>1, <2>2, <2>3 DEF Arrive
<1>2. ASSUME InsertNamed(q)
      PROVE  \/ \E place \in Resolving \cup {"refused"} : Goto(q, place)
             \/ \E i \in Ids : Give(q, i)
  <2>1. ask[q].of \in Ids
    BY <1>2 DEF InsertNamed, BindingInv, Pending, Resolving, Ids
  <2> QED BY <1>2, <2>1, <1>places DEF InsertNamed
<1>3. ASSUME CreateSession(q)
      PROVE  \/ \E place \in Resolving \cup {"refused"} : Goto(q, place)
             \/ \E i \in Ids : Give(q, i)
  BY <1>3, <1>0, <1>places DEF CreateSession
<1>4. ASSUME Bind(q)
      PROVE  \/ \E place \in Resolving \cup {"refused"} : Goto(q, place)
             \/ \E i \in Ids : Give(q, i)
  <2>1. ask[q].of \in Conversations
    BY <1>4, AskFits DEF Bind, BindingInv, Pending
  <2>2. binding[ask[q].of] # None => binding[ask[q].of] \in Ids
    BY <2>1, <1>0 DEF BindingOK
  <2> QED BY <1>4, <1>0, <2>2, <1>places DEF Bind
<1>5. at[q] # "submitted"
  BY DEF Resolve, Arrive, InsertNamed, CreateSession, Bind
<1>6. \/ \E place \in Resolving \cup {"refused"} : Goto(q, place)
      \/ \E i \in Ids : Give(q, i)
  BY <1>1, <1>2, <1>3, <1>4 DEF Resolve
<1> QED BY <1>5, <1>6, <1>goto, <1>give, <1>places

(* The steps before a run is queued, and the INSERT that queues it.        *)
LEMMA HandlerTurns ==
  ASSUME MemoryInv, BindingInv', NEW q \in Requests,
         \/ Resolve(q) /\ UNCHANGED memory
         \/ LookForFile(q) \/ Import(q) \/ Submit(q)
  PROVE  MemoryInv'
<1>0. /\ BindingInv /\ BindingOK' /\ TurnOK(q) /\ faults \in Nat /\ None \notin Ids
      /\ run \in [Requests -> [lease : Nat, status : Statuses]]
      /\ at \in [Requests -> Places] /\ tasks' = tasks /\ written' = written
      /\ faults' = faults /\ uses' \in [Requests -> Ids \cup {None}]
  BY NamesAssumption DEF MemoryInv, BindingInv, BindingOK, LookForFile, Import, Submit, memory
<1>others. ASSUME NEW p \in Requests, UNCHANGED <<uses[p], run[p], at[p]>>
           PROVE  TurnOK(p)'
  <2>1. Writers(p)' = Writers(p) /\ Copies(p)' = Copies(p)
    BY <1>others, <1>0 DEF Writers, Copies
  <2>2. uses[p] # None => /\ Cardinality(Writers(p)') \in Nat
                          /\ Cardinality(Writers(p)') <= Cardinality(Writers(p))
    BY <2>1, CountsAreNat
  <2>3. \A i \in Ids : \A j \in DOMAIN written'[i] : written'[i][j] = p =>
          \E k \in DOMAIN written[i] : written[i][k] = p
    BY <1>0
  <2>4. \A s \in tasks' : s.run = p =>
          /\ \E t \in tasks : t.run = p
          /\ s.pc = "answered" => \E t \in tasks : t.run = p /\ t.pc = "answered"
    BY <1>0
  <2>5. faults' \in Nat /\ faults' >= faults
    BY <1>0
  <2> QED BY <1>others, <2>1, <2>2, <2>3, <2>4, <2>5, TurnKept
<1>1. ASSUME run' \in [Requests -> [lease : Nat, status : Statuses]],
             \A p \in Requests \ {q} : UNCHANGED <<uses[p], run[p], at[p]>>, TurnOK(q)'
      PROVE  MemoryInv'
  <2>1. \A p \in Requests : TurnOK(p)'
    BY <1>1, <1>others
  <2> QED BY <1>0, <1>1, <2>1 DEF MemoryInv, TaskShape
<1>2. ASSUME run[q].status = "none", run'[q].status \in {"none", "queued"},
             run'[q].status # "none" => at'[q] = "submitted",
             at'[q] \in {"resolved", "importing", "open", "submitted"} => uses'[q] # None
      PROVE  TurnOK(q)'
  <2>1. /\ \A t \in tasks : t.run # q
        /\ \A i \in Ids : \A j \in DOMAIN written[i] : written[i][j] # q
    BY <1>2, <1>0 DEF TurnOK
  <2>2. uses'[q] # None => Copies(q)' = {} /\ Writers(q)' = {}
    BY <2>1, <1>0 DEF Copies, Writers
  <2>3. uses'[q] # None =>
          Cardinality(Copies(q)') + Cardinality(Writers(q)') + Due(q)' <= 1 + faults'
    <3> SUFFICES ASSUME uses'[q] # None
                 PROVE  Cardinality(Copies(q)') + Cardinality(Writers(q)') + Due(q)' <= 1 + faults'
      OBVIOUS
    <3>1. Cardinality(Copies(q)') = 0 /\ Cardinality(Writers(q)') = 0
      BY <2>2, FS_EmptySet
    <3>2. Due(q)' \in {0, 1}
      BY DEF Due
    <3> QED BY <3>1, <3>2, <1>0
  <2> QED BY <1>0, <1>2, <2>1, <2>3 DEF TurnOK
<1>3. CASE Resolve(q) /\ UNCHANGED memory
  <2>1. run' = run /\ run[q].status = "none"
    BY <1>3, <1>0, ResolveMoves DEF memory, TurnOK
  <2>2. at'[q] \in {"resolved", "importing", "open", "submitted"} => uses'[q] # None
    BY <1>3, <1>0, ResolveMoves DEF Resolving
  <2> QED BY <1>0, <1>1, <1>2, <1>3, <2>1, <2>2, ResolveMoves
<1>4. CASE LookForFile(q) \/ Import(q) \/ Submit(q)
  <2>1. /\ at[q] \in {"resolved", "importing", "open"} /\ uses' = uses
        /\ at'[q] \in {"importing", "open", "submitted"}
        /\ \A p \in Requests \ {q} : at'[p] = at[p] /\ run'[p] = run[p]
        /\ run' = run \/ (Submit(q) /\ at'[q] = "submitted")
    <3>1. CASE LookForFile(q)
      <4>1. PICK place \in {"importing", "open"} : Goto(q, place)
        BY <3>1, Zenon DEF LookForFile
      <4> QED BY <3>1, <4>1, <1>0 DEF LookForFile, Goto, memory
    <3>2. CASE Import(q)
      BY <3>2, <1>0 DEF Import, Goto
    <3>3. CASE Submit(q)
      BY <3>3, <1>0 DEF Submit, Goto
    <3> QED BY <1>4, <3>1, <3>2, <3>3
  <2>2. uses[q] # None /\ run[q].status = "none"
    BY <2>1, <1>0 DEF TurnOK
  <2>3. /\ run' \in [Requests -> [lease : Nat, status : Statuses]]
        /\ run'[q].status \in {"none", "queued"}
        /\ run'[q].status # "none" => at'[q] = "submitted"
    <3>1. CASE run' = run
      BY <3>1, <1>0, <2>2
    <3>2. CASE Submit(q) /\ at'[q] = "submitted"
      <4>1. [run[q] EXCEPT !.status = "queued"] \in [lease : Nat, status : Statuses]
        BY <1>0 DEF Statuses, Ends
      <4>2. run' = [run EXCEPT ![q] = [run[q] EXCEPT !.status = "queued"]]
        BY <3>2 DEF Submit
      <4> QED BY <1>0, <3>2, <4>1, <4>2
    <3> QED BY <2>1, <3>1, <3>2
  <2> QED BY <2>1, <2>2, <2>3, <1>1, <1>2
<1> QED BY <1>3, <1>4

(* A step of one task, which does not write the file.                      *)
LEMMA TaskTurns ==
  ASSUME MemoryInv, NEW t \in tasks, NEW u, TaskShape(u), u.run = t.run, Become(t, u),
         t.pc \in Unwritten \/ u.pc \notin Unwritten,
         t.pc = "answered" \/ u.pc # "answered",
         UNCHANGED <<resolving, run, written>>, faults' \in Nat, faults' >= faults
  PROVE  MemoryInv'
<1>0. UNCHANGED <<published, sessions, binding, ask, at, uses>>
  BY DEF resolving
<1>1. BindingInv'
  BY <1>0 DEF MemoryInv, BindingInv, BindingOK, Pending, Bound, ResolvedAsAsked, Published,
     Visible, ModelFits, VersionFits
<1>2. /\ IsFiniteSet(tasks') /\ \A s \in tasks' : TaskShape(s)
      /\ \A p \in Requests : /\ Cardinality(Writers(p)') \in Nat
                             /\ Cardinality(Writers(p)') <= Cardinality(Writers(p))
      /\ \A s \in tasks' : s = u \/ s \in tasks
  BY WritersMove
<1>3. ASSUME NEW p \in Requests PROVE TurnOK(p)'
  <2>1. Copies(p)' = Copies(p)
    BY <1>0 DEF Copies
  <2>2. \A s \in tasks' : s.run = p =>
          /\ \E r \in tasks : r.run = p
          /\ s.pc = "answered" => \E r \in tasks : r.run = p /\ r.pc = "answered"
    BY <1>2
  <2> QED BY <1>0, <1>2, <2>1, <2>2, TurnKept
<1> QED BY <1>1, <1>2, <1>3 DEF MemoryInv

(* os.replace: the task's turn is in the file once more, and the task will *)
(* not write again.                                                        *)
LEMMA WriteTurns ==
  ASSUME MemoryInv, NEW t \in tasks, t.pc = "writing",
         Become(t, [t EXCEPT !.pc = "answered"]),
         written' = [written EXCEPT ![uses[t.run]] = Append(@, t.run)],
         UNCHANGED <<resolving, run, faults>>
  PROVE  MemoryInv'
<1> DEFINE u == [t EXCEPT !.pc = "answered"]
           i == uses[t.run]
<1>0. UNCHANGED <<published, sessions, binding, ask, at, uses>>
  BY DEF resolving
<1>1. BindingInv'
  BY <1>0 DEF MemoryInv, BindingInv, BindingOK, Pending, Bound, ResolvedAsAsked, Published,
     Visible, ModelFits, VersionFits
<1>task. /\ t.run \in Requests /\ TaskShape(t) /\ i # None /\ i \in Ids
         /\ run[t.run].status # "none" /\ TurnOK(t.run)
  BY TaskOfRun
<1>u. TaskShape(u) /\ u.run = t.run /\ u.pc = "answered"
  BY <1>task DEF TaskShape, TurnPlaces, Ends
<1>w. t.pc \in Unwritten /\ u.pc \notin Unwritten
  BY <1>u DEF Unwritten
<1> HIDE DEF u
<1>2. /\ IsFiniteSet(tasks') /\ \A s \in tasks' : TaskShape(s)
      /\ \A p \in Requests :
           /\ Cardinality(Writers(p)') \in Nat
           /\ Cardinality(Writers(p)') <= Cardinality(Writers(p))
           /\ p = t.run => Cardinality(Writers(p)') + 1 <= Cardinality(Writers(p))
      /\ \A s \in tasks' : s = u \/ s \in tasks
  BY <1>u, <1>w, WritersMove DEF u
<1> HIDE DEF i
<1>file. /\ written \in [Ids -> Seq(Requests)] /\ written[i] \in Seq(Requests)
         /\ written' = [written EXCEPT ![i] = Append(written[i], t.run)]
  BY <1>task DEF MemoryInv, i
<1>n. /\ Len(written[i]) + 1 \in Nat
      /\ written'[i] = Append(written[i], t.run)
      /\ DOMAIN written[i] = 1..Len(written[i])
      /\ DOMAIN written'[i] = 1..(Len(written[i]) + 1)
      /\ \A j \in DOMAIN written[i] : written'[i][j] = written[i][j]
      /\ written'[i][Len(written[i]) + 1] = t.run
      /\ \A k \in Ids \ {i} : written'[k] = written[k]
      /\ written' \in [Ids -> Seq(Requests)]
  BY <1>file, <1>task
<1>3. ASSUME NEW p \in Requests, p # t.run PROVE TurnOK(p)'
  <2>1. uses[p] # None => Copies(p)' = Copies(p)
    <3> SUFFICES ASSUME uses[p] # None PROVE Copies(p)' = Copies(p)
      OBVIOUS
    <3>1. uses[p] \in Ids /\ uses'[p] = uses[p]
      BY <1>0, CountsAreNat
    <3>2. CASE uses[p] # i
      BY <3>1, <3>2, <1>n DEF Copies
    <3>3. CASE uses[p] = i
      BY <3>1, <3>3, <1>3, <1>n DEF Copies
    <3> QED BY <3>2, <3>3
  <2>2. \A k \in Ids : \A j \in DOMAIN written'[k] : written'[k][j] = p =>
          \E l \in DOMAIN written[k] : written[k][l] = p
    <3> SUFFICES ASSUME NEW k \in Ids, NEW j \in DOMAIN written'[k], written'[k][j] = p
                 PROVE  \E l \in DOMAIN written[k] : written[k][l] = p
      OBVIOUS
    <3>1. CASE k # i
      BY <3>1, <1>n
    <3>2. CASE k = i
      <4>1. j \in DOMAIN written[i]
        BY <3>2, <1>3, <1>n
      <4> QED BY <3>2, <4>1, <1>n
    <3> QED BY <3>1, <3>2
  <2>3. \A s \in tasks' : s.run = p =>
          /\ \E r \in tasks : r.run = p
          /\ s.pc = "answered" => \E r \in tasks : r.run = p /\ r.pc = "answered"
    BY <1>2, <1>u, <1>3
  <2>4. faults' \in Nat /\ faults' >= faults
    BY DEF MemoryInv
  <2>5. UNCHANGED <<uses[p], run[p], at[p]>>
    BY <1>0
  <2>6. Cardinality(Writers(p)') \in Nat /\ Cardinality(Writers(p)') <= Cardinality(Writers(p))
    BY <1>2
  <2> QED BY <2>1, <2>2, <2>3, <2>4, <2>5, <2>6, TurnKept
<1>4. TurnOK(t.run)'
  <2> DEFINE q == t.run
             n == Len(written[i]) + 1
  <2>1. Copies(q)' = Copies(q) \cup {n} /\ n \notin Copies(q)
    BY <1>0, <1>n, <1>task DEF Copies, i
  <2>2. Cardinality(Copies(q)') = Cardinality(Copies(q)) + 1
    <3>1. IsFiniteSet(Copies(q))
      BY <1>task, CountsAreNat DEF i
    <3> HIDE DEF n
    <3> QED BY <2>1, <3>1, FS_AddElement
  <2>3. /\ Cardinality(Copies(q)) \in Nat /\ Cardinality(Writers(q)) \in Nat
        /\ Due(q) \in {0, 1} /\ faults \in Nat /\ Due(q)' = Due(q)
    BY <1>task, CountsAreNat DEF i, MemoryInv, Due
  <2>4. Cardinality(Copies(q)) + Cardinality(Writers(q)) + Due(q) <= 1 + faults
    BY <1>task DEF TurnOK, i
  <2>5. Cardinality(Writers(q)') + 1 <= Cardinality(Writers(q))
        /\ Cardinality(Writers(q)') \in Nat
    BY <1>2, <1>task
  <2>6. Cardinality(Copies(q)') + Cardinality(Writers(q)') + Due(q)' <= 1 + faults'
    BY <2>2, <2>3, <2>4, <2>5
  <2>7. Copies(q)' # {}
    BY <2>1
  <2>8. /\ at'[q] \in {"resolved", "importing", "open", "submitted"} => uses'[q] # None
        /\ at'[q] # "submitted" => run'[q].status = "none"
        /\ run'[q].status # "none"
    BY <1>0, <1>task DEF TurnOK
  <2> QED BY <2>6, <2>7, <2>8 DEF TurnOK
<1>5. \A p \in Requests : TurnOK(p)'
  BY <1>3, <1>4
<1>6. run' \in [Requests -> [lease : Nat, status : Statuses]] /\ faults' \in Nat
  BY DEF MemoryInv
<1> QED BY <1>1, <1>2, <1>5, <1>6, <1>n DEF MemoryInv

(* A step of one run's row and its task, with the sessions and the files   *)
(* as they are: what the run's turns add up to, a fault may have paid for. *)
LEMMA LeaseTurns ==
  ASSUME MemoryInv, NEW q \in Requests, run[q].status # "none", NEW new,
         new \in [lease : Nat, status : Statuses], run' = [run EXCEPT ![q] = new],
         new.status # "none",
         new.status = "answered" => Copies(q) # {},
         UNCHANGED <<resolving, written>>,
         faults' \in Nat, faults' >= faults,
         IsFiniteSet(tasks'), \A s \in tasks' : TaskShape(s),
         \A s \in tasks' : s \in tasks \/ (s.run = q /\ s.pc # "answered"),
         Cardinality(Writers(q)') + Due(q)' + faults
           <= Cardinality(Writers(q)) + Due(q) + faults'
  PROVE  MemoryInv'
<1>0. UNCHANGED <<published, sessions, binding, ask, at, uses>>
  BY DEF resolving
<1>1. BindingInv'
  BY <1>0 DEF MemoryInv, BindingInv, BindingOK, Pending, Bound, ResolvedAsAsked, Published,
     Visible, ModelFits, VersionFits
<1>2. /\ run' \in [Requests -> [lease : Nat, status : Statuses]] /\ run'[q] = new
      /\ \A p \in Requests \ {q} : run'[p] = run[p]
  BY DEF MemoryInv
<1>copies. \A p \in Requests : Copies(p)' = Copies(p)
  BY <1>0 DEF Copies
<1>nat. \A p \in Requests : Cardinality(Writers(p)') \in Nat /\ Due(p)' \in {0, 1}
  <2> TAKE p \in Requests
  <2>1. IsFiniteSet(Writers(p)')
    BY FS_Subset DEF Writers
  <2> QED BY <2>1, FS_CardinalityType DEF Due
<1>3. ASSUME NEW p \in Requests, p # q PROVE TurnOK(p)'
  <2>1. Writers(p)' \subseteq Writers(p) /\ IsFiniteSet(Writers(p))
    BY <1>3, FS_Subset DEF Writers, MemoryInv
  <2>2. Cardinality(Writers(p)') <= Cardinality(Writers(p))
    BY <2>1, FS_Subset
  <2>3. UNCHANGED <<uses[p], run[p], at[p]>>
    BY <1>0, <1>2, <1>3
  <2>4. \A s \in tasks' : s.run = p =>
          /\ \E t \in tasks : t.run = p
          /\ s.pc = "answered" => \E t \in tasks : t.run = p /\ t.pc = "answered"
    BY <1>3
  <2> QED BY <1>copies, <1>nat, <2>2, <2>3, <2>4, TurnKept
<1>4. TurnOK(q)'
  <2>1. TurnOK(q) /\ uses[q] # None /\ faults \in Nat
    BY DEF MemoryInv, TurnOK
  <2>2. /\ Cardinality(Copies(q)) \in Nat /\ Cardinality(Writers(q)) \in Nat
        /\ Due(q) \in {0, 1}
    BY <2>1, CountsAreNat
  <2>3. Cardinality(Copies(q)) + Cardinality(Writers(q)) + Due(q) <= 1 + faults
    BY <2>1 DEF TurnOK
  <2>4. Cardinality(Copies(q)') + Cardinality(Writers(q)') + Due(q)' <= 1 + faults'
    BY <1>copies, <1>nat, <2>1, <2>2, <2>3
  <2>5. \A t \in tasks' : t.run = q /\ t.pc = "answered" => Copies(q)' # {}
    BY <1>copies, <2>1 DEF TurnOK
  <2>6. /\ at'[q] \in {"resolved", "importing", "open", "submitted"} => uses'[q] # None
        /\ at'[q] = "submitted"
    BY <1>0, <2>1 DEF TurnOK
  <2> QED BY <1>2, <1>copies, <2>4, <2>5, <2>6 DEF TurnOK
<1>5. \A p \in Requests : TurnOK(p)'
  BY <1>3, <1>4
<1>6. written' \in [Ids -> Seq(Requests)]
  BY DEF MemoryInv
<1> QED BY <1>1, <1>2, <1>5, <1>6 DEF MemoryInv

(* claim_run, with a new thread.                                           *)
LEMMA TakeLeaseTurns ==
  ASSUME MemoryInv, NEW q \in Requests, TakeLease(q) PROVE MemoryInv'
<1> DEFINE new == [status |-> "leased", lease |-> run[q].lease + 1]
           u == [run |-> q, lease |-> run'[q].lease, told |-> {}, draft |-> <<>>,
                 pc |-> "waiting"]
<1>0. /\ run[q].status = "queued" /\ run' = [run EXCEPT ![q] = new]
      /\ tasks' = tasks \cup {u} /\ UNCHANGED <<resolving, written, faults>>
      /\ run \in [Requests -> [lease : Nat, status : Statuses]] /\ faults \in Nat
      /\ IsFiniteSet(tasks) /\ \A t \in tasks : TaskShape(t)
  BY DEF TakeLease, MemoryInv
<1>1. new \in [lease : Nat, status : Statuses]
  BY <1>0 DEF Statuses, Ends
<1>2. TaskShape(u) /\ u.run = q /\ u.pc = "waiting"
  BY DEF TaskShape, TurnPlaces, Ends
<1>3. new.status = "leased" /\ run'[q] = new
  BY <1>0
<1> HIDE DEF u, new
<1>4. Cardinality(Writers(q)') + Due(q)' <= Cardinality(Writers(q)) + Due(q)
  <2>1. Writers(q)' = Writers(q) \cup {u}
    BY <1>0, <1>2 DEF Writers, Unwritten
  <2>2. IsFiniteSet(Writers(q))
    BY <1>0, FS_Subset DEF Writers
  <2>3. /\ IsFiniteSet(Writers(q) \cup {u})
        /\ Cardinality(Writers(q) \cup {u}) <= Cardinality(Writers(q)) + 1
        /\ Cardinality(Writers(q)) \in Nat
    <3> DEFINE W == Writers(q)
    <3> HIDE DEF W
    <3>1. IsFiniteSet(W) /\ Cardinality(W) \in Nat
      BY <2>2, FS_CardinalityType DEF W
    <3>2. /\ IsFiniteSet(W \cup {u})
          /\ Cardinality(W \cup {u}) = IF u \in W THEN Cardinality(W) ELSE Cardinality(W) + 1
      BY <3>1, FS_AddElement
    <3>3. Cardinality(W \cup {u}) <= Cardinality(W) + 1
      BY <3>1, <3>2
    <3> QED BY <3>1, <3>2, <3>3 DEF W
  <2>4. Cardinality(Writers(q) \cup {u}) \in Nat
    BY <2>3, FS_CardinalityType
  <2>5. Due(q) = 1 /\ Due(q)' = 0
    BY <1>0, <1>3 DEF Due
  <2> QED BY <2>1, <2>3, <2>4, <2>5
<1>5. IsFiniteSet(tasks')
  BY <1>0, FS_AddElement
<1>6. /\ \A s \in tasks' : TaskShape(s)
      /\ \A s \in tasks' : s \in tasks \/ (s.run = q /\ s.pc # "answered")
  BY <1>0, <1>2
<1>7. /\ Cardinality(Writers(q)') + Due(q)' + faults
           <= Cardinality(Writers(q)) + Due(q) + faults'
  <2>1. IsFiniteSet(Writers(q)) /\ IsFiniteSet(Writers(q)')
    BY <1>0, <1>5, FS_Subset DEF Writers
  <2>2. /\ Cardinality(Writers(q)) \in Nat /\ Cardinality(Writers(q)') \in Nat
        /\ Due(q) \in {0, 1} /\ Due(q)' \in {0, 1}
    BY <2>1, FS_CardinalityType DEF Due
  <2> QED BY <1>0, <1>4, <2>2
<1>8. faults' \in Nat /\ faults' >= faults
  BY <1>0
<1>9. new.status # "none" /\ new.status # "answered" /\ run[q].status # "none"
  BY <1>0, <1>3
<1> QED BY <1>0, <1>1, <1>5, <1>6, <1>7, <1>8, <1>9, LeaseTurns

(* finish_run, under the lease in force or in vain.                        *)
LEMMA FinishTurns ==
  ASSUME MemoryInv, NEW t \in tasks, Finish(t) PROVE MemoryInv'
<1> DEFINE q == t.run
<1>0. /\ q \in Requests /\ run[q].status # "none" /\ TurnOK(q) /\ uses[q] # None
      /\ tasks' = tasks \ {t} /\ UNCHANGED <<resolving, written, faults>>
      /\ t.pc \in Ends
      /\ run \in [Requests -> [lease : Nat, status : Statuses]] /\ faults \in Nat
      /\ IsFiniteSet(tasks) /\ \A s \in tasks : TaskShape(s)
  BY TaskOfRun DEF Finish, MemoryInv
<1>1. PICK new \in [lease : Nat, status : Statuses] :
        /\ run' = [run EXCEPT ![q] = new]
        /\ \/ new.status = run[q].status
           \/ new.status \in {t.pc, "canceled", "failed"} /\ run[q].status = "leased"
  <2>1. CASE run[q].status = "leased" /\ run[q].lease = t.lease
    <3>1. PICK status \in {t.pc, "canceled", "failed"} :
            run' = [run EXCEPT ![q].status = status]
      BY <1>0, <2>1 DEF Finish
    <3> DEFINE x == [run[q] EXCEPT !.status = status]
    <3>2. status \in Statuses /\ run[q] \in [lease : Nat, status : Statuses]
      BY <1>0 DEF Statuses, Ends
    <3>3. x \in [lease : Nat, status : Statuses] /\ x.status = status
      BY <3>2
    <3>4. run' = [run EXCEPT ![q] = x]
      BY <3>1
    <3> QED BY <2>1, <3>3, <3>4
  <2>2. CASE ~(run[q].status = "leased" /\ run[q].lease = t.lease)
    <3>1. run' = [run EXCEPT ![q] = run[q]]
      BY <1>0, <2>2 DEF Finish
    <3> QED BY <1>0, <3>1
  <2> QED BY <2>1, <2>2
<1>2. new.status # "none" /\ (new.status = "answered" => Copies(q) # {})
  BY <1>0, <1>1 DEF TurnOK, Ends
<1>3. IsFiniteSet(tasks') /\ tasks' \subseteq tasks
  BY <1>0, FS_RemoveElement
<1>4. Cardinality(Writers(q)') + Due(q)' + faults <= Cardinality(Writers(q)) + Due(q) + faults'
  <2>1. Writers(q)' \subseteq Writers(q) /\ IsFiniteSet(Writers(q))
    BY <1>0, FS_Subset DEF Writers
  <2>2. /\ Cardinality(Writers(q)') <= Cardinality(Writers(q))
        /\ Cardinality(Writers(q)') \in Nat /\ Cardinality(Writers(q)) \in Nat
    BY <2>1, FS_Subset, FS_CardinalityType
  <2>3. Due(q)' <= Due(q) /\ Due(q) \in {0, 1} /\ Due(q)' \in {0, 1}
    <3>1. run'[q] = new
      BY <1>0, <1>1
    <3> QED BY <1>0, <1>1, <3>1 DEF Due, Ends
  <2> QED BY <1>0, <2>2, <2>3
<1> HIDE DEF q
<1>5. /\ \A s \in tasks' : TaskShape(s)
      /\ \A s \in tasks' : s \in tasks \/ (s.run = q /\ s.pc # "answered")
  BY <1>0, <1>3
<1>6. faults' \in Nat /\ faults' >= faults
  BY <1>0
<1> QED BY <1>0, <1>1, <1>2, <1>3, <1>4, <1>5, <1>6, LeaseTurns

(* The sweep: the run is queued again, at the cost of a fault.             *)
LEMMA LoseLeaseTurns ==
  ASSUME MemoryInv, NEW q \in Requests, LoseLease(q) PROVE MemoryInv'
<1> DEFINE new == [run[q] EXCEPT !.status = "queued"]
<1>0. /\ run[q].status = "leased" /\ tasks' = tasks /\ UNCHANGED <<resolving, written>>
      /\ run \in [Requests -> [lease : Nat, status : Statuses]]
      /\ run' = [run EXCEPT ![q] = new] /\ faults \in Nat /\ faults' = faults + 1
      /\ IsFiniteSet(tasks) /\ \A s \in tasks : TaskShape(s)
  BY DEF LoseLease, Fault, MemoryInv
<1>1. new \in [lease : Nat, status : Statuses] /\ new.status = "queued"
  BY <1>0 DEF Statuses, Ends
<1> HIDE DEF new
<1>2. Writers(q)' = Writers(q) /\ IsFiniteSet(Writers(q))
  BY <1>0, FS_Subset DEF Writers
<1>3. Cardinality(Writers(q)) \in Nat /\ Due(q) \in {0, 1} /\ Due(q)' \in {0, 1}
  BY <1>2, FS_CardinalityType DEF Due
<1>4. Cardinality(Writers(q)') + Due(q)' + faults <= Cardinality(Writers(q)) + Due(q) + faults'
  BY <1>0, <1>2, <1>3
<1>5. faults' \in Nat /\ faults' >= faults
  BY <1>0
<1> QED BY <1>0, <1>1, <1>4, <1>5, LeaseTurns

(* The end of the process: no task writes any more, and every leased run   *)
(* is queued again.                                                        *)
LEMMA CrashTurns ==
  ASSUME MemoryInv, BindingInv', Crash PROVE MemoryInv'
<1>0. /\ UNCHANGED <<uses, written>> /\ tasks' = {}
      /\ run \in [Requests -> [lease : Nat, status : Statuses]]
      /\ at \in [Requests -> Places] /\ faults \in Nat /\ faults' = faults + 1
      /\ at' = [q \in Requests |-> IF at[q] \in Resolving \cup {"resolved", "importing", "open"}
                                   THEN "refused" ELSE at[q]]
      /\ run' = [q \in Requests |-> IF run[q].status = "leased"
                                    THEN [run[q] EXCEPT !.status = "queued"] ELSE run[q]]
  BY DEF Crash, Fault, MemoryInv, BindingInv, BindingOK
<1>1. \A q \in Requests :
        /\ run'[q] \in [lease : Nat, status : Statuses]
        /\ \/ run'[q].status = run[q].status
           \/ run'[q].status = "queued" /\ run[q].status = "leased"
  BY <1>0 DEF Statuses, Ends
<1>2. run' \in [Requests -> [lease : Nat, status : Statuses]]
  BY <1>0, <1>1
<1>3. IsFiniteSet(tasks')
  BY <1>0, FS_EmptySet
<1>4. ASSUME NEW q \in Requests PROVE TurnOK(q)'
  <2>1. TurnOK(q) /\ Copies(q)' = Copies(q) /\ Writers(q)' = {}
    BY <1>0 DEF MemoryInv, Copies, Writers
  <2>2. uses'[q] # None =>
          Cardinality(Copies(q)') + Cardinality(Writers(q)') + Due(q)' <= 1 + faults'
    <3> SUFFICES ASSUME uses[q] # None
                 PROVE  Cardinality(Copies(q)') + Cardinality(Writers(q)') + Due(q)' <= 1 + faults'
      BY <1>0
    <3>1. Cardinality(Writers(q)') = 0 /\ Due(q)' \in {0, 1}
      BY <2>1, FS_EmptySet DEF Due
    <3>2. /\ Cardinality(Copies(q)) \in Nat /\ Cardinality(Writers(q)) \in Nat
          /\ Due(q) \in {0, 1}
          /\ Cardinality(Copies(q)) + Cardinality(Writers(q)) + Due(q) <= 1 + faults
      BY <2>1, CountsAreNat DEF TurnOK
    <3> QED BY <1>0, <2>1, <3>1, <3>2
  <2>3. /\ at'[q] \in {"resolved", "importing", "open", "submitted"} => uses'[q] # None
        /\ at'[q] # "submitted" => run'[q].status = "none"
    <3>1. at'[q] = IF at[q] \in Resolving \cup {"resolved", "importing", "open"}
                   THEN "refused" ELSE at[q]
      BY <1>0
    <3>2. "submitted" \notin Resolving
      BY DEF Resolving
    <3>3. run[q].status = "none" => run'[q].status = "none"
      BY <1>1
    <3> QED BY <1>0, <2>1, <3>1, <3>2, <3>3 DEF TurnOK
  <2>4. /\ run'[q].status = "none" => run[q].status = "none"
        /\ run'[q].status = "answered" => run[q].status = "answered"
    BY <1>1
  <2> QED BY <1>0, <2>1, <2>2, <2>3, <2>4 DEF TurnOK
<1> QED BY <1>0, <1>2, <1>3, <1>4 DEF MemoryInv

(* What is remembered of every run, through every step.                    *)
THEOREM MemoryInvariance == CSpec => []MemoryInv
<1>1. CInit => MemoryInv
  <2> SUFFICES ASSUME CInit PROVE MemoryInv
    OBVIOUS
  <2>1. BindingInv
    BY InitBindingInv DEF CInit
  <2>2. /\ run \in [Requests -> [lease : Nat, status : Statuses]]
        /\ written \in [Ids -> Seq(Requests)] /\ faults \in Nat
    BY DEF CInit, Statuses, Ends
  <2>3. IsFiniteSet(tasks) /\ \A t \in tasks : TaskShape(t)
    BY FS_EmptySet DEF CInit
  <2>4. \A q \in Requests : TurnOK(q)
    BY DEF CInit, InitBinding, TurnOK, Ids
  <2> QED BY <2>1, <2>2, <2>3, <2>4 DEF MemoryInv
<1>2. MemoryInv /\ BindingInv' /\ [CNext]_cvars => MemoryInv'
  <2> SUFFICES ASSUME MemoryInv, BindingInv', [CNext]_cvars PROVE MemoryInv'
    OBVIOUS
  <2>faults. faults \in Nat /\ (Fault => faults' = faults + 1)
    BY DEF MemoryInv, Fault
  <2>same. ASSUME UNCHANGED <<at, uses, memory>> PROVE MemoryInv'
    <3>0. UNCHANGED <<at, uses, run, tasks, written, faults>>
      BY <2>same DEF memory
    <3>1. ASSUME NEW q \in Requests PROVE TurnOK(q)'
      <4>1. Copies(q)' = Copies(q) /\ Writers(q)' = Writers(q) /\ Due(q)' = Due(q)
        BY <3>0 DEF Copies, Writers, Due
      <4>2. TurnOK(q)
        BY DEF MemoryInv
      <4> QED BY <3>0, <4>1, <4>2 DEF TurnOK
    <3> QED BY <3>0, <3>1 DEF MemoryInv, TaskShape
  <2>1. ASSUME NEW v \in Versions, Publish(v), UNCHANGED memory PROVE MemoryInv'
    BY <2>1, <2>same DEF Publish
  <2>2. ASSUME NEW q \in Requests,
               \/ Resolve(q) /\ UNCHANGED memory
               \/ LookForFile(q) \/ Import(q) \/ Submit(q)
        PROVE  MemoryInv'
    BY <2>2, HandlerTurns
  <2>3. ASSUME NEW t \in tasks, Advance(t) PROVE MemoryInv'
    <3>0. TaskShape(t)
      BY DEF MemoryInv
    <3>move. ASSUME NEW pc \in {"turn", "writing", "unkept", "failed"}, NEW told, NEW draft,
                    Become(t, [t EXCEPT !.pc = pc, !.told = told, !.draft = draft]),
                    t.pc \in Unwritten, UNCHANGED <<resolving, run, written>>,
                    faults' \in Nat, faults' >= faults
             PROVE  MemoryInv'
      <4> DEFINE u == [t EXCEPT !.pc = pc, !.told = told, !.draft = draft]
      <4>1. TaskShape(u) /\ u.run = t.run /\ u.pc = pc
        <5>1. u = [run |-> t.run, lease |-> t.lease, told |-> told, draft |-> draft, pc |-> pc]
          <6>1. u = [f \in {"run", "lease", "told", "draft", "pc"} |-> u[f]]
            BY <3>0 DEF TaskShape
          <6>2. u.run = t.run /\ u.lease = t.lease /\ u.told = told
                /\ u.draft = draft /\ u.pc = pc
            BY <3>0 DEF TaskShape
          <6> HIDE DEF u
          <6> QED BY <6>1, <6>2
        <5>2. u.run = t.run /\ u.lease = t.lease /\ u.told = told /\ u.draft = draft /\ u.pc = pc
          BY <5>1
        <5> HIDE DEF u
        <5> QED BY <3>0, <5>1, <5>2 DEF TaskShape, TurnPlaces, Ends
      <4> HIDE DEF u
      <4> QED BY <3>move, <4>1, TaskTurns DEF u
    <3>1. \A pc : [t EXCEPT !.pc = pc] = [t EXCEPT !.pc = pc, !.told = t.told, !.draft = t.draft]
      BY <3>0 DEF TaskShape
    <3>2. \A pc, told : [t EXCEPT !.pc = pc, !.told = told]
                        = [t EXCEPT !.pc = pc, !.told = told, !.draft = t.draft]
      BY <3>0 DEF TaskShape
    <3>3. \A pc, draft : [t EXCEPT !.pc = pc, !.draft = draft]
                         = [t EXCEPT !.pc = pc, !.told = t.told, !.draft = draft]
      BY <3>0 DEF TaskShape
    <3>4. ASSUME EnterTurn(t) PROVE MemoryInv'
      <4>1. t.pc \in Unwritten /\ UNCHANGED <<resolving, run, written>>
            /\ faults' \in Nat /\ faults' >= faults
        BY <3>4, <2>faults DEF EnterTurn, Unwritten
      <4> DEFINE told == IF context[KeyOf(t.run)] = None
                         THEN ToSet(Load(uses[t.run])) ELSE {}
      <4>2. \/ Become(t, [t EXCEPT !.pc = "turn", !.told = told])
            \/ Become(t, [t EXCEPT !.pc = "failed"])
        BY <3>4 DEF EnterTurn
      <4> HIDE DEF told
      <4>3. \/ Become(t, [t EXCEPT !.pc = "turn", !.told = told, !.draft = t.draft])
            \/ Become(t, [t EXCEPT !.pc = "failed", !.told = t.told, !.draft = t.draft])
        BY <4>2, <3>1, <3>2
      <4> QED BY <4>1, <4>3, <3>move
    <3>5. ASSUME Answer(t) PROVE MemoryInv'
      <4> DEFINE draft == Trim(Append(Load(uses[t.run]), t.run))
      <4>1. t.pc \in Unwritten /\ UNCHANGED <<resolving, run, written>>
            /\ faults' \in Nat /\ faults' >= faults
        BY <3>5, <2>faults DEF Answer, Unwritten
      <4>2. Become(t, [t EXCEPT !.pc = "writing", !.draft = draft])
        BY <3>5 DEF Answer
      <4> HIDE DEF draft
      <4>3. Become(t, [t EXCEPT !.pc = "writing", !.told = t.told, !.draft = draft])
        BY <4>2, <3>3
      <4> QED BY <4>1, <4>3, <3>move
    <3>6. ASSUME WriteFile(t) PROVE MemoryInv'
      <4>1. CASE /\ written' = [written EXCEPT ![uses[t.run]] = Append(@, t.run)]
                 /\ Become(t, [t EXCEPT !.pc = "answered"])
                 /\ UNCHANGED faults
        BY <3>6, <4>1, WriteTurns DEF WriteFile
      <4>2. CASE Fault /\ Become(t, [t EXCEPT !.pc = "failed"]) /\ UNCHANGED written
        <5>1. t.pc \in Unwritten /\ UNCHANGED <<resolving, run, written>>
              /\ faults' \in Nat /\ faults' >= faults
          BY <3>6, <4>2, <2>faults DEF WriteFile, Unwritten
        <5>2. Become(t, [t EXCEPT !.pc = "failed", !.told = t.told, !.draft = t.draft])
          BY <4>2, <3>1
        <5> QED BY <4>2, <5>1, <5>2, <3>move
      <4> QED BY <3>6, <4>1, <4>2 DEF WriteFile
    <3>7. ASSUME FailTurn(t) PROVE MemoryInv'
      <4>1. t.pc \in Unwritten /\ UNCHANGED <<resolving, run, written>>
            /\ faults' \in Nat /\ faults' >= faults
        BY <3>7, <2>faults DEF FailTurn, Unwritten
      <4>2. PICK pc \in {"unkept", "failed"} : Become(t, [t EXCEPT !.pc = pc])
        BY <3>7 DEF FailTurn
      <4>3. Become(t, [t EXCEPT !.pc = pc, !.told = t.told, !.draft = t.draft])
        BY <4>2, <3>1
      <4> QED BY <4>1, <4>3, <3>move
    <3> QED BY <2>3, <3>4, <3>5, <3>6, <3>7, FinishTurns DEF Advance
  <2>4. ASSUME NEW q \in Requests, TakeLease(q) PROVE MemoryInv'
    BY <2>4, TakeLeaseTurns
  <2>5. ASSUME NEW q \in Requests, LoseLease(q) PROVE MemoryInv'
    BY <2>5, LoseLeaseTurns
  <2>6. CASE Crash
    BY <2>6, CrashTurns
  <2>7. CASE UNCHANGED cvars
    BY <2>7, <2>same DEF cvars, memory
  <2> QED BY <2>1, <2>2, <2>3, <2>4, <2>5, <2>6, <2>7 DEF CNext
<1> QED BY <1>1, <1>2, BindingInvariance, PTL DEF CSpec

(* A turn whose complete answer became its run's result is in the memory   *)
(* of its session, and again only where a lease was lost or the process    *)
(* died.                                                                   *)
THEOREM TurnsKept == CSpec => []TurnsRemembered
<1>1. MemoryInv => TurnsRemembered
  <2> SUFFICES ASSUME MemoryInv, NEW q \in Requests, uses[q] # None
               PROVE  /\ run[q].status = "answered" => Copies(q) # {}
                      /\ Cardinality(Copies(q)) <= 1 + faults
    BY DEF TurnsRemembered, Copies
  <2>1. TurnOK(q) /\ faults \in Nat
    BY DEF MemoryInv
  <2> QED BY <2>1, CountsAreNat DEF TurnOK
<1> QED BY <1>1, MemoryInvariance, PTL
=============================================================================
