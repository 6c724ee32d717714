------------------------------ MODULE ChatProofs ------------------------------
(***************************************************************************)
(* Theorems about the chat side of the server: the names a page shows      *)
(* (DisplayNames), the panel of a group (GroupPanel), events from the      *)
(* platform to a command (FeishuIngress) and the secret of an application  *)
(* (AppCredentials).                                                       *)
(*                                                                         *)
(* Names: what was lacking when a request looked at the batches is what it *)
(* can still lack when it looks at the labels, since no label expires      *)
(* within a request.  Panel: what a sender remembers holds while the row   *)
(* has the generation it read.  Ingress: a message that may be accepted    *)
(* has no claim, job or run yet.  Credentials: what the stores yield is    *)
(* the newest secret, and past the guard no client has an older one than   *)
(* was compared.                                                           *)
(*                                                                         *)
(* At the end, what is proved of each part of MCServices, here and in the  *)
(* modules this one extends, holds of the parts together.                  *)
(***************************************************************************)
EXTENDS MCServices, AgentProofs, ServerProofs

-----------------------------------------------------------------------------
(* DisplayNames *)

PageRecords ==
  [at : {"new", "submitted", "admitted", "answered"}, pending : SUBSET NamedActors,
   lacking : BOOLEAN, answer : {"none", "pending", "limited", "unavailable", "ready"}]

NamesTyped ==
  /\ label \in [NamedActors -> {"none", "name", "failed"}]
  /\ active \subseteq NamedActors /\ batch.ids \subseteq active
  /\ page \in [Pages -> PageRecords]

\* A request that saw a batch for every missing name still has one for each.
Awaited(p) ==
  /\ page[p].at # "answered" => page[p].answer = "none"
  /\ page[p].at = "admitted" /\ ~ page[p].lacking => Unknown \subseteq page[p].pending
  /\ page[p].answer = "limited" => page[p].lacking

NamesInv == NamesTyped /\ \A p \in Pages : Awaited(p)

\* A step of a request changes that request only, and no label.
LEMMA PageStep ==
  ASSUME NamesInv, NEW p \in Pages, NEW r \in PageRecords,
         page' = [page EXCEPT ![p] = r], label' = label,
         active' \subseteq NamedActors, batch'.ids \subseteq active',
         r.at # "answered" => r.answer = "none",
         r.at = "admitted" /\ ~ r.lacking => Unknown \subseteq r.pending,
         r.answer = "limited" => r.lacking
  PROVE  NamesInv'
<1>1. page' \in [Pages -> PageRecords] /\ page'[p] = r
      /\ \A q \in Pages : q # p => page'[q] = page[q]
  BY DEF NamesInv, NamesTyped
<1>2. Unknown' = Unknown
  BY DEF Unknown
<1>3. ASSUME NEW q \in Pages PROVE Awaited(q)'
  <2>1. CASE q = p
    BY <1>1, <1>2, <2>1 DEF Awaited
  <2>2. CASE q # p
    BY <1>1, <1>2, <2>2 DEF NamesInv, Awaited
  <2>3. QED BY <2>1, <2>2
<1>4. QED BY <1>1, <1>3 DEF NamesInv, NamesTyped

\* A step of the batch or of a command leaves the pages and loses no label.
LEMMA LabelStep ==
  ASSUME NamesInv, page' = page,
         label' \in [NamedActors -> {"none", "name", "failed"}],
         \/ \A u \in NamedActors : label'[u] = "none" => label[u] = "none"
         \/ \A p \in Pages : page[p].at \in {"new", "answered"},
         active' \subseteq NamedActors, batch'.ids \subseteq active'
  PROVE  NamesInv'
<1>1. ASSUME NEW p \in Pages PROVE Awaited(p)'
  BY DEF NamesInv, Awaited, Unknown
<1>2. QED BY <1>1 DEF NamesInv, NamesTyped

LEMMA EnterLabels ==
  ASSUME NamesInv, NEW given, NEW asked
  PROVE  /\ Enter(given, asked) \in [NamedActors -> {"none", "name", "failed"}]
         /\ \A u \in NamedActors : Enter(given, asked)[u] = "none" => label[u] = "none"
BY DEF Enter, NamesInv, NamesTyped

LEMMA ReadLabelsNames == ASSUME NamesInv, NEW p \in Pages, ReadLabels(p) PROVE NamesInv'
<1> DEFINE r == [page[p] EXCEPT !.at = "answered", !.lacking = @ \/ Lacking,
                                !.answer = AnswerOf(page[p].pending)]
<1>1. page[p] \in PageRecords /\ page[p].at = "admitted" /\ Awaited(p)
      /\ active \subseteq NamedActors /\ batch.ids \subseteq active
  BY DEF NamesInv, NamesTyped, ReadLabels
<1>2. AnswerOf(page[p].pending) \in {"none", "pending", "limited", "unavailable", "ready"}
  BY DEF AnswerOf
<1>3. (page[p].lacking \/ Lacking) \in BOOLEAN
  BY <1>1 DEF PageRecords, Lacking
<1>4. /\ r \in PageRecords /\ r.at = "answered" /\ r.answer = AnswerOf(page[p].pending)
      /\ r.lacking <=> page[p].lacking \/ Lacking
  BY <1>1, <1>2, <1>3 DEF PageRecords
<1>5. page' = [page EXCEPT ![p] = r] /\ UNCHANGED <<label, active, batch>>
  BY DEF ReadLabels
<1> HIDE DEF r
<1>6. r.answer = "limited" => r.lacking
  <2> SUFFICES ASSUME r.answer = "limited", ~ page[p].lacking PROVE FALSE
    BY <1>4
  <2>1. Unknown \cap page[p].pending = {} /\ Unknown # {}
    BY <1>4 DEF AnswerOf
  <2>2. Unknown \subseteq page[p].pending
    BY <1>1 DEF Awaited
  <2>3. QED BY <2>1, <2>2
<1>7. QED BY <1>1, <1>4, <1>5, <1>6, PageStep

LEMMA ReadPendingNames == ASSUME NamesInv, NEW p \in Pages, ReadPending(p) PROVE NamesInv'
<1> DEFINE r == [page[p] EXCEPT !.at = "admitted", !.pending = active, !.lacking = Lacking]
<1>1. page[p] \in PageRecords /\ page[p].at = "submitted" /\ Awaited(p)
      /\ active \subseteq NamedActors /\ batch.ids \subseteq active
  BY DEF NamesInv, NamesTyped, ReadPending
<1>2. Lacking \in BOOLEAN /\ (~ Lacking => Unknown \subseteq active)
  BY DEF Lacking
<1>3. /\ r \in PageRecords /\ r.at = "admitted" /\ r.answer = page[p].answer
      /\ r.pending = active /\ (r.lacking <=> Lacking)
  BY <1>1, <1>2 DEF PageRecords
<1>4. page' = [page EXCEPT ![p] = r] /\ UNCHANGED <<label, active, batch>>
  BY DEF ReadPending
<1> HIDE DEF r
<1>5. r.answer = "none"
  BY <1>1, <1>3 DEF Awaited
<1>6. QED BY <1>1, <1>2, <1>3, <1>4, <1>5, PageStep

LEMMA SubmittedNames ==
  ASSUME NamesInv, NEW p \in Pages, RefreshNames(p) \/ ReadOnlyPage(p) PROVE NamesInv'
<1> DEFINE r == [page[p] EXCEPT !.at = "submitted"]
<1>1. page[p] \in PageRecords /\ page[p].at = "new" /\ Awaited(p)
  BY DEF NamesInv, NamesTyped, RefreshNames, ReadOnlyPage
<1>2. r \in PageRecords /\ r.at = "submitted" /\ r.answer = page[p].answer
  BY <1>1 DEF PageRecords
<1>3. page' = [page EXCEPT ![p] = r] /\ label' = label
  BY DEF RefreshNames, ReadOnlyPage
<1>4. active' \subseteq NamedActors /\ batch'.ids \subseteq active'
  BY DEF RefreshNames, ReadOnlyPage, NamesInv, NamesTyped, Unknown
<1> HIDE DEF r
<1>5. QED BY <1>1, <1>2, <1>3, <1>4, PageStep DEF Awaited

LEMMA AskAgainNames == ASSUME NamesInv, NEW p \in Pages, AskAgain(p) PROVE NamesInv'
<1>1. Fresh \in PageRecords /\ Fresh.at = "new" /\ Fresh.answer = "none"
  BY DEF Fresh, PageRecords
<1>2. QED BY <1>1, PageStep DEF AskAgain, NamesInv, NamesTyped

LEMMA BatchNames ==
  ASSUME NamesInv, StartBatch \/ BatchAnswers \/ EndBatch \/ LabelExpires PROVE NamesInv'
<1> USE DEF NamesInv, NamesTyped
<1>1. CASE StartBatch
  <2>1. batch'.ids \subseteq active' /\ active' = active /\ UNCHANGED <<label, page>>
    BY <1>1 DEF StartBatch
  <2>2. QED BY <2>1, LabelStep
<1>2. CASE BatchAnswers
  <2>1. batch'.ids = batch.ids /\ UNCHANGED <<active, page>>
    BY <1>2 DEF BatchAnswers
  <2>2. PICK given : label' = Enter(given, batch.ids)
    BY <1>2 DEF BatchAnswers
  <2>3. QED BY <2>1, <2>2, EnterLabels, LabelStep
<1>3. CASE EndBatch
  <2>1. batch'.ids = {} /\ active' = {} /\ UNCHANGED <<label, page>>
    BY <1>3 DEF EndBatch, NoBatch
  <2>2. QED BY <2>1, LabelStep
<1>4. CASE LabelExpires
  <2>1. UNCHANGED <<active, batch, page>> /\ \A p \in Pages : page[p].at \in {"new", "answered"}
    BY <1>4 DEF LabelExpires
  <2>2. label' \in [NamedActors -> {"none", "name", "failed"}]
    BY <1>4 DEF LabelExpires
  <2>3. QED BY <2>1, <2>2, LabelStep
<1>5. QED BY <1>1, <1>2, <1>3, <1>4

LEMMA WarmNames == ASSUME NamesInv, NEW c \in Commands, WarmOne(c) \/ WarmedOne(c) PROVE NamesInv'
<1> USE DEF NamesInv, NamesTyped
<1>1. CASE WarmOne(c)
  BY <1>1, LabelStep DEF WarmOne
<1>2. CASE WarmedOne(c)
  <2>1. PICK given : label' = Enter(given, warmer[c])
    BY <1>2 DEF WarmedOne
  <2>2. QED BY <1>2, <2>1, EnterLabels, LabelStep DEF WarmedOne
<1>3. QED BY <1>1, <1>2

LEMMA NamesStart == ASSUME DisplayNamesInit PROVE NamesInv
<1>1. Fresh \in PageRecords /\ Fresh.at = "new" /\ Fresh.answer = "none" /\ NoBatch.ids = {}
  BY DEF Fresh, PageRecords, NoBatch
<1>2. QED BY <1>1 DEF DisplayNamesInit, NamesInv, NamesTyped, Awaited

LEMMA NamesStep == ASSUME NamesInv, [DisplayNamesNext]_dnVars PROVE NamesInv'
<1>1. CASE UNCHANGED dnVars
  BY <1>1 DEF dnVars, NamesInv, NamesTyped, Awaited, Unknown
<1>2. QED BY <1>1, BatchNames, WarmNames, SubmittedNames, ReadPendingNames, ReadLabelsNames,
             AskAgainNames DEF DisplayNamesNext

\* LimitedIsTrue for any ids, commands and requests: the page is told that names are
\* missing and nobody fetches them only if that was so at one moment of the request
\* (the order of the two readings in _read).
THEOREM LimitedWasSo == DisplayNamesSpec => []LimitedIsTrue
<1>1. NamesInv => LimitedIsTrue
  BY DEF NamesInv, Awaited, LimitedIsTrue
<1>2. QED BY <1>1, NamesStart, NamesStep, PTL DEF DisplayNamesSpec

\* Names, batches and requests have their types (feishu/names.py).
THEOREM NameTypesHold == DisplayNamesSpec => []DisplayNamesTypeOK
<1>1. NamesInv => DisplayNamesTypeOK
  BY DEF NamesInv, NamesTyped, DisplayNamesTypeOK
<1>2. QED BY <1>1, NamesStart, NamesStep, PTL DEF DisplayNamesSpec

-----------------------------------------------------------------------------
(* GroupPanel *)

MessageRows == [scope : Nat, fresh : BOOLEAN]
QueryPlaces == {"new", "entered", "prepared", "answered", "plain", "done", "error"}
QueryRows ==
  [at : QueryPlaces, scope : Nat, generation : Nat, message : Nat,
   result : {"none", "ok", "untracked", "rejected", "uncertain"}, got : Nat]

PanelTyped ==
  /\ scope \in Nat
  /\ taken \subseteq Events
  /\ observed \in ObservationRows \cup {NoRow}
  /\ panel \in PanelRows \cup {NoRow}
  /\ query \in [Queries -> QueryRows]
  /\ posted \in [Queries -> Nat]
  /\ message \in Seq(MessageRows)

\* Message m of the group was posted for identity s, and no membership change
\* was recorded since.
Standing(s, m) == m \in 1..Len(message) /\ message[m].scope = s /\ message[m].fresh

\* What a sender remembers holds for as long as the row has its generation.
Remembers(q) ==
  query[q].at \in {"prepared", "answered"} =>
    /\ panel # NoRow
    /\ query[q].generation <= panel.generation
    /\ query[q].generation = panel.generation =>
         /\ panel.scope = query[q].scope
         /\ query[q].message # NoMessage => Standing(query[q].scope, query[q].message)
         /\ query[q].at = "answered" /\ query[q].got # NoMessage
              => Standing(query[q].scope, query[q].got)

\* A sender that may have posted is past the plain reply, or will not come to it.
PostsOnce(q) ==
  /\ posted[q] <= 1
  /\ query[q].at \in {"new", "entered", "prepared", "plain"} => posted[q] = 0
  /\ query[q].at = "answered" /\ posted[q] # 0 =>
       query[q].message = NoMessage /\ query[q].result \in {"ok", "untracked", "uncertain"}

PanelStands == panel # NoRow /\ panel.message # NoMessage => Standing(panel.scope, panel.message)
Membership == (observed = NoRow => taken = {}) /\ LatestObserved

PanelInv ==
  /\ PanelTyped /\ PanelStands /\ Membership
  /\ \A q \in Queries : Remembers(q) /\ PostsOnce(q)

LEMMA LaterIsTransitive ==
  ASSUME NEW d \in Events, NEW e \in Events, NEW f \in Events
  PROVE  Later(d, e) /\ Later(e, f) => Later(d, f)
<1>1. \A x \in Events : x.id \in Nat /\ x.time \in Nat /\ x.removed \in BOOLEAN
  BY GroupPanelAssumption
<1>2. QED BY <1>1 DEF Later

LEMMA LaterIsStrict == ASSUME NEW e \in Events PROVE ~ Later(e, e)
<1>1. e.id \in Nat /\ e.time \in Nat /\ e.removed \in BOOLEAN
  BY GroupPanelAssumption
<1>2. QED BY <1>1 DEF Later

\* A step that leaves the senders and the messages, and whose row is the old
\* one up to its clocks.
LEMMA RowClock ==
  ASSUME PanelInv, UNCHANGED << groupVars, query, posted, message >>,
         panel # NoRow, panel' \in PanelRows,
         panel'.scope = panel.scope, panel'.generation = panel.generation,
         panel'.message = panel.message
  PROVE  PanelInv'
<1>1. PanelTyped' /\ PanelStands' /\ Membership'
  BY DEF PanelInv, PanelTyped, PanelStands, Standing, Membership, LatestObserved, groupVars
<1>2. ASSUME NEW q \in Queries PROVE Remembers(q)' /\ PostsOnce(q)'
  <2>1. panel' # NoRow
    BY GroupPanelAssumption
  <2>2. QED BY <2>1 DEF PanelInv, Remembers, PostsOnce, Standing
<1>3. QED BY <1>1, <1>2 DEF PanelInv

\* A step of one sender that neither adds nor ages messages, and leaves the row.
LEMMA SenderMoves ==
  ASSUME PanelInv, NEW q \in Queries, NEW r \in QueryRows,
         query' = [query EXCEPT ![q] = r], UNCHANGED << groupVars, panel, message >>,
         posted' \in [Queries -> Nat],
         \A p \in Queries : p # q => posted'[p] = posted[p],
         Remembers(q)', PostsOnce(q)'
  PROVE  PanelInv'
<1>1. query' \in [Queries -> QueryRows] /\ \A p \in Queries : p # q => query'[p] = query[p]
  BY DEF PanelInv, PanelTyped
<1>2. PanelTyped' /\ PanelStands' /\ Membership'
  BY <1>1 DEF PanelInv, PanelTyped, PanelStands, Standing, Membership, LatestObserved, groupVars
<1>3. ASSUME NEW p \in Queries, p # q PROVE Remembers(p)' /\ PostsOnce(p)'
  BY <1>1, <1>3 DEF PanelInv, Remembers, PostsOnce, Standing
<1>4. QED BY <1>2, <1>3 DEF PanelInv

LEMMA InvalidatedRow ==
  ASSUME NEW p \in PanelRows
  PROVE  LET r == [p EXCEPT !.generation = @ + 1, !.message = NoMessage, !.cooling = FALSE]
         IN  r \in PanelRows /\ r.generation = p.generation + 1 /\ r.message = NoMessage
<1> DEFINE r == [p EXCEPT !.generation = p.generation + 1, !.message = 0, !.cooling = FALSE]
<1>1. r \in PanelRows
  <2>1. p.generation + 1 \in Nat /\ FALSE \in BOOLEAN /\ 0 \in Nat
    BY DEF PanelRows
  <2>2. QED BY <2>1, Zenon DEF PanelRows
<1>2. r.generation = p.generation + 1 /\ r.message = 0
  BY DEF PanelRows
<1>3. QED BY <1>1, <1>2 DEF NoMessage

\* The bot's side: switches, bindings, start and stop.
LEMMA OutsideStep ==
  ASSUME PanelInv, scope' \in Nat, UNCHANGED << observed, taken, panelVars >>
  PROVE  PanelInv'
BY DEF PanelInv, PanelTyped, PanelStands, Standing, Membership, LatestObserved, panelVars,
       Remembers, PostsOnce

LEMMA Moved ==
  ASSUME PanelInv, NEW q \in Queries, NEW at \in QueryPlaces, To(q, at)
  PROVE  LET r == [Waiting EXCEPT !.at = at]
         IN  r \in QueryRows /\ query' = [query EXCEPT ![q] = r] /\ query'[q] = r /\ r.at = at
BY DEF To, Waiting, QueryRows, PanelInv, PanelTyped, NoMessage

LEMMA AcceptMembershipPanel ==
  ASSUME PanelInv, NEW e \in Events, AcceptMembership(e)
  PROVE  PanelInv'
<1>1. Stale(e) => UNCHANGED << observed, panel, message >> /\ taken' = taken \cup {e}
  BY DEF AcceptMembership
<1>2. ~ Stale(e) => /\ observed' = [scope |-> scope, event |-> e]
                    /\ taken' = IF SameScope THEN taken \cup {e} ELSE {e}
  BY DEF AcceptMembership
<1>3. UNCHANGED << scope, query, posted >>
  BY DEF AcceptMembership
<1>4. Membership' /\ taken' \subseteq Events /\ observed' \in ObservationRows \cup {NoRow}
  <2>1. CASE Stale(e)
    <3>1. observed # NoRow /\ ~ Later(e, observed.event)
      BY <2>1 DEF Stale
    <3>2. observed' = observed /\ taken' = taken \cup {e}
      BY <1>1, <2>1
    <3>3. QED BY <3>1, <3>2 DEF PanelInv, PanelTyped, Membership, LatestObserved
  <2>2. CASE ~ Stale(e)
    <3>1. observed' \in ObservationRows /\ observed'.event = e /\ observed' # NoRow
      BY <1>2, <2>2, GroupPanelAssumption DEF ObservationRows, PanelInv, PanelTyped
    <3>2. ASSUME NEW f \in taken' PROVE ~ Later(f, e)
      <4>1. CASE f = e
        BY <4>1, LaterIsStrict
      <4>2. CASE f # e
        <5>1. f \in taken /\ SameScope /\ f \in Events
          BY <1>2, <2>2, <3>2, <4>2 DEF PanelInv, PanelTyped
        <5>2. observed # NoRow /\ observed.event \in Events /\ ~ Later(f, observed.event)
          BY <5>1 DEF PanelInv, PanelTyped, Membership, LatestObserved, ObservationRows
        <5>3. Later(e, observed.event)
          BY <2>2, <5>1, <5>2 DEF Stale
        <5>4. QED BY <5>1, <5>2, <5>3, LaterIsTransitive
      <4>3. QED BY <4>1, <4>2
    <3>3. QED BY <1>2, <2>2, <3>1, <3>2 DEF Membership, LatestObserved, PanelInv, PanelTyped
  <2>3. QED BY <2>1, <2>2
<1>5. CASE UNCHANGED << panel, message >>
  BY <1>3, <1>4, <1>5
     DEF PanelInv, PanelTyped, PanelStands, Standing, Remembers, PostsOnce
<1>6. CASE /\ panel' = Invalidated(panel)
           /\ message' = [m \in DOMAIN message |-> [message[m] EXCEPT !.fresh = FALSE]]
  <2>1. message' \in Seq(MessageRows)
    <3>1. /\ Len(message) \in Nat /\ DOMAIN message = 1..Len(message)
          /\ \A m \in 1..Len(message) : message[m] \in MessageRows
      BY DEF PanelInv, PanelTyped
    <3>2. \A m \in 1..Len(message) : [message[m] EXCEPT !.fresh = FALSE] \in MessageRows
      BY <3>1 DEF MessageRows
    <3>3. message' \in [1..Len(message) -> MessageRows]
      BY ONLY <1>6, <3>1, <3>2
    <3>4. QED BY ONLY <3>1, <3>3, SeqDef
  <2>2. CASE panel = NoRow
    BY <1>3, <1>4, <1>6, <2>1, <2>2
       DEF PanelInv, PanelTyped, PanelStands, Remembers, PostsOnce, Invalidated
  <2>3. CASE panel # NoRow
    <3>0. panel \in PanelRows
      BY <2>3 DEF PanelInv, PanelTyped
    <3>1. /\ panel' \in PanelRows /\ panel' # NoRow
          /\ panel'.generation = panel.generation + 1 /\ panel'.message = NoMessage
      <4>1. panel' = [panel EXCEPT !.generation = @ + 1, !.message = NoMessage, !.cooling = FALSE]
        BY <1>6, <2>3 DEF Invalidated
      <4>2. /\ panel' \in PanelRows
            /\ panel'.generation = panel.generation + 1 /\ panel'.message = NoMessage
        BY ONLY <3>0, <4>1, InvalidatedRow
      <4>3. QED BY <4>2, GroupPanelAssumption
    <3>2. PanelTyped' /\ PanelStands'
      BY <1>3, <1>4, <2>1, <3>1 DEF PanelInv, PanelTyped, PanelStands
    <3>3. ASSUME NEW q \in Queries PROVE Remembers(q)' /\ PostsOnce(q)'
      <4>1. query[q].generation \in Nat /\ panel.generation \in Nat
        BY <3>0 DEF PanelInv, PanelTyped, QueryRows, PanelRows
      <4>2. QED BY <1>3, <3>1, <4>1 DEF PanelInv, Remembers, PostsOnce
    <3>4. QED BY <1>4, <3>2, <3>3 DEF PanelInv
  <2>4. QED BY <2>2, <2>3
<1>7. QED BY <1>1, <1>5, <1>6 DEF AcceptMembership

LEMMA CrashPanelSafe == ASSUME PanelInv, CrashPanel PROVE PanelInv'
<1>1. /\ UNCHANGED << groupVars, panel, posted, message >>
      /\ query' = [q \in Queries |-> IF query[q].at \in {"new", "done"} THEN query[q]
                                     ELSE [Waiting EXCEPT !.at = "error"]]
  BY DEF CrashPanel
<1>2. [Waiting EXCEPT !.at = "error"] \in QueryRows /\ [Waiting EXCEPT !.at = "error"].at = "error"
  BY DEF Waiting, QueryRows, QueryPlaces, NoMessage
<1>3. PanelTyped' /\ PanelStands' /\ Membership'
  BY <1>1, <1>2 DEF PanelInv, PanelTyped, PanelStands, Standing, Membership, LatestObserved, groupVars
<1>4. ASSUME NEW q \in Queries PROVE Remembers(q)' /\ PostsOnce(q)'
  <2>1. query'[q].at \notin {"prepared", "answered"} /\ (query'[q] = query[q] \/ query'[q].at = "error")
    BY <1>1, <1>2
  <2>2. QED BY <1>1, <2>1 DEF PanelInv, Remembers, PostsOnce
<1>5. QED BY <1>3, <1>4 DEF PanelInv

LEMMA EnterQueryPanel == ASSUME PanelInv, NEW q \in Queries, EnterQuery(q) PROVE PanelInv'
<1> DEFINE r == [query[q] EXCEPT !.at = "entered", !.scope = scope]
<1>1. query[q] \in QueryRows /\ query[q].at = "new" /\ scope \in Nat
  BY DEF PanelInv, PanelTyped, EnterQuery
<1>2. r \in QueryRows /\ r.at = "entered"
  BY <1>1 DEF QueryRows, QueryPlaces
<1>3. query' = [query EXCEPT ![q] = r] /\ query'[q] = r
  BY DEF EnterQuery, PanelInv, PanelTyped
<1>4. UNCHANGED << groupVars, panel, posted, message >>
  BY DEF EnterQuery
<1> HIDE DEF r
<1>5. Remembers(q)' /\ PostsOnce(q)'
  BY <1>1, <1>2, <1>3, <1>4 DEF PanelInv, Remembers, PostsOnce
<1>6. QED BY <1>2, <1>3, <1>4, <1>5, SenderMoves DEF PanelInv, PanelTyped

LEMMA PanelBusyPanel == ASSUME PanelInv, NEW q \in Queries, PanelBusy(q) PROVE PanelInv'
<1>1. To(q, "error") /\ UNCHANGED << groupVars, panel, posted, message >>
  BY DEF PanelBusy
<1>2. PICK r \in QueryRows : query' = [query EXCEPT ![q] = r] /\ query'[q] = r /\ r.at = "error"
  BY <1>1, Moved DEF QueryPlaces
<1>3. Remembers(q)' /\ PostsOnce(q)'
  BY <1>1, <1>2 DEF PanelInv, Remembers, PostsOnce
<1>4. QED BY <1>1, <1>2, <1>3, SenderMoves DEF PanelInv, PanelTyped

\* The row a sender takes is for the present identity, has a generation that
\* nobody remembers, and keeps a message only if that message still stands.
LEMMA ClaimedRow ==
  ASSUME PanelInv
  PROVE  /\ Claimed \in PanelRows /\ Claimed.scope = scope
         /\ panel # NoRow => panel \in PanelRows /\ Claimed.generation = panel.generation + 1
         /\ Claimed.message # NoMessage => Standing(scope, Claimed.message)
<1>1. scope \in Nat
  BY DEF PanelInv, PanelTyped
<1>2. FreshRow \in PanelRows /\ FreshRow.scope = scope /\ FreshRow.message = 0
      /\ FreshRow.generation = 0
  BY <1>1 DEF FreshRow, PanelRows, NoMessage
<1> DEFINE line == IF panel = NoRow THEN FreshRow ELSE panel
           mine == [line EXCEPT !.generation = @ + 1]
           other == [FreshRow EXCEPT !.generation = mine.generation]
<1>3. line \in PanelRows /\ (panel # NoRow => line = panel)
      /\ (line.message # 0 => Standing(line.scope, line.message))
  BY <1>2 DEF PanelInv, PanelTyped, PanelStands, NoMessage
<1> HIDE DEF line
<1>4. line.generation + 1 \in Nat
  BY <1>3 DEF PanelRows
<1>5. /\ mine \in PanelRows /\ mine.scope = line.scope /\ mine.message = line.message
      /\ mine.generation = line.generation + 1
  <2>1. mine \in PanelRows
    BY <1>3, <1>4, Zenon DEF PanelRows
  <2>2. QED BY <1>3, <2>1 DEF PanelRows
<1> HIDE DEF mine
<1>6. /\ other \in PanelRows /\ other.scope = scope /\ other.message = 0
      /\ other.generation = line.generation + 1
  <2>1. other \in PanelRows
    BY <1>2, <1>4, <1>5, Zenon DEF PanelRows
  <2>2. QED BY <1>2, <1>5, <2>1 DEF PanelRows
<1> HIDE DEF other
<1>7. Claimed = IF mine.scope = scope THEN mine ELSE other
  BY DEF Claimed, line, mine, other
<1>8. QED BY <1>3, <1>5, <1>6, <1>7 DEF NoMessage

LEMMA PreparePanelSafe == ASSUME PanelInv, NEW q \in Queries, PreparePanel(q) PROVE PanelInv'
<1>1. /\ query[q].at = "entered" /\ query[q] \in QueryRows /\ posted[q] = 0
      /\ UNCHANGED << groupVars, posted, message >>
  BY DEF PreparePanel, PanelInv, PanelTyped, PostsOnce
<1>2. CASE (To(q, "error") \/ To(q, "plain")) /\ UNCHANGED panel
  <2>1. PICK r \in QueryRows : query' = [query EXCEPT ![q] = r] /\ query'[q] = r
                               /\ r.at \in {"error", "plain"}
    BY <1>2, Moved DEF QueryPlaces
  <2>2. Remembers(q)' /\ PostsOnce(q)'
    BY <1>1, <2>1 DEF Remembers, PostsOnce
  <2>3. QED BY <1>1, <1>2, <2>1, <2>2, SenderMoves DEF PanelInv, PanelTyped
<1>3. CASE /\ InScope(q)
           /\ panel' = [Claimed EXCEPT !.cooling = TRUE]
           /\ \E m \in {Claimed.message, NoMessage} :
                query' = [query EXCEPT ![q].at = "prepared",
                            ![q].generation = Claimed.generation, ![q].message = m]
  <2> DEFINE C == Claimed
  <2>1. /\ C \in PanelRows /\ C.scope = scope
        /\ panel # NoRow => panel \in PanelRows /\ C.generation = panel.generation + 1
        /\ C.message # NoMessage => Standing(scope, C.message)
    BY ClaimedRow
  <2>2. panel' = [C EXCEPT !.cooling = TRUE] /\ scope = query[q].scope
    BY <1>3 DEF InScope
  <2>3. PICK m \in {C.message, NoMessage} :
          query' = [query EXCEPT ![q].at = "prepared",
                      ![q].generation = C.generation, ![q].message = m]
    BY <1>3
  <2> HIDE DEF C
  <2>4. panel' \in PanelRows
    BY <2>1, <2>2, Zenon DEF PanelRows
  <2>5. /\ panel'.scope = C.scope /\ panel'.generation = C.generation
        /\ panel'.message = C.message /\ panel' # NoRow
        /\ C.generation \in Nat /\ C.message \in Nat
    BY <2>1, <2>2, <2>4, GroupPanelAssumption DEF PanelRows
  <2> DEFINE r == [query[q] EXCEPT !.at = "prepared", !.generation = C.generation, !.message = m]
  <2>6. r \in QueryRows
    <3>1. m \in Nat /\ "prepared" \in QueryPlaces
      BY <2>3, <2>5 DEF QueryPlaces, NoMessage
    <3>2. QED BY <1>1, <2>5, <3>1, Zenon DEF QueryRows
  <2>7. r.at = "prepared" /\ r.generation = C.generation /\ r.message = m /\ r.scope = scope
    BY <1>1, <2>2 DEF QueryRows
  <2>8. query' = [query EXCEPT ![q] = r]
    BY <2>3 DEF PanelInv, PanelTyped
  <2> HIDE DEF r
  <2>9. query' \in [Queries -> QueryRows] /\ query'[q] = r
        /\ \A p \in Queries : p # q => query'[p] = query[p]
    BY <2>6, <2>8 DEF PanelInv, PanelTyped
  <2>10. \A s, k : Standing(s, k)' = Standing(s, k)
    BY <1>1 DEF Standing
  <2>11. PanelTyped' /\ PanelStands' /\ Membership'
    BY <1>1, <2>1, <2>4, <2>5, <2>9, <2>10
       DEF PanelInv, PanelTyped, PanelStands, Membership, LatestObserved, groupVars
  <2>12. ASSUME NEW p \in Queries PROVE Remembers(p)' /\ PostsOnce(p)'
    <3>1. CASE p = q
      <4>1. Remembers(q)'
        BY <2>1, <2>2, <2>3, <2>5, <2>7, <2>9, <2>10 DEF Remembers
      <4>2. PostsOnce(q)'
        BY <1>1, <2>7, <2>9 DEF PostsOnce
      <4>3. QED BY <3>1, <4>1, <4>2
    <3>2. CASE p # q
      <4>1. Remembers(p) /\ PostsOnce(p) /\ query'[p] = query[p] /\ query[p] \in QueryRows
        BY <2>9, <3>2 DEF PanelInv, PanelTyped
      <4>2. query[p].generation \in Nat
        BY <4>1 DEF QueryRows
      <4>3. panel # NoRow => panel.generation \in Nat
        BY <2>1 DEF PanelRows
      <4>4. QED BY <1>1, <2>1, <2>5, <4>1, <4>2, <4>3 DEF Remembers, PostsOnce
    <3>3. QED BY <3>1, <3>2
  <2>13. QED BY <2>11, <2>12 DEF PanelInv
<1>4. QED BY <1>2, <1>3 DEF PreparePanel, Fail

\* A sender between its transactions: it remembers how the platform answered.
LEMMA Answered ==
  ASSUME PanelInv, NEW q \in Queries, query[q].at = "prepared",
         NEW how \in {"ok", "untracked", "rejected", "uncertain"}, NEW got \in Nat,
         Answer(q, how, got)
  PROVE  \E r \in QueryRows :
           /\ query' = [query EXCEPT ![q] = r]
           /\ query'[q] = r /\ r.at = "answered" /\ r.result = how /\ r.got = got
           /\ r.scope = query[q].scope /\ r.generation = query[q].generation
           /\ r.message = query[q].message
<1> DEFINE r == [query[q] EXCEPT !.at = "answered", !.result = how, !.got = got]
<1>1. query[q] \in QueryRows
  BY DEF PanelInv, PanelTyped
<1>2. r \in QueryRows
  BY <1>1 DEF QueryRows, QueryPlaces
<1>3. /\ r.at = "answered" /\ r.result = how /\ r.got = got /\ r.scope = query[q].scope
      /\ r.generation = query[q].generation /\ r.message = query[q].message
  BY <1>1 DEF QueryRows
<1>4. query' = [query EXCEPT ![q] = r] /\ query'[q] = r
  BY DEF Answer, PanelInv, PanelTyped
<1> HIDE DEF r
<1>5. QED BY <1>2, <1>3, <1>4

LEMMA EditPanelSafe == ASSUME PanelInv, NEW q \in Queries, EditPanel(q) PROVE PanelInv'
<1>1. /\ query[q].at = "prepared" /\ query[q].message # NoMessage
      /\ UNCHANGED << groupVars, panel, posted, message >>
      /\ query[q] \in QueryRows /\ Remembers(q) /\ PostsOnce(q)
  BY DEF EditPanel, PanelInv, PanelTyped
<1>2. PICK how \in {"ok", "rejected", "uncertain"} :
        Answer(q, how, IF how = "ok" THEN query[q].message ELSE NoMessage)
  BY DEF EditPanel
<1> DEFINE got == IF how = "ok" THEN query[q].message ELSE NoMessage
<1>3. got \in Nat /\ got \in {query[q].message, NoMessage} /\ Answer(q, how, got)
  BY <1>1, <1>2 DEF QueryRows, NoMessage
<1> HIDE DEF got
<1>4. PICK r \in QueryRows :
        /\ query' = [query EXCEPT ![q] = r]
        /\ query'[q] = r /\ r.at = "answered" /\ r.result = how /\ r.got = got
        /\ r.scope = query[q].scope /\ r.generation = query[q].generation
        /\ r.message = query[q].message
  BY <1>1, <1>3, Answered
<1>5. \A s, k : Standing(s, k)' = Standing(s, k)
  BY <1>1 DEF Standing
<1>6. Remembers(q)' /\ PostsOnce(q)'
  BY <1>1, <1>3, <1>4, <1>5 DEF Remembers, PostsOnce
<1>7. QED BY <1>1, <1>4, <1>6, SenderMoves DEF PanelInv, PanelTyped

LEMMA PostPanelSafe == ASSUME PanelInv, NEW q \in Queries, PostPanel(q) PROVE PanelInv'
<1> DEFINE id == Len(message) + 1
<1>1. /\ query[q].at = "prepared" /\ query[q].message = NoMessage
      /\ UNCHANGED << groupVars, panel >>
      /\ query[q] \in QueryRows /\ Remembers(q) /\ PostsOnce(q) /\ posted[q] = 0
  BY DEF PostPanel, PanelInv, PanelTyped, PostsOnce
<1>2. PICK how \in {"ok", "untracked", "rejected", "uncertain"} :
        /\ Answer(q, how, IF how = "ok" THEN id ELSE NoMessage)
        /\ posted' = [posted EXCEPT ![q] = @ + (IF how = "rejected" THEN 0 ELSE 1)]
        /\ message' = IF how = "ok"
             THEN Append(message, [scope |-> query[q].scope, fresh |-> TRUE]) ELSE message
  BY DEF PostPanel
<1>3. message \in Seq(MessageRows) /\ id \in Nat \ {0}
      /\ [scope |-> query[q].scope, fresh |-> TRUE] \in MessageRows
  BY <1>1 DEF PanelInv, PanelTyped, MessageRows, QueryRows
<1> DEFINE got == IF how = "ok" THEN id ELSE NoMessage
<1>4. got \in Nat /\ Answer(q, how, got)
  BY <1>2, <1>3 DEF NoMessage
<1>5. got # NoMessage => how = "ok" /\ got = id
  OBVIOUS
<1> HIDE DEF got
<1>6. PICK r \in QueryRows :
        /\ query' = [query EXCEPT ![q] = r]
        /\ query'[q] = r /\ r.at = "answered" /\ r.result = how /\ r.got = got
        /\ r.scope = query[q].scope /\ r.generation = query[q].generation
        /\ r.message = query[q].message
  BY <1>1, <1>4, Answered
<1>7. /\ message' \in Seq(MessageRows)
      /\ \A s, k : Standing(s, k) => Standing(s, k)'
      /\ \A s, k : how = "ok" /\ s = query[q].scope /\ k = id => Standing(s, k)'
  <2>1. CASE how # "ok"
    BY <1>2, <1>3, <2>1 DEF Standing
  <2>2. CASE how = "ok"
    <3> DEFINE e == [scope |-> query[q].scope, fresh |-> TRUE]
    <3>1. message' = Append(message, e) /\ e \in MessageRows
          /\ e.scope = query[q].scope /\ e.fresh
      BY <1>2, <1>3, <2>2
    <3> HIDE DEF e
    <3>2. /\ message' \in Seq(MessageRows) /\ Len(message') = id
          /\ message'[id] = e
          /\ \A k \in 1..Len(message) : message'[k] = message[k]
      BY <1>3, <3>1
    <3>3. Len(message) \in Nat
      BY <1>3
    <3>4. \A s, k : Standing(s, k) => Standing(s, k)'
      BY <3>2, <3>3 DEF Standing
    <3>5. \A s, k : s = query[q].scope /\ k = id => Standing(s, k)'
      BY <3>1, <3>2, <3>3 DEF Standing
    <3>6. QED BY <3>2, <3>4, <3>5
  <2>3. QED BY <2>1, <2>2
<1>8. /\ posted' \in [Queries -> Nat] /\ posted'[q] \in {0, 1}
      /\ posted'[q] # 0 => how # "rejected"
      /\ \A p \in Queries : p # q => posted'[p] = posted[p]
  BY <1>1, <1>2 DEF PanelInv, PanelTyped
<1>9. query' \in [Queries -> QueryRows] /\ \A p \in Queries : p # q => query'[p] = query[p]
  BY <1>6 DEF PanelInv, PanelTyped
<1>10. PanelTyped' /\ PanelStands' /\ Membership'
  BY <1>1, <1>7, <1>8, <1>9
     DEF PanelInv, PanelTyped, PanelStands, Membership, LatestObserved, groupVars
<1>11. Remembers(q)' /\ PostsOnce(q)'
  <2>1. r.got # NoMessage => \A s, k : s = r.scope /\ k = r.got => Standing(s, k)'
    BY <1>5, <1>6, <1>7
  <2>2. Remembers(q)'
    BY <1>1, <1>6, <2>1 DEF Remembers, Standing
  <2>3. PostsOnce(q)'
    BY <1>1, <1>6, <1>8 DEF PostsOnce
  <2>4. QED BY <2>2, <2>3
<1>12. ASSUME NEW p \in Queries, p # q PROVE Remembers(p)' /\ PostsOnce(p)'
  BY <1>1, <1>7, <1>8, <1>9, <1>12 DEF PanelInv, Remembers, PostsOnce
<1>13. QED BY <1>10, <1>11, <1>12 DEF PanelInv

LEMMA RecordedRow ==
  ASSUME NEW q \in Queries, query[q] \in QueryRows, panel \in PanelRows
  PROVE  /\ Recorded(q) \in PanelRows /\ Recorded(q).scope = panel.scope
         /\ Recorded(q).generation = panel.generation
         /\ Recorded(q).message = IF query[q].got # NoMessage THEN query[q].got ELSE NoMessage
<1> DEFINE p == panel
           got == query[q].got
<1>1. p.edits + 1 \in Nat /\ got \in Nat /\ 0 \in Nat /\ p.young \in BOOLEAN
  BY DEF PanelRows, QueryRows
<1> HIDE DEF p, got
<1>2. p \in PanelRows
  BY DEF p
<1>3. ASSUME NEW e \in Nat, NEW y \in BOOLEAN
      PROVE  LET r == [p EXCEPT !.message = got, !.cooling = FALSE, !.edits = e, !.young = y]
             IN  r \in PanelRows /\ r.scope = p.scope /\ r.generation = p.generation
                 /\ r.message = got
  <2> DEFINE r == [p EXCEPT !.message = got, !.cooling = FALSE, !.edits = e, !.young = y]
  <2>1. r \in PanelRows
    BY <1>1, <1>2, Zenon DEF PanelRows
  <2>2. QED BY <1>2, <2>1 DEF PanelRows
<1>4. LET r == [p EXCEPT !.message = 0]
      IN  r \in PanelRows /\ r.scope = p.scope /\ r.generation = p.generation /\ r.message = 0
  <2>1. [p EXCEPT !.message = 0] \in PanelRows
    BY <1>1, <1>2, Zenon DEF PanelRows
  <2>2. QED BY <1>2, <2>1 DEF PanelRows
<1> DEFINE e == IF query[q].message # NoMessage THEN p.edits + 1 ELSE 0
           y == IF query[q].message # NoMessage THEN p.young ELSE TRUE
<1>5. /\ e \in Nat /\ y \in BOOLEAN
      /\ got # NoMessage => Recorded(q) = [p EXCEPT !.message = got, !.cooling = FALSE,
                                                   !.edits = e, !.young = y]
  BY <1>1 DEF Recorded, p, got
<1> HIDE DEF e, y
<1>6. got = NoMessage => Recorded(q) = [p EXCEPT !.message = 0]
  BY DEF Recorded, p, got, NoMessage
<1>7. CASE got # NoMessage
  BY <1>3, <1>5, <1>7 DEF p, got
<1>8. CASE got = NoMessage
  BY <1>4, <1>6, <1>8 DEF p, got, NoMessage
<1>9. QED BY <1>7, <1>8

\* The second transaction: the row is the one that was prepared, so what its
\* sender remembers stands.
LEMMA SettlePanelSafe == ASSUME PanelInv, NEW q \in Queries, SettlePanel(q) PROVE PanelInv'
<1>1. /\ query[q].at = "answered" /\ query[q] \in QueryRows
      /\ UNCHANGED << groupVars, posted, message >>
      /\ Remembers(q) /\ PostsOnce(q)
  BY DEF SettlePanel, PanelInv, PanelTyped
<1>2. PICK at \in {"done", "error", "plain"} :
        To(q, at) /\ (at = "plain" => posted[q] = 0)
  <2>1. CASE Unmoved(q)
    <3>1. To(q, Handled(q)) /\ Handled(q) \in {"done", "error", "plain"}
      BY <2>1 DEF SettlePanel, Handled
    <3>2. Handled(q) = "plain" => posted[q] = 0
      BY <1>1 DEF Handled, PostsOnce
    <3>3. QED BY <3>1, <3>2
  <2>2. CASE ~ Unmoved(q)
    BY <2>2 DEF SettlePanel, Fail
  <2>3. QED BY <2>1, <2>2
<1>3. PICK r \in QueryRows : query' = [query EXCEPT ![q] = r] /\ query'[q] = r /\ r.at = at
  BY <1>2, Moved DEF QueryPlaces
<1>4. Remembers(q)' /\ PostsOnce(q)'
  BY <1>1, <1>2, <1>3 DEF Remembers, PostsOnce
<1>5. CASE UNCHANGED panel
  BY <1>1, <1>3, <1>4, <1>5, SenderMoves DEF PanelInv, PanelTyped
<1>6. CASE Unmoved(q) /\ panel' = Recorded(q)
  <2>1. /\ panel \in PanelRows /\ panel # NoRow /\ panel.scope = query[q].scope
        /\ query[q].got # NoMessage => Standing(panel.scope, query[q].got)
    BY <1>1, <1>6 DEF Unmoved, Remembers, PanelInv, PanelTyped
  <2>2. /\ panel' \in PanelRows /\ panel'.scope = panel.scope
        /\ panel'.generation = panel.generation
        /\ panel'.message = IF query[q].got # NoMessage THEN query[q].got ELSE NoMessage
    BY <1>1, <1>6, <2>1, RecordedRow
  <2>3. panel' # NoRow
    BY <2>2, GroupPanelAssumption
  <2>4. query' \in [Queries -> QueryRows] /\ \A p \in Queries : p # q => query'[p] = query[p]
    BY <1>3 DEF PanelInv, PanelTyped
  <2>5. \A s, k : Standing(s, k)' = Standing(s, k)
    BY <1>1 DEF Standing
  <2>6. PanelTyped' /\ Membership'
    BY <1>1, <2>2, <2>4 DEF PanelInv, PanelTyped, Membership, LatestObserved, groupVars
  <2>7. PanelStands'
    BY <1>1, <2>1, <2>2 DEF PanelStands, Standing
  <2>8. ASSUME NEW p \in Queries, p # q PROVE Remembers(p)' /\ PostsOnce(p)'
    <3>1. Remembers(p) /\ PostsOnce(p) /\ query'[p] = query[p]
      BY <2>4, <2>8 DEF PanelInv
    <3>2. QED BY <1>1, <2>2, <2>3, <3>1 DEF Remembers, PostsOnce, Standing
  <2>9. QED BY <1>4, <2>6, <2>7, <2>8 DEF PanelInv
<1>7. QED BY <1>5, <1>6 DEF SettlePanel

LEMMA PlainReplySafe == ASSUME PanelInv, NEW q \in Queries, PlainReply(q) PROVE PanelInv'
<1>1. /\ query[q].at = "plain" /\ posted[q] = 0
      /\ posted' = [posted EXCEPT ![q] = @ + 1] /\ To(q, "done")
      /\ UNCHANGED << groupVars, panel, message >>
  BY DEF PlainReply, PanelInv, PostsOnce
<1>2. PICK r \in QueryRows : query' = [query EXCEPT ![q] = r] /\ query'[q] = r /\ r.at = "done"
  BY <1>1, Moved DEF QueryPlaces
<1>3. /\ posted' \in [Queries -> Nat] /\ posted'[q] = 1
      /\ \A p \in Queries : p # q => posted'[p] = posted[p]
  BY <1>1 DEF PanelInv, PanelTyped
<1>4. Remembers(q)' /\ PostsOnce(q)'
  BY <1>2, <1>3 DEF Remembers, PostsOnce
<1>5. QED BY <1>1, <1>2, <1>3, <1>4, SenderMoves

LEMMA ClockSafe == ASSUME PanelInv, CooldownEnds \/ PanelAges PROVE PanelInv'
<1>1. UNCHANGED << groupVars, query, posted, message >> /\ panel # NoRow
  BY DEF CooldownEnds, PanelAges
<1>2. panel \in PanelRows
  BY <1>1 DEF PanelInv, PanelTyped
<1>3. panel' \in {[panel EXCEPT !.cooling = FALSE], [panel EXCEPT !.young = FALSE]}
  BY DEF CooldownEnds, PanelAges
<1>4. /\ panel' \in PanelRows /\ panel'.scope = panel.scope
      /\ panel'.generation = panel.generation /\ panel'.message = panel.message
  <2>1. [panel EXCEPT !.cooling = FALSE] \in PanelRows /\ [panel EXCEPT !.young = FALSE] \in PanelRows
    BY <1>2, Zenon DEF PanelRows
  <2>2. QED BY <1>2, <1>3, <2>1 DEF PanelRows
<1>5. QED BY <1>1, <1>4, RowClock

LEMMA PanelStarts == ASSUME GroupPanelInit PROVE PanelInv
<1>1. Waiting \in QueryRows /\ Waiting.at = "new"
  BY DEF Waiting, QueryRows, QueryPlaces, NoMessage
<1>2. QED BY <1>1
  DEF GroupPanelInit, PanelInv, PanelTyped, PanelStands, Membership, LatestObserved,
      Remembers, PostsOnce

LEMMA PanelSteps == ASSUME PanelInv, [GroupPanelNext]_gpVars PROVE PanelInv'
<1>1. ASSUME NEW e \in Events, AcceptMembership(e) PROVE PanelInv'
  BY <1>1, AcceptMembershipPanel
<1>2. CASE ForgetClaims \/ SetOption \/ Rebind \/ StopBot \/ StartBot
  <2>1. scope' \in Nat /\ UNCHANGED << observed, taken, panelVars >>
    BY <1>2 DEF ForgetClaims, SetOption, Rebind, StopBot, StartBot, PanelInv, PanelTyped
  <2>2. QED BY <2>1, OutsideStep
<1>3. CASE CrashPanel
  BY <1>3, CrashPanelSafe
<1>4. CASE CooldownEnds \/ PanelAges
  BY <1>4, ClockSafe
<1>5. ASSUME NEW q \in Queries,
             \/ EnterQuery(q) \/ PanelBusy(q) \/ PreparePanel(q)
             \/ EditPanel(q) \/ PostPanel(q) \/ SettlePanel(q) \/ PlainReply(q)
      PROVE  PanelInv'
  BY <1>5, EnterQueryPanel, PanelBusyPanel, PreparePanelSafe, EditPanelSafe, PostPanelSafe,
     SettlePanelSafe, PlainReplySafe
<1>6. CASE UNCHANGED gpVars
  BY <1>6, OutsideStep DEF gpVars, groupVars, PanelInv, PanelTyped
<1>7. QED BY <1>1, <1>2, <1>3, <1>4, <1>5, <1>6 DEF GroupPanelNext

\* On record is the message of the present binding, in the group is one
\* message to a query, and membership is what the latest event says, whatever
\* is late, repeated, lost or replaced (query_panel.py:70-171,
\* membership.py:76-167).
THEOREM PanelStaysSound == GroupPanelSpec => []PanelIsSound
<1>1. PanelInv => PanelIsSound
  BY DEF PanelInv, PanelStands, PanelIsSound, PanelIsCurrent, Standing, PostedOnce, PostsOnce,
         Membership
<1>2. QED BY <1>1, PanelStarts, PanelSteps, PTL DEF GroupPanelSpec

\* What the bounds of the model and its switches add to PanelTyped.
GroupTyped ==
  /\ scope \in 0..MaxBindings /\ options \subseteq Options /\ up \in BOOLEAN
  /\ claims \subseteq {e.id : e \in Events}
  /\ observed # NoRow => observed.event \in taken
  /\ mutex \in Queries \cup {NoQuery}

LEMMA GroupStepTyped ==
  ASSUME GroupTyped, [GroupPanelNext]_gpVars PROVE GroupTyped'
<1>1. ASSUME NEW e \in Events, AcceptMembership(e) PROVE GroupTyped'
  <2>1. claims' \subseteq {f.id : f \in Events}
    BY <1>1 DEF AcceptMembership, GroupTyped
  <2>2. observed' # NoRow => observed'.event \in taken'
    BY <1>1 DEF AcceptMembership, GroupTyped
  <2>3. QED BY <1>1, <2>1, <2>2 DEF AcceptMembership, GroupTyped
<1>2. CASE ForgetClaims \/ StopBot \/ StartBot
  BY <1>2 DEF ForgetClaims, StopBot, StartBot, panelVars, GroupTyped
<1>3. CASE SetOption
  <2>1. options' \subseteq Options
    BY <1>3, GroupPanelAssumption DEF SetOption, GroupTyped, Options
  <2>2. QED BY <1>3, <2>1 DEF SetOption, panelVars, GroupTyped
<1>4. CASE Rebind
  <2>1. scope' \in 0..MaxBindings
    BY <1>4, GroupPanelAssumption DEF Rebind, GroupTyped
  <2>2. QED BY <1>4, <2>1 DEF Rebind, panelVars, GroupTyped
<1>5. CASE CrashPanel \/ CooldownEnds \/ PanelAges
  BY <1>5 DEF CrashPanel, CooldownEnds, PanelAges, groupVars, GroupTyped
<1>6. ASSUME NEW q \in Queries, EnterQuery(q) \/ PanelBusy(q) \/ PreparePanel(q) PROVE GroupTyped'
  <2>1. mutex' \in Queries \cup {NoQuery}
    BY <1>6 DEF EnterQuery, PanelBusy, PreparePanel, Fail, GroupTyped
  <2>2. UNCHANGED groupVars
    BY <1>6 DEF EnterQuery, PanelBusy, PreparePanel
  <2>3. QED BY <2>1, <2>2 DEF groupVars, GroupTyped
<1>7. ASSUME NEW q \in Queries, EditPanel(q) \/ PostPanel(q) \/ SettlePanel(q) \/ PlainReply(q) PROVE GroupTyped'
  <2>1. mutex' \in Queries \cup {NoQuery}
    BY <1>7 DEF EditPanel, PostPanel, SettlePanel, PlainReply, Fail, GroupTyped
  <2>2. UNCHANGED groupVars
    BY <1>7 DEF EditPanel, PostPanel, SettlePanel, PlainReply
  <2>3. QED BY <2>1, <2>2 DEF groupVars, GroupTyped
<1>8. CASE UNCHANGED gpVars
  BY <1>8 DEF gpVars, groupVars, panelVars, GroupTyped
<1>9. QED
  BY <1>1, <1>2, <1>3, <1>4, <1>5, <1>6, <1>7, <1>8 DEF GroupPanelNext

LEMMA GroupStartsTyped == ASSUME GroupPanelInit PROVE GroupTyped
BY GroupPanelAssumption DEF GroupPanelInit, GroupTyped

LEMMA GroupTypes == ASSUME PanelInv, GroupTyped PROVE GroupPanelTypeOK
<1>1. claims \subseteq {e.id : e \in Events} /\ taken \subseteq Events
  BY DEF GroupTyped, PanelInv, PanelTyped
<1>2. panel # NoRow => panel.message \in 0..Len(message)
  <2>1. ASSUME panel # NoRow PROVE panel.message \in Nat
    BY <2>1 DEF PanelInv, PanelTyped, PanelRows
  <2>2. Len(message) \in Nat
    BY DEF PanelInv, PanelTyped
  <2>3. ASSUME panel # NoRow, panel.message # NoMessage PROVE panel.message \in 1..Len(message)
    BY <2>3 DEF PanelInv, PanelStands, Standing
  <2>4. QED BY <2>1, <2>2, <2>3 DEF NoMessage
<1>3. QED BY <1>1, <1>2 DEF GroupTyped, GroupPanelTypeOK

\* Claims, membership, the panel on record and the queries have their types
\* (feishu/membership.py, query_panel.py).
THEOREM GroupTypesHold == GroupPanelSpec => []GroupPanelTypeOK
<1>1. GroupPanelInit => PanelInv /\ GroupTyped
  BY PanelStarts, GroupStartsTyped
<1>2. PanelInv /\ GroupTyped /\ [GroupPanelNext]_gpVars => (PanelInv /\ GroupTyped)'
  BY PanelSteps, GroupStepTyped
<1>3. PanelInv /\ GroupTyped => GroupPanelTypeOK
  BY GroupTypes
<1>4. QED BY <1>1, <1>2, <1>3, PTL DEF GroupPanelSpec

-----------------------------------------------------------------------------
(* FeishuIngress *)

ClaimRows ==
  [state : {"claimed", "refused", "unavailable", "ended"}, bot : RoutedBots, revision : Nat]
    \cup {NoClaim}
MessageJobs == [message : Messages, revision : Nat, at : {"queued", "admit", "executed"}]
BindingRows == [revision : Nat, deleted : BOOLEAN]

MessagesTyped ==
  /\ route \in [Chats -> RoutedBots \cup {NoBot}] /\ group \in [Messages -> Chats]
  /\ row \in [RoutedBots -> BindingRows]
  /\ DOMAIN instance = RoutedBots /\ DOMAIN runs = Messages /\ DOMAIN wire = Messages
  /\ claim \in [Messages -> ClaimRows]
  /\ work \subseteq MessageJobs

\* The platform may still get the message accepted.
Acceptable(m) == wire[m] = "unwritten" \/ (wire[m] = "fresh" /\ app.present /\ ~ Claims(m))

\* What one message has come to: nothing while it may still be accepted, one
\* job, and one run, of the identity its claim names.
MessageSound(m) ==
  /\ Acceptable(m) => runs[m] = {} /\ \A j \in work : j.message # m
  /\ \A j, k \in work : j.message = m /\ k.message = m => j = k
  /\ \A j \in work : j.message = m =>
       /\ runs[m] # {} => j.at = "executed"
       /\ Claims(m) => j.revision = claim[m].revision
  /\ \/ runs[m] = {}
     \/ \E r : /\ runs[m] = {r}
               /\ Claims(m) => /\ r.bot = claim[m].bot
                               /\ r.of = [revision |-> claim[m].revision, deleted |-> FALSE]

\* An instance has the identity its row has.
InstanceSound(b) ==
  instance[b] # Idle => instance[b].revision = row[b].revision /\ ~ row[b].deleted

MessagesInv ==
  /\ MessagesTyped
  /\ \A m \in Messages : MessageSound(m)
  /\ \A b \in RoutedBots : InstanceSound(b)

Changes ==
  [at : {"none"}] \cup [at : {"stop", "commit"}, what : {"rotate", "delete"}, expect : Nat]

\* The receiver's secret is the application's as long as it may receive, and
\* an application is changed with its receiver stopped.
ReceiverInv ==
  /\ app \in [present : BOOLEAN, secret : Nat]
  /\ receiver \in [at : {"stopped", "starting", "running", "retrying"}, secret : Nat]
  /\ change \in Changes
  /\ change.at # "none" => app.present
  /\ change.at = "commit" => receiver.at = "stopped"
  /\ receiver.at \in {"starting", "running"} => app.present /\ receiver.secret = app.secret

LEMMA ReceiverStep == ASSUME ReceiverInv, [IngressNext]_ingressVars PROVE ReceiverInv'
<1>1. CASE UNCHANGED << app, receiver, change >>
  BY <1>1 DEF ReceiverInv
<1>2. CASE Connect
  BY <1>2 DEF Connect, ReceiverInv
<1>3. CASE Handshake
  BY <1>3 DEF Handshake, ReceiverInv
<1>4. CASE ReceiverFails
  BY <1>4 DEF ReceiverFails, ReceiverInv
<1>5. CASE Retry
  BY <1>5 DEF Retry, ReceiverInv
<1>6. CASE BeginChange
  <2>1. app \in [present : BOOLEAN, secret : Nat]
    BY DEF ReceiverInv
  <2>2. change' \in Changes /\ change'.at = "stop" /\ app.present
    BY <1>6, <2>1 DEF BeginChange, Changes
  <2>3. QED BY <1>6, <2>2 DEF BeginChange, ReceiverInv
<1>7. CASE StopReceiver
  <2>1. app.present /\ change \in [at : {"stop", "commit"}, what : {"rotate", "delete"}, expect : Nat]
    BY <1>7 DEF StopReceiver, ReceiverInv, Changes
  <2>2. [change EXCEPT !.at = "commit"] \in Changes /\ [at |-> "none"] \in Changes
    BY <2>1 DEF Changes
  <2>3. change' \in Changes
    BY <1>7, <2>2 DEF StopReceiver
  <2>4. receiver' = [receiver EXCEPT !.at = "stopped"] /\ UNCHANGED app
    BY <1>7 DEF StopReceiver
  <2>5. QED BY <2>1, <2>3, <2>4 DEF ReceiverInv
<1>8. CASE CommitChange
  <2>1. /\ app.present /\ receiver.at = "stopped" /\ app.secret \in Nat /\ receiver.secret \in Nat
        /\ app.secret + 1 \in Nat /\ app \in [present : BOOLEAN, secret : Nat]
        /\ receiver \in [at : {"stopped", "starting", "running", "retrying"}, secret : Nat]
    BY <1>8 DEF CommitChange, ReceiverInv
  <2>2. change' \in Changes /\ change'.at = "none"
    BY <1>8 DEF CommitChange, Changes
  <2>3. CASE app' = [app EXCEPT !.secret = @ + 1]
             /\ receiver' = [at |-> "starting", secret |-> app.secret + 1]
    BY <2>1, <2>2, <2>3 DEF ReceiverInv
  <2>4. CASE app' = [app EXCEPT !.present = FALSE] /\ UNCHANGED receiver
    BY <2>1, <2>2, <2>4 DEF ReceiverInv
  <2>5. CASE receiver' = [at |-> "starting", secret |-> app.secret] /\ UNCHANGED app
    BY <2>1, <2>2, <2>5 DEF ReceiverInv
  <2>6. QED BY <1>8, <2>3, <2>4, <2>5 DEF CommitChange
<1>9. CASE IngressCrash
  BY <1>9 DEF IngressCrash, ReceiverInv, Changes
<1>10. QED
  <2>1. ASSUME NEW m \in Messages, Write(m) \/ Age(m) \/ PruneClaim(m) \/ AcceptEvent(m) \/ Hint(m)
        PROVE  UNCHANGED << app, receiver, change >>
    BY <2>1 DEF Write, Age, PruneClaim, AcceptEvent, Hint
  <2>2. ASSUME NEW j \in work, Recheck(j) \/ Execute(j) \/ LoseClaim(j) \/ Settle(j)
        PROVE  UNCHANGED << app, receiver, change >>
    BY <2>2 DEF Recheck, Execute, LoseClaim, Settle
  <2>3. ASSUME NEW b \in RoutedBots,
               \/ StartInstance(b) \/ NewIdentity(b) \/ DeleteRouted(b)
               \/ \E c \in Chats : CreateRoute(b, c)
        PROVE  UNCHANGED << app, receiver, change >>
    BY <2>3 DEF StartInstance, NewIdentity, DeleteRouted, CreateRoute
  <2>4. QED BY <1>1, <1>2, <1>3, <1>4, <1>5, <1>6, <1>7, <1>8, <1>9, <2>1, <2>2, <2>3
            DEF IngressNext, ingressVars

\* A step about one message.
LEMMA OneMessage ==
  ASSUME MessagesInv, NEW m \in Messages, MessagesTyped',
         UNCHANGED << row, instance >>, app'.present => app.present,
         \A k \in Messages : k # m => /\ wire'[k] = wire[k] /\ claim'[k] = claim[k]
                                      /\ runs'[k] = runs[k],
         \A j : j.message # m => (j \in work' <=> j \in work),
         MessageSound(m)'
  PROVE  MessagesInv'
<1>1. ASSUME NEW k \in Messages, k # m PROVE MessageSound(k)'
  <2>1. MessageSound(k) /\ (Acceptable(k)' => Acceptable(k)) /\ (Claims(k)' <=> Claims(k))
    BY <1>1 DEF MessagesInv, Acceptable, Claims
  <2>2. claim'[k] = claim[k] /\ runs'[k] = runs[k] /\ \A j : j.message = k => (j \in work' <=> j \in work)
    BY <1>1
  <2>3. QED BY ONLY <2>1, <2>2 DEF MessageSound
<1>2. \A b \in RoutedBots : InstanceSound(b)'
  BY DEF MessagesInv, InstanceSound
<1>3. QED BY <1>1, <1>2 DEF MessagesInv

\* A step about bots and routes.
LEMMA BotStep ==
  ASSUME MessagesInv, UNCHANGED << app, group, wire, claim, work, runs >>,
         route' \in [Chats -> RoutedBots \cup {NoBot}], row' \in [RoutedBots -> BindingRows],
         DOMAIN instance' = RoutedBots, \A b \in RoutedBots : InstanceSound(b)'
  PROVE  MessagesInv'
BY DEF MessagesInv, MessagesTyped, MessageSound, Acceptable, Claims

LEMMA ClaimFacts ==
  ASSUME MessagesTyped, NEW m \in Messages
  PROVE  /\ NoClaim \in ClaimRows /\ NoClaim.state = "none"
         /\ Claims(m) => claim[m] \in [state : {"claimed", "refused", "unavailable", "ended"},
                                       bot : RoutedBots, revision : Nat]
         /\ Claims(m) <=> claim[m] # NoClaim
BY DEF MessagesTyped, ClaimRows, NoClaim, Claims

\* A claim that ends keeps the bot and the identity it is for.
LEMMA ClaimEnds ==
  ASSUME MessagesTyped, NEW m \in Messages, Claims(m), NEW how \in {"refused", "unavailable", "ended"},
         claim' = [claim EXCEPT ![m].state = how]
  PROVE  /\ claim' \in [Messages -> ClaimRows] /\ Claims(m)'
         /\ claim'[m].bot = claim[m].bot /\ claim'[m].revision = claim[m].revision
         /\ \A k \in Messages : k # m => claim'[k] = claim[k]
<1> DEFINE c == [claim[m] EXCEPT !.state = how]
<1>1. c \in ClaimRows /\ c.state = how /\ c.bot = claim[m].bot /\ c.revision = claim[m].revision
  BY ClaimFacts DEF ClaimRows
<1>2. claim' = [claim EXCEPT ![m] = c]
  BY DEF MessagesTyped
<1> HIDE DEF c
<1>3. QED BY <1>1, <1>2 DEF MessagesTyped, Claims

LEMMA WriteSound == ASSUME MessagesInv, NEW m \in Messages, Write(m) PROVE MessagesInv'
<1>1. wire' = [wire EXCEPT ![m] = "fresh"] /\ wire[m] = "unwritten"
      /\ UNCHANGED << app, route, row, instance, group, claim, work, runs >>
  BY DEF Write
<1>2. MessageSound(m)' /\ MessagesTyped'
  BY <1>1 DEF MessagesInv, MessagesTyped, MessageSound, Acceptable, Claims
<1>3. QED BY <1>1, <1>2, OneMessage DEF MessagesInv, MessagesTyped

LEMMA AgeSound == ASSUME MessagesInv, NEW m \in Messages, Age(m) PROVE MessagesInv'
<1>1. wire' = [wire EXCEPT ![m] = "stale"]
      /\ UNCHANGED << app, route, row, instance, group, claim, work, runs >>
  BY DEF Age
<1>2. MessageSound(m)' /\ MessagesTyped'
  BY <1>1 DEF MessagesInv, MessagesTyped, MessageSound, Acceptable, Claims
<1>3. QED BY <1>1, <1>2, OneMessage DEF MessagesInv, MessagesTyped

LEMMA PruneClaimSound == ASSUME MessagesInv, NEW m \in Messages, PruneClaim(m) PROVE MessagesInv'
<1>1. claim' = [claim EXCEPT ![m] = NoClaim] /\ wire[m] = "stale"
      /\ UNCHANGED << app, route, row, instance, group, wire, work, runs >>
  BY DEF PruneClaim
<1>2. NoClaim \in ClaimRows /\ NoClaim.state = "none"
  BY DEF ClaimRows, NoClaim
<1>3. MessageSound(m)' /\ MessagesTyped'
  BY <1>1, <1>2 DEF MessagesInv, MessagesTyped, MessageSound, Acceptable, Claims
<1>4. QED BY <1>1, <1>3, OneMessage DEF MessagesInv, MessagesTyped

LEMMA AcceptEventSound == ASSUME MessagesInv, NEW m \in Messages, AcceptEvent(m) PROVE MessagesInv'
<1> DEFINE b == route[group[m]]
           c == [state |-> "claimed", bot |-> b, revision |-> row[b].revision]
           j == [message |-> m, revision |-> row[b].revision, at |-> "queued"]
<1>1. /\ claim' = [claim EXCEPT ![m] = c] /\ work' = work \cup {j}
      /\ wire[m] = "fresh" /\ app.present /\ ~ Claims(m) /\ b # NoBot
      /\ UNCHANGED << app, route, row, instance, group, wire, runs >>
  BY DEF AcceptEvent
<1>2. b \in RoutedBots /\ row[b].revision \in Nat
  BY <1>1 DEF MessagesInv, MessagesTyped, BindingRows
<1>3. /\ c \in ClaimRows /\ c.state = "claimed" /\ c.bot = b /\ c.revision = row[b].revision
      /\ j \in MessageJobs /\ j.message = m /\ j.revision = row[b].revision
  BY <1>2 DEF ClaimRows, MessageJobs
<1> HIDE DEF b, c, j
<1>4. MessagesTyped' /\ claim'[m] = c
  BY <1>1, <1>3 DEF MessagesInv, MessagesTyped
<1>5. runs[m] = {} /\ \A k \in work : k.message # m
  BY <1>1 DEF MessagesInv, MessageSound, Acceptable
<1>6. MessageSound(m)'
  BY <1>1, <1>3, <1>4, <1>5 DEF MessageSound, Acceptable, Claims
<1>7. QED BY <1>1, <1>3, <1>4, <1>6, OneMessage DEF MessagesInv, MessagesTyped

LEMMA RecheckSound == ASSUME MessagesInv, NEW j \in work, Recheck(j) PROVE MessagesInv'
<1> DEFINE m == j.message
           k == [j EXCEPT !.at = "admit"]
<1>1. m \in Messages /\ j \in MessageJobs /\ MessageSound(m) /\ MessagesTyped
  BY DEF MessagesInv, MessagesTyped, MessageJobs
<1>2. k \in MessageJobs /\ k.message = m /\ k.revision = j.revision /\ k.at = "admit"
  BY <1>1 DEF MessageJobs
<1>3. j.at = "queued" /\ UNCHANGED << app, route, row, instance, group, wire, runs >>
  BY DEF Recheck
<1>4. ~ Acceptable(m) /\ runs[m] = {} /\ \A i \in work : i.message = m => i = j
  BY <1>1, <1>3 DEF MessageSound
<1> HIDE DEF m, k
<1>5. CASE work' = (work \ {j}) \cup {k} /\ UNCHANGED claim
  <2>1. MessagesTyped'
    BY <1>1, <1>2, <1>3, <1>5 DEF MessagesTyped
  <2>2. MessageSound(m)'
    BY <1>1, <1>2, <1>3, <1>4, <1>5 DEF MessageSound, Acceptable, Claims, m
  <2>3. QED BY <1>1, <1>2, <1>3, <1>5, <2>1, <2>2, OneMessage DEF m
<1>6. CASE work' = work \ {j} /\ (Claims(m)' <=> Claims(m)) /\ claim' \in [Messages -> ClaimRows]
           /\ \A i \in Messages : i # m => claim'[i] = claim[i]
  <2>1. MessagesTyped'
    BY <1>1, <1>3, <1>6 DEF MessagesTyped
  <2>2. MessageSound(m)'
    BY <1>1, <1>3, <1>4, <1>6 DEF MessageSound, Acceptable, m
  <2>3. QED BY <1>1, <1>3, <1>6, <2>1, <2>2, OneMessage DEF m
<1>7. CASE work' = work \ {j} /\ claim' = IF claim[m].state = "none" THEN claim
                                           ELSE [claim EXCEPT ![m].state = "refused"]
  <2>1. (Claims(m)' <=> Claims(m)) /\ claim' \in [Messages -> ClaimRows]
           /\ \A i \in Messages : i # m => claim'[i] = claim[i]
    BY <1>1, <1>7, ClaimEnds DEF Claims, MessagesTyped
  <2>2. QED BY <1>6, <1>7, <2>1
<1>8. QED BY <1>5, <1>7 DEF Recheck, m, k

LEMMA ExecuteSound == ASSUME MessagesInv, NEW j \in work, Execute(j) PROVE MessagesInv'
<1> DEFINE m == j.message
           b == claim[m].bot
           k == [j EXCEPT !.at = "executed"]
           r == [bot |-> b, of |-> row[b], n |-> Cardinality(runs[m])]
<1>1. /\ m \in Messages /\ j \in MessageJobs /\ MessageSound(m) /\ MessagesTyped
      /\ j.at = "admit" /\ Claims(m) /\ UNCHANGED << app, route, row, instance, group, wire >>
  BY DEF MessagesInv, MessagesTyped, MessageJobs, Execute
<1>2. k \in MessageJobs /\ k.message = m /\ k.revision = j.revision /\ k.at = "executed"
  BY <1>1 DEF MessageJobs
<1>3. /\ ~ Acceptable(m) /\ runs[m] = {} /\ \A i \in work : i.message = m => i = j
      /\ j.revision = claim[m].revision
  BY <1>1 DEF MessageSound
<1>4. b \in RoutedBots /\ claim[m].revision \in Nat
  BY <1>1, ClaimFacts
<1>5. r.bot = b /\ r.of = row[b]
  OBVIOUS
<1>6. instance[b] # Idle /\ instance[b].revision = j.revision
        => row[b] = [revision |-> claim[m].revision, deleted |-> FALSE]
  <2>1. instance[b] # Idle /\ instance[b].revision = j.revision
          => row[b].revision = claim[m].revision /\ row[b].deleted = FALSE
    BY <1>1, <1>3, <1>4 DEF MessagesInv, InstanceSound, MessagesTyped, BindingRows
  <2>2. row[b] \in BindingRows
    BY <1>1, <1>4 DEF MessagesTyped
  <2>3. QED BY <2>1, <2>2 DEF BindingRows
<1>7. \/ /\ instance[b] # Idle /\ instance[b].revision = j.revision
         /\ work' = (work \ {j}) \cup {k}
         /\ runs' = [runs EXCEPT ![m] = @ \cup {r}]
         /\ UNCHANGED claim
      \/ /\ work' = work \ {j}
         /\ claim' = [claim EXCEPT ![m].state = "unavailable"]
         /\ UNCHANGED runs
  BY DEF Execute
<1> HIDE DEF m, k, b, r
<1>8. CASE /\ instance[b] # Idle /\ instance[b].revision = j.revision
           /\ work' = (work \ {j}) \cup {k}
           /\ runs' = [runs EXCEPT ![m] = @ \cup {r}]
           /\ UNCHANGED claim
  <2>1. MessagesTyped'
    BY <1>1, <1>2, <1>8 DEF MessagesTyped
  <2>2. runs'[m] = {r} /\ \A i \in Messages : i # m => runs'[i] = runs[i]
    BY <1>1, <1>3, <1>8 DEF MessagesTyped
  <2>3. r.bot = claim[m].bot /\ r.of = [revision |-> claim[m].revision, deleted |-> FALSE]
    BY <1>5, <1>6, <1>8 DEF b
  <2>4. ~ Acceptable(m)' /\ claim' = claim
    BY <1>1, <1>3, <1>8 DEF Acceptable, Claims, m
  <2>5. \A i \in work' : i.message = m => i = k
    BY <1>3, <1>8
  <2>6. MessageSound(m)'
    BY <1>2, <1>3, <2>2, <2>3, <2>4, <2>5 DEF MessageSound, m
  <2>7. \A i : i.message # m => (i \in work' <=> i \in work)
    BY <1>2, <1>8 DEF m
  <2>8. QED BY <1>1, <2>1, <2>2, <2>4, <2>6, <2>7, OneMessage DEF m
<1>9. CASE /\ work' = work \ {j}
           /\ claim' = [claim EXCEPT ![m].state = "unavailable"]
           /\ UNCHANGED runs
  <2>1. Claims(m)' /\ claim' \in [Messages -> ClaimRows] /\ \A i \in Messages : i # m => claim'[i] = claim[i]
    BY <1>1, <1>9, ClaimEnds
  <2>2. MessagesTyped'
    BY <1>1, <1>9, <2>1 DEF MessagesTyped
  <2>3. MessageSound(m)'
    BY <1>1, <1>3, <1>9, <2>1 DEF MessageSound, Acceptable, m
  <2>4. QED BY <1>1, <1>9, <2>1, <2>2, <2>3, OneMessage DEF m
<1>10. QED BY <1>7, <1>8, <1>9

LEMMA MessageJobEnds ==
  ASSUME MessagesInv, NEW j \in work, work' = work \ {j},
         UNCHANGED << app, route, row, instance, group, wire, runs >>,
         \/ UNCHANGED claim
         \/ Claims(j.message) /\ claim' = [claim EXCEPT ![j.message].state = "ended"]
  PROVE  MessagesInv'
<1> DEFINE m == j.message
<1>1. m \in Messages /\ j \in MessageJobs /\ MessageSound(m) /\ MessagesTyped
  BY DEF MessagesInv, MessagesTyped, MessageJobs
<1>2. /\ ~ Acceptable(m) /\ \A i \in work : i.message = m => i = j
  BY <1>1 DEF MessageSound
<1>3. /\ (Claims(m)' <=> Claims(m)) /\ claim' \in [Messages -> ClaimRows]
      /\ Claims(m) => claim'[m].bot = claim[m].bot /\ claim'[m].revision = claim[m].revision
      /\ \A i \in Messages : i # m => claim'[i] = claim[i]
  <2>1. CASE UNCHANGED claim
    BY <1>1, <2>1 DEF Claims, MessagesTyped
  <2>2. CASE Claims(m) /\ claim' = [claim EXCEPT ![m].state = "ended"]
    BY <1>1, <2>2, ClaimEnds
  <2>3. QED BY <2>1, <2>2
<1>4. MessagesTyped'
  BY <1>1, <1>3 DEF MessagesTyped
<1> HIDE DEF m
<1>5. ~ Acceptable(m)' /\ \A i \in work' : i.message # m
  BY <1>2, <1>3 DEF Acceptable, m
<1>6. MessageSound(m)'
  BY <1>1, <1>3, <1>5 DEF MessageSound, m
<1>7. QED BY <1>1, <1>3, <1>4, <1>6, OneMessage DEF m

LEMMA BotStepSound ==
  ASSUME MessagesInv, NEW b \in RoutedBots,
         \/ StartInstance(b) \/ NewIdentity(b) \/ DeleteRouted(b)
         \/ \E c \in Chats : CreateRoute(b, c)
  PROVE  MessagesInv'
<1>1. /\ MessagesTyped /\ row[b] \in BindingRows /\ row[b].revision \in Nat
      /\ \A a \in RoutedBots : InstanceSound(a)
  BY DEF MessagesInv, MessagesTyped, BindingRows
<1>2. CASE StartInstance(b)
  <2>1. PICK c \in Chats : instance' = [instance EXCEPT ![b] = [revision |-> row[b].revision, chat |-> c]]
    BY <1>2 DEF StartInstance
  <2>2. \A a \in RoutedBots : InstanceSound(a)'
    BY <1>1, <1>2, <2>1 DEF StartInstance, InstanceSound, MessagesTyped
  <2>3. QED BY <1>1, <1>2, <2>1, <2>2, BotStep DEF StartInstance, MessagesTyped
<1>3. CASE NewIdentity(b)
  <2> DEFINE r == [row[b] EXCEPT !.revision = @ + 1]
  <2>1. r \in BindingRows
    BY <1>1 DEF BindingRows
  <2>2. row' = [row EXCEPT ![b] = r]
    BY <1>1, <1>3 DEF NewIdentity, MessagesTyped
  <2> HIDE DEF r
  <2>3. instance' = [instance EXCEPT ![b] = Idle]
    BY <1>3 DEF NewIdentity
  <2>4. \A a \in RoutedBots : InstanceSound(a)'
    BY <1>1, <2>2, <2>3 DEF InstanceSound, MessagesTyped
  <2>5. QED BY <1>1, <1>3, <2>1, <2>2, <2>3, <2>4, BotStep DEF NewIdentity, MessagesTyped
<1>4. CASE DeleteRouted(b)
  <2> DEFINE r == [row[b] EXCEPT !.deleted = TRUE]
  <2>1. r \in BindingRows
    BY <1>1 DEF BindingRows
  <2>2. row' = [row EXCEPT ![b] = r]
    BY <1>1, <1>4 DEF DeleteRouted, MessagesTyped
  <2> HIDE DEF r
  <2>3. instance' = [instance EXCEPT ![b] = Idle]
    BY <1>4 DEF DeleteRouted
  <2>4. \A a \in RoutedBots : InstanceSound(a)'
    BY <1>1, <2>2, <2>3 DEF InstanceSound, MessagesTyped
  <2>5. route' \in [Chats -> RoutedBots \cup {NoBot}]
    BY <1>1, <1>4 DEF DeleteRouted, MessagesTyped
  <2>6. QED BY <1>1, <1>4, <2>1, <2>2, <2>3, <2>4, <2>5, BotStep DEF DeleteRouted, MessagesTyped
<1>5. ASSUME NEW c \in Chats, CreateRoute(b, c) PROVE MessagesInv'
  <2>1. \A a \in RoutedBots : InstanceSound(a)'
    BY <1>1, <1>5 DEF CreateRoute, InstanceSound
  <2>2. QED BY <1>1, <1>5, <2>1, BotStep DEF CreateRoute, MessagesTyped
<1>6. QED BY <1>2, <1>3, <1>4, <1>5

LEMMA MessagesStep ==
  ASSUME MessagesInv, ReceiverInv, [IngressNext]_ingressVars
  PROVE  MessagesInv'
<1>1. ASSUME UNCHANGED << route, row, instance, group, wire, claim, work, runs >>,
             app'.present => app.present
      PROVE  MessagesInv'
  <2>1. \A m \in Messages : (Claims(m)' <=> Claims(m)) /\ (Acceptable(m)' => Acceptable(m))
    BY <1>1 DEF Acceptable, Claims
  <2>2. \A m \in Messages : MessageSound(m)'
    BY <1>1, <2>1 DEF MessagesInv, MessageSound
  <2>3. MessagesTyped' /\ \A b \in RoutedBots : InstanceSound(b)'
    BY <1>1 DEF MessagesInv, MessagesTyped, InstanceSound
  <2>4. QED BY <2>2, <2>3 DEF MessagesInv
<1>2. ASSUME NEW m \in Messages, Write(m) \/ Age(m) \/ PruneClaim(m) \/ AcceptEvent(m)
      PROVE  MessagesInv'
  BY <1>2, WriteSound, AgeSound, PruneClaimSound, AcceptEventSound
<1>3. ASSUME NEW m \in Messages, Hint(m) PROVE MessagesInv'
  BY <1>1, <1>3 DEF Hint
<1>4. ASSUME NEW j \in work, Recheck(j) \/ Execute(j) PROVE MessagesInv'
  BY <1>4, RecheckSound, ExecuteSound
<1>5. ASSUME NEW j \in work, LoseClaim(j) \/ Settle(j) PROVE MessagesInv'
  BY <1>5, MessageJobEnds DEF LoseClaim, Settle
<1>6. CASE Connect \/ Handshake \/ ReceiverFails \/ Retry \/ BeginChange \/ StopReceiver
  BY <1>1, <1>6 DEF Connect, Handshake, ReceiverFails, Retry, BeginChange, StopReceiver
<1>7. CASE CommitChange
  <2>1. UNCHANGED << route, row, instance, group, wire, work, runs >>
    BY <1>7 DEF CommitChange
  <2>2. CASE claim' = claim /\ app' \in {app, [app EXCEPT !.secret = @ + 1]}
    BY <1>1, <2>1, <2>2 DEF ReceiverInv
  <2>3. CASE app' = [app EXCEPT !.present = FALSE] /\ claim' = [m \in Messages |-> NoClaim]
    <3>1. ~ app'.present
      BY <2>3 DEF ReceiverInv
    <3>2. MessagesTyped' /\ \A m \in Messages : ~ Claims(m)'
      BY <2>1, <2>3 DEF MessagesInv, MessagesTyped, ClaimRows, NoClaim, Claims
    <3>3. QED BY <2>1, <3>1, <3>2 DEF MessagesInv, MessageSound, InstanceSound, Acceptable
  <2>4. QED BY <1>7, <2>2, <2>3 DEF CommitChange
<1>8. CASE IngressCrash
  <2>1. /\ instance' = [b \in RoutedBots |-> Idle] /\ work' = {}
        /\ UNCHANGED << app, route, row, group, wire, claim, runs >>
    BY <1>8 DEF IngressCrash
  <2>2. QED BY <2>1 DEF MessagesInv, MessagesTyped, MessageSound, InstanceSound, Acceptable, Claims
<1>9. CASE UNCHANGED ingressVars
  BY <1>1, <1>9 DEF ingressVars
<1>10. QED BY <1>2, <1>3, <1>4, <1>5, <1>6, <1>7, <1>8, <1>9, BotStepSound DEF IngressNext

LEMMA IngressStarts == ASSUME IngressInit PROVE ReceiverInv /\ MessagesInv
<1>1. ReceiverInv
  BY DEF IngressInit, ReceiverInv, Changes
<1>2. route \in [Chats -> RoutedBots \cup {NoBot}]
  BY DEF IngressInit
<1>3. NoClaim \in ClaimRows /\ [revision |-> 0, deleted |-> FALSE] \in BindingRows
  BY DEF ClaimRows, BindingRows
<1>4. MessagesTyped
  BY <1>2, <1>3 DEF IngressInit, MessagesTyped
<1>5. \A m \in Messages : MessageSound(m)
  BY DEF IngressInit, MessageSound
<1>6. \A b \in RoutedBots : InstanceSound(b)
  BY DEF IngressInit, InstanceSound
<1>7. QED BY <1>1, <1>4, <1>5, <1>6 DEF MessagesInv

\* From the platform to a command: received with the application's present
\* secret, executed once, for the identity it was accepted for, whatever is
\* delivered again, replaced, changed or crashed before its turn
\* (feishu/router.py:151-225, 453-605, connectors.py:63-69, 179-213).
THEOREM IngressStaysSound == IngressSpec => []IngressIsSound
<1>1. ReceiverInv /\ MessagesInv => IngressIsSound
  <2> SUFFICES ASSUME ReceiverInv, MessagesInv PROVE IngressIsSound
    OBVIOUS
  <2>1. ReceivesWithPresentSecret
    BY DEF ReceiverInv, ReceivesWithPresentSecret
  <2>2. ASSUME NEW m \in Messages
        PROVE  /\ Cardinality(runs[m]) <= 1
               /\ \A r \in runs[m] : claim[m].state # "none" =>
                    r.bot = claim[m].bot /\ r.of = [revision |-> claim[m].revision, deleted |-> FALSE]
    <3>1. MessageSound(m)
      BY DEF MessagesInv
    <3>2. CASE runs[m] = {}
      BY <3>2, FS_EmptySet
    <3>3. CASE runs[m] # {}
      <4>1. PICK r : /\ runs[m] = {r}
                     /\ Claims(m) => /\ r.bot = claim[m].bot
                                     /\ r.of = [revision |-> claim[m].revision, deleted |-> FALSE]
        BY <3>1, <3>3 DEF MessageSound
      <4>2. Cardinality(runs[m]) = 1
        BY <4>1, FS_Singleton
      <4>3. QED BY <4>1, <4>2 DEF Claims
    <3>4. QED BY <3>2, <3>3
  <2>3. QED BY <2>1, <2>2 DEF IngressIsSound, ExecutedOnce
<1>2. QED BY <1>1, IngressStarts, ReceiverStep, MessagesStep, PTL DEF IngressSpec

\* What the slots and the bounds of the model add to the invariants.
IngressBounded ==
  /\ app.secret \in 1..(MaxSecrets + 1) /\ receiver.secret \in 1..(MaxSecrets + 1)
  /\ change.at # "none" /\ change.what = "rotate" => app.secret < MaxSecrets
  /\ \A b \in RoutedBots : row[b].revision <= MaxRevs
  /\ wire \in [Messages -> {"unwritten", "fresh", "stale"}]
  /\ IsFiniteSet(work) /\ Cardinality(work) <= Slots
  /\ hints \subseteq Chats

\* A job that moves on or ends takes no other slot.
LEMMA SlotsKept ==
  ASSUME IngressBounded, NEW j \in work, NEW k,
         work' = work \ {j} \/ work' = (work \ {j}) \cup {k}
  PROVE  IsFiniteSet(work') /\ Cardinality(work') <= Slots
<1>1. /\ IsFiniteSet(work) /\ Cardinality(work) \in Nat /\ Cardinality(work) <= Slots /\ Slots \in Nat
      /\ IsFiniteSet(work \ {j}) /\ Cardinality(work \ {j}) = Cardinality(work) - 1
  BY IngressAssumption, FS_CardinalityType, FS_RemoveElement DEF IngressBounded
<1>2. IsFiniteSet((work \ {j}) \cup {k}) /\ Cardinality((work \ {j}) \cup {k}) <= Cardinality(work \ {j}) + 1
  <2>1. /\ IsFiniteSet((work \ {j}) \cup {k})
        /\ Cardinality((work \ {j}) \cup {k}) = IF k \in work \ {j} THEN Cardinality(work \ {j})
                                                ELSE Cardinality(work \ {j}) + 1
    BY <1>1, FS_AddElement
  <2>2. Cardinality(work \ {j}) \in Int
    BY <1>1
  <2>3. QED BY <2>1, <2>2
<1>3. QED
  <2>1. Cardinality((work \ {j}) \cup {k}) \in Nat
    BY <1>2, FS_CardinalityType
  <2>2. Cardinality((work \ {j}) \cup {k}) <= Slots /\ Cardinality(work \ {j}) <= Slots
    BY <1>1, <1>2, <2>1
  <2>3. CASE work' = work \ {j}
    BY <1>1, <2>2, <2>3
  <2>4. CASE work' = (work \ {j}) \cup {k}
    BY <1>2, <2>2, <2>4
  <2>5. QED BY <2>3, <2>4

LEMMA MessageBounded ==
  ASSUME MessagesInv, IngressBounded, NEW m \in Messages,
         Write(m) \/ Age(m) \/ PruneClaim(m) \/ AcceptEvent(m) \/ Hint(m)
  PROVE  IngressBounded'
<1>1. UNCHANGED << app, receiver, change, row >>
  BY DEF Write, Age, PruneClaim, AcceptEvent, Hint
<1>2. wire' \in [Messages -> {"unwritten", "fresh", "stale"}]
  BY DEF Write, Age, PruneClaim, AcceptEvent, Hint, IngressBounded
<1>3. hints' \subseteq Chats
  BY DEF Write, Age, PruneClaim, AcceptEvent, Hint, IngressBounded, MessagesInv, MessagesTyped
<1>4. IsFiniteSet(work') /\ Cardinality(work') <= Slots
  <2>1. CASE work' = work
    BY <2>1 DEF IngressBounded
  <2>2. CASE AcceptEvent(m)
    <3>1. PICK k : work' = work \cup {k}
      BY <2>2 DEF AcceptEvent
    <3>2. /\ IsFiniteSet(work) /\ Cardinality(work) \in Nat /\ Cardinality(work) < Slots /\ Slots \in Nat
      BY <2>2, IngressAssumption, FS_CardinalityType DEF IngressBounded, AcceptEvent
    <3>3. /\ IsFiniteSet(work \cup {k})
          /\ Cardinality(work \cup {k}) = IF k \in work THEN Cardinality(work) ELSE Cardinality(work) + 1
      BY <3>2, FS_AddElement
    <3>4. QED BY <3>1, <3>2, <3>3
  <2>3. QED BY <2>1, <2>2 DEF Write, Age, PruneClaim, Hint
<1>5. QED BY <1>1, <1>2, <1>3, <1>4 DEF IngressBounded

LEMMA JobBounded ==
  ASSUME IngressBounded, NEW j \in work, Recheck(j) \/ Execute(j) \/ LoseClaim(j) \/ Settle(j)
  PROVE  IngressBounded'
<1>1. UNCHANGED << app, receiver, change, row, wire, hints >>
  BY DEF Recheck, Execute, LoseClaim, Settle
<1>2. \E k : work' = work \ {j} \/ work' = (work \ {j}) \cup {k}
  BY DEF Recheck, Execute, LoseClaim, Settle
<1>3. IsFiniteSet(work') /\ Cardinality(work') <= Slots
  BY <1>2, SlotsKept
<1>4. QED BY <1>1, <1>3 DEF IngressBounded

LEMMA RoutedBounded ==
  ASSUME MessagesInv, IngressBounded, NEW b \in RoutedBots,
         \/ StartInstance(b) \/ NewIdentity(b) \/ DeleteRouted(b)
         \/ \E c \in Chats : CreateRoute(b, c)
  PROVE  IngressBounded'
<1>1. UNCHANGED << app, receiver, change, wire, work, hints >>
  BY DEF StartInstance, NewIdentity, DeleteRouted, CreateRoute
<1>2. ASSUME NEW a \in RoutedBots PROVE row'[a].revision <= MaxRevs
  <2>1. row[a] \in BindingRows /\ row[a].revision <= MaxRevs /\ MaxRevs \in Nat
    BY IngressAssumption DEF MessagesInv, MessagesTyped, IngressBounded
  <2>2. \/ row'[a] = row[a]
        \/ row'[a] = [row[a] EXCEPT !.revision = @ + 1] /\ row[a].revision < MaxRevs
        \/ row'[a] = [row[a] EXCEPT !.deleted = TRUE]
    BY DEF StartInstance, NewIdentity, DeleteRouted, CreateRoute, MessagesInv, MessagesTyped
  <2>3. QED BY <2>1, <2>2 DEF BindingRows
<1>3. QED BY <1>1, <1>2 DEF IngressBounded

LEMMA ReceiverBounded ==
  ASSUME ReceiverInv, IngressBounded,
         \/ Connect \/ Handshake \/ ReceiverFails \/ Retry
         \/ BeginChange \/ StopReceiver \/ CommitChange \/ IngressCrash
  PROVE  IngressBounded'
<1>1. UNCHANGED << row, wire >>
  BY DEF Connect, Handshake, ReceiverFails, Retry, BeginChange, StopReceiver, CommitChange, IngressCrash
<1>2. IsFiniteSet(work') /\ Cardinality(work') <= Slots /\ hints' \subseteq Chats
  <2>1. CASE UNCHANGED << work, hints >>
    BY <2>1 DEF IngressBounded
  <2>2. CASE IngressCrash
    BY <2>2, FS_EmptySet, IngressAssumption DEF IngressCrash
  <2>3. QED
    BY <2>1, <2>2 DEF Connect, Handshake, ReceiverFails, Retry, BeginChange, StopReceiver, CommitChange
<1>3. /\ app \in [present : BOOLEAN, secret : Nat] /\ app.secret \in 1..(MaxSecrets + 1)
      /\ receiver \in [at : {"stopped", "starting", "running", "retrying"}, secret : Nat]
      /\ receiver.secret \in 1..(MaxSecrets + 1) /\ MaxSecrets \in Nat
  BY IngressAssumption DEF ReceiverInv, IngressBounded
<1>4. CASE UNCHANGED app /\ UNCHANGED change
  <2>1. receiver'.secret = receiver.secret \/ receiver'.secret = app.secret
    BY <1>3, <1>4 DEF Connect, Handshake, ReceiverFails, Retry, BeginChange, StopReceiver, CommitChange,
                      IngressCrash
  <2>2. QED BY <1>1, <1>2, <1>3, <1>4, <2>1 DEF IngressBounded
<1>5. CASE BeginChange
  BY <1>1, <1>2, <1>3, <1>5 DEF BeginChange, IngressBounded
<1>6. CASE StopReceiver
  <2>1. receiver'.secret = receiver.secret /\ app' = app
    BY <1>3, <1>6 DEF StopReceiver
  <2>2. change \in [at : {"stop", "commit"}, what : {"rotate", "delete"}, expect : Nat]
    BY <1>6 DEF StopReceiver, ReceiverInv, Changes
  <2>3. change'.at # "none" => change.at # "none" /\ change'.what = change.what
    BY <1>6, <2>2 DEF StopReceiver
  <2>4. QED BY <1>1, <1>2, <1>3, <2>1, <2>3 DEF IngressBounded
<1>7. CASE CommitChange
  <2>1. change.what = "rotate" => app.secret < MaxSecrets
    BY <1>7 DEF CommitChange, IngressBounded
  <2>2. app'.secret \in 1..(MaxSecrets + 1) /\ receiver'.secret \in 1..(MaxSecrets + 1)
    <3>1. CASE /\ change.what = "rotate" /\ app' = [app EXCEPT !.secret = @ + 1]
               /\ receiver' = [at |-> "starting", secret |-> app.secret + 1]
      BY <1>3, <2>1, <3>1
    <3>2. CASE app' = [app EXCEPT !.present = FALSE] /\ receiver' = receiver
      BY <1>3, <3>2
    <3>3. CASE receiver' = [at |-> "starting", secret |-> app.secret] /\ app' = app
      BY <1>3, <3>3
    <3>4. QED BY <1>7, <3>1, <3>2, <3>3 DEF CommitChange
  <2>3. change'.at = "none"
    BY <1>7 DEF CommitChange
  <2>4. QED BY <1>1, <1>2, <2>2, <2>3 DEF IngressBounded
<1>8. CASE IngressCrash
  <2>1. receiver'.secret = receiver.secret /\ app' = app /\ change'.at = "none"
    BY <1>3, <1>8 DEF IngressCrash
  <2>2. QED BY <1>1, <1>2, <1>3, <2>1 DEF IngressBounded
<1>9. QED
  BY <1>4, <1>5, <1>6, <1>7, <1>8 DEF Connect, Handshake, ReceiverFails, Retry

LEMMA IngressStepBounded ==
  ASSUME MessagesInv, ReceiverInv, IngressBounded, [IngressNext]_ingressVars
  PROVE  IngressBounded'
<1>1. CASE UNCHANGED ingressVars
  BY <1>1 DEF ingressVars, IngressBounded
<1>2. QED BY <1>1, MessageBounded, JobBounded, RoutedBounded, ReceiverBounded DEF IngressNext

LEMMA IngressStartsBounded == ASSUME IngressInit PROVE IngressBounded
<1>1. 1 \in 1..(MaxSecrets + 1) /\ MaxRevs \in Nat /\ Slots \in Nat
  BY IngressAssumption
<1>2. IsFiniteSet({}) /\ Cardinality({}) = 0
  BY FS_EmptySet
<1>3. QED BY <1>1, <1>2 DEF IngressInit, IngressBounded

LEMMA IngressTypes == ASSUME MessagesInv, ReceiverInv, IngressBounded PROVE IngressTypeOK
<1>1. row \in [RoutedBots -> [revision : 0..MaxRevs, deleted : BOOLEAN]]
  <2>1. \A b \in RoutedBots : row[b] \in [revision : 0..MaxRevs, deleted : BOOLEAN]
    BY IngressAssumption DEF MessagesInv, MessagesTyped, BindingRows, IngressBounded
  <2>2. QED BY <2>1 DEF MessagesInv, MessagesTyped
<1>2. QED BY <1>1 DEF MessagesInv, MessagesTyped, ReceiverInv, IngressBounded, IngressTypeOK

\* The secret, the receiver, the rows and the work in hand have their types, and no more
\* work is in hand than there are slots (feishu/router.py, connectors.py).
THEOREM IngressTypesHold == IngressSpec => []IngressTypeOK
<1>1. IngressInit => ReceiverInv /\ MessagesInv /\ IngressBounded
  BY IngressStarts, IngressStartsBounded
<1>2. ReceiverInv /\ MessagesInv /\ IngressBounded /\ [IngressNext]_ingressVars => (ReceiverInv /\ MessagesInv /\ IngressBounded)'
  BY ReceiverStep, MessagesStep, IngressStepBounded
<1>3. ReceiverInv /\ MessagesInv /\ IngressBounded => IngressTypeOK
  BY IngressTypes
<1>4. QED BY <1>1, <1>2, <1>3, PTL DEF IngressSpec

-----------------------------------------------------------------------------
(* AppCredentials *)

KnownSecrets == Secrets \cup {NoSecret}
RowRecords == [id : Nat, payload : KnownSecrets, digest : KnownSecrets, generation : Nat, usable : BOOLEAN]
ClientRecords == [secret : KnownSecrets, guard : Secrets \cup {NoGuard}, token : KnownSecrets]
TaskRecords ==
  [at : {"idle", "read", "ready", "authorized", "guarded", "sending", "failed"},
   client : Nat, secret : KnownSecrets, token : KnownSecrets]

\* The two stores: whatever credentials_for yields is the newest secret.
StoresAgree ==
  /\ obtained \in Secrets /\ legacy \in {NoSecret, obtained}
  /\ registry \in RowRecords
  /\ HasEntry => registry.payload = registry.digest

\* Who has committed a change and not yet reached the clients brings what is stored.
BringsStored ==
  /\ appChange # NoChange => legacy = appChange /\ creation = NoChange
  /\ creation # NoChange => legacy = creation

\* A client's token is of its secret, and its guard too while it has one.
ClientOK(c) ==
  /\ c \in ClientRecords /\ c.secret <= obtained
  /\ c.token \in {NoSecret, c.secret}
  /\ c.guard = NoGuard \/ c.guard = c.secret \/ c.secret = NoSecret

CacheOK ==
  /\ cached \in [Secrets -> Nat]
  /\ \A s \in Secrets : cached[s] # 0 => cached[s] \in DOMAIN clients /\ clients[cached[s]].secret = s

\* Under way, a client is guarded; past the guard, it has no older secret than
\* the one that was stored then, and the token in hand is no newer.
SenderOK(t) ==
  LET j == sender[t] IN
  /\ j \in TaskRecords
  /\ j.at \notin {"idle", "read"} => j.client \in DOMAIN clients /\ clients[j.client].guard # NoGuard
  /\ j.at = "read" => j.secret \in 1..obtained
  /\ j.at \in {"authorized", "guarded"} => j.token \in 1..obtained
  /\ j.at = "guarded" => /\ j.token <= j.secret /\ j.secret <= obtained
                         /\ clients[j.client].secret = NoSecret \/ clients[j.client].secret >= j.secret
  /\ j.at = "sending" => j.token = j.secret

\* The row an orphan deletion has read is another by now, or has no source yet.
OrphanOK ==
  /\ orphan \in [id : Nat, generation : Nat]
  /\ orphan # NoOrphan =>
       /\ orphan.id <= registry.id
       /\ HasEntry /\ registry.id = orphan.id =>
            /\ registry.generation >= orphan.generation
            /\ legacy # NoSecret => registry.generation > orphan.generation

CInv ==
  /\ StoresAgree /\ BringsStored
  /\ clients \in Seq(ClientRecords) /\ \A i \in DOMAIN clients : ClientOK(clients[i])
  /\ CacheOK /\ DOMAIN sender = Senders /\ \A t \in Senders : SenderOK(t)
  /\ OrphanOK

LEMMA SecretsAre ==
  /\ Secrets \subseteq Nat \ {0} /\ NoSecret = 0 /\ 1 \in Secrets
  /\ KnownSecrets \subseteq Nat /\ 0 \in KnownSecrets /\ Secrets \subseteq KnownSecrets
  /\ NoGuard \notin KnownSecrets /\ NoChange \notin KnownSecrets
  /\ \A s \in Secrets : \A r \in Nat : r <= s /\ r # 0 => r \in Secrets
BY AppCredentialsAssumption DEF Secrets, NoSecret, KnownSecrets

\* credentials_for yields nothing, or the newest secret.
LEMMA StoredIs ==
  ASSUME StoresAgree
  PROVE  CredentialsFor = NoSecret \/ (CredentialsFor = legacy /\ legacy = obtained)
BY DEF StoresAgree, CredentialsFor

\* A secret that is stored is the newest, and so is its entry's.
LEMMA StoreKeeps ==
  ASSUME StoresAgree, NEW s, NEW newly \in BOOLEAN, s \in Accepted, StoreEntry(s, newly)
  PROVE  StoresAgree' /\ legacy' = s /\ obtained <= obtained'
<1>1. s \in Secrets /\ obtained <= s
  BY SecretsAre, AppCredentialsAssumption DEF Accepted, StoresAgree, Secrets
<1>2. registry' = Mirrored(s, newly) /\ obtained' = s /\ legacy' = s
  BY DEF StoreEntry
<1>3. registry' \in RowRecords /\ registry'.payload = registry'.digest
  <2>1. CASE ~ HasEntry
    <3>1. NextId \in Nat
      BY DEF NextId, StoresAgree, RowRecords
    <3>2. Entry(NextId, s, 1) \in RowRecords
      BY <1>1, <3>1 DEF Entry, RowRecords, KnownSecrets
    <3>3. QED BY <1>2, <2>1, <3>2 DEF Mirrored, Entry
  <2>2. CASE HasEntry /\ (newly \/ registry.digest # s)
    <3>1. registry.id \in Nat /\ registry.generation + 1 \in Nat
      BY DEF StoresAgree, RowRecords
    <3>2. Entry(registry.id, s, registry.generation + 1) \in RowRecords
      BY <1>1, <3>1 DEF Entry, RowRecords, KnownSecrets
    <3>3. QED BY <1>2, <2>2, <3>2 DEF Mirrored, Entry
  <2>3. CASE HasEntry /\ ~ (newly \/ registry.digest # s)
    BY <1>2, <2>3 DEF Mirrored, StoresAgree
  <2>4. QED BY <2>1, <2>2, <2>3
<1>4. QED BY <1>1, <1>2, <1>3 DEF StoresAgree

\* The stores move on while the clients stay.
LEMMA StoresMove ==
  ASSUME CInv, UNCHANGED << clients, cached, sender >>, obtained <= obtained',
         StoresAgree', BringsStored', OrphanOK'
  PROVE  CInv'
<1>1. obtained \in Nat /\ obtained' \in Nat
  BY SecretsAre DEF CInv, StoresAgree
<1>2. ASSUME NEW i \in DOMAIN clients PROVE ClientOK(clients[i])'
  <2>1. ClientOK(clients[i]) /\ clients'[i] = clients[i]
    BY DEF CInv
  <2>2. clients[i].secret \in Nat
    BY <2>1, SecretsAre DEF ClientOK, ClientRecords
  <2>3. QED BY <1>1, <2>1, <2>2 DEF ClientOK
<1>3. ASSUME NEW t \in Senders PROVE SenderOK(t)'
  <2>1. SenderOK(t) /\ UNCHANGED << sender[t], sender, clients >>
    BY DEF CInv
  <2>2. sender[t].secret \in Nat /\ sender[t].token \in Nat
    BY <2>1, SecretsAre DEF SenderOK, TaskRecords
  <2>3. sender'[t].at = "read" => sender'[t].secret \in 1..obtained'
    BY <1>1, <2>1, <2>2 DEF SenderOK
  <2>4. sender'[t].at \in {"authorized", "guarded"} => sender'[t].token \in 1..obtained'
    BY <1>1, <2>1, <2>2 DEF SenderOK
  <2>5. sender'[t].at = "guarded" => sender'[t].secret <= obtained'
    BY <1>1, <2>1, <2>2 DEF SenderOK
  <2>6. QED BY <2>1, <2>3, <2>4, <2>5 DEF SenderOK
<1>4. CacheOK'
  BY DEF CInv, CacheOK
<1>5. clients' \in Seq(ClientRecords) /\ \A i \in DOMAIN clients' : ClientOK(clients[i])'
  BY <1>2 DEF CInv
<1>6. QED BY <1>3, <1>4, <1>5 DEF CInv

\* An entry never grows younger, and an application's new entry is no orphan's.
LEMMA MirrorKeeps ==
  ASSUME ~ IdsReused, StoresAgree, OrphanOK, orphan' = orphan, NEW s, NEW newly \in BOOLEAN,
         registry' = Mirrored(s, newly), legacy # NoSecret \/ newly
  PROVE  OrphanOK'
<1>1. registry.id \in Nat /\ registry.generation \in Nat
  BY DEF StoresAgree, RowRecords
<1>2. orphan.id \in Nat /\ orphan.generation \in Nat
  BY DEF OrphanOK
<1>3. CASE ~ HasEntry
  <2>1. registry'.id = registry.id + 1
    BY <1>3 DEF Mirrored, NextId, Entry
  <2>2. QED BY <1>1, <1>2, <2>1 DEF OrphanOK
<1>4. CASE HasEntry /\ (newly \/ registry.digest # s)
  <2>1. registry'.id = registry.id /\ registry'.generation = registry.generation + 1
    BY <1>4 DEF Mirrored, Entry
  <2>2. QED BY <1>1, <1>2, <1>4, <2>1 DEF OrphanOK
<1>5. CASE HasEntry /\ ~ (newly \/ registry.digest # s)
  <2>1. registry' = registry
    BY <1>5 DEF Mirrored
  <2>2. QED BY <1>1, <1>2, <1>5, <2>1 DEF OrphanOK, HasEntry
<1>6. QED BY <1>3, <1>4, <1>5

LEMMA BackfillStep == ASSUME CInv, ~ IdsReused, Backfill PROVE CInv'
<1>1. registry' = Mirrored(legacy, FALSE) /\ legacy \in Secrets /\ legacy = obtained
  BY DEF Backfill, CInv, StoresAgree
<1>2. registry' \in RowRecords /\ registry'.payload = registry'.digest
  <2>1. NextId \in Nat /\ registry.id \in Nat /\ registry.generation + 1 \in Nat
    BY DEF NextId, CInv, StoresAgree, RowRecords
  <2>2. /\ Entry(NextId, legacy, 1) \in RowRecords
        /\ Entry(registry.id, legacy, registry.generation + 1) \in RowRecords
    BY <1>1, <2>1, SecretsAre DEF Entry, RowRecords
  <2>3. QED BY <1>1, <2>2 DEF Mirrored, Entry, CInv, StoresAgree
<1>3. UNCHANGED << obtained, legacy, appChange, creation, orphan, clients, cached, sender >>
  BY DEF Backfill
<1>4. OrphanOK'
  BY <1>1, <1>3, MirrorKeeps DEF Backfill, CInv
<1>5. StoresAgree' /\ BringsStored'
  BY <1>2, <1>3 DEF CInv, StoresAgree, BringsStored
<1>6. obtained <= obtained'
  BY <1>3, SecretsAre DEF CInv, StoresAgree
<1>7. QED BY <1>3, <1>4, <1>5, <1>6, StoresMove

LEMMA EntryLapsesStep == ASSUME CInv, EntryLapses PROVE CInv'
<1>1. /\ registry' \in RowRecords /\ registry'.payload = registry.payload
      /\ registry'.digest = registry.digest /\ registry'.id = registry.id
      /\ registry'.generation = registry.generation
  <2>1. registry \in RowRecords /\ registry' = [registry EXCEPT !.usable = FALSE]
    BY DEF EntryLapses, CInv, StoresAgree
  <2>2. QED BY <2>1 DEF RowRecords
<1>2. UNCHANGED << obtained, legacy, appChange, creation, orphan, clients, cached, sender >>
  BY DEF EntryLapses
<1>3. StoresAgree' /\ BringsStored' /\ obtained <= obtained'
  BY <1>1, <1>2, SecretsAre DEF CInv, StoresAgree, BringsStored, HasEntry
<1>4. OrphanOK'
  BY <1>1, <1>2 DEF CInv, OrphanOK, HasEntry
<1>5. QED BY <1>2, <1>3, <1>4, StoresMove

LEMMA RotateStep == ASSUME CInv, ~ Overlapping, ~ IdsReused, RotateSecret PROVE CInv'
<1>1. PICK s \in Accepted \ {legacy} : StoreEntry(s, FALSE) /\ appChange' = s
  BY DEF RotateSecret
<1>2. /\ UNCHANGED << creation, orphan, clients, cached, sender >>
      /\ appChange = NoChange /\ creation = NoChange /\ legacy # NoSecret
  BY DEF RotateSecret, ChangeMayBegin
<1>3. StoresAgree' /\ legacy' = s /\ obtained <= obtained'
  BY <1>1, StoreKeeps DEF CInv
<1>4. OrphanOK'
  BY <1>1, <1>2, MirrorKeeps DEF StoreEntry, CInv
<1>5. BringsStored'
  BY <1>1, <1>2, <1>3 DEF BringsStored
<1>6. QED BY <1>2, <1>3, <1>4, <1>5, StoresMove

LEMMA CreateStep == ASSUME CInv, ~ Overlapping, ~ IdsReused, CreateApplication PROVE CInv'
<1>1. PICK s \in Accepted : StoreEntry(s, TRUE) /\ creation' = s
  BY DEF CreateApplication
<1>2. /\ UNCHANGED << appChange, orphan, clients, cached, sender >>
      /\ appChange = NoChange /\ creation = NoChange
  BY DEF CreateApplication
<1>3. StoresAgree' /\ legacy' = s /\ obtained <= obtained'
  BY <1>1, StoreKeeps DEF CInv
<1>4. OrphanOK'
  BY <1>1, <1>2, MirrorKeeps DEF StoreEntry, CInv
<1>5. BringsStored'
  BY <1>1, <1>2, <1>3 DEF BringsStored
<1>6. QED BY <1>2, <1>3, <1>4, <1>5, StoresMove

\* A row that goes leaves its id behind.
LEMMA NoEntryIs ==
  ASSUME StoresAgree
  PROVE  /\ NoEntry(registry.id) \in RowRecords
         /\ NoEntry(registry.id).id = registry.id /\ NoEntry(registry.id).generation = 0
         /\ NoEntry(registry.id).payload = NoEntry(registry.id).digest
BY SecretsAre DEF StoresAgree, NoEntry, RowRecords, NoSecret

LEMMA DeleteStep == ASSUME CInv, ~ Overlapping, DeleteApplication PROVE CInv'
<1>1. /\ UNCHANGED << obtained, creation, orphan, clients, cached, sender >>
      /\ appChange = NoChange /\ creation = NoChange
      /\ legacy' = NoSecret /\ registry' = NoEntry(registry.id) /\ appChange' = NoSecret
  BY DEF DeleteApplication, ChangeMayBegin
<1>2. StoresAgree' /\ obtained <= obtained'
  BY <1>1, NoEntryIs, SecretsAre DEF CInv, StoresAgree
<1>3. OrphanOK'
  BY <1>1, NoEntryIs DEF CInv, OrphanOK, HasEntry
<1>4. BringsStored'
  BY <1>1 DEF BringsStored
<1>5. QED BY <1>1, <1>2, <1>3, <1>4, StoresMove

LEMMA ReadOrphanStep == ASSUME CInv, ReadOrphan PROVE CInv'
<1>1. UNCHANGED << obtained, legacy, registry, appChange, creation, clients, cached, sender >>
  BY DEF ReadOrphan, rowVars, clientVars
<1>2. /\ orphan'.id = registry.id /\ orphan'.generation = registry.generation
      /\ orphan' \in [id : Nat, generation : Nat] /\ legacy = NoSecret
  <2>1. registry.id \in Nat /\ registry.generation \in Nat
    BY DEF CInv, StoresAgree, RowRecords
  <2>2. QED BY <2>1 DEF ReadOrphan
<1>3. OrphanOK'
  BY <1>1, <1>2 DEF OrphanOK
<1>4. StoresAgree' /\ BringsStored' /\ obtained <= obtained'
  BY <1>1, SecretsAre DEF CInv, StoresAgree, BringsStored, HasEntry
<1>5. QED BY <1>1, <1>3, <1>4, StoresMove

LEMMA DeleteOrphanStep == ASSUME CInv, DeleteOrphan PROVE CInv'
<1>1. /\ UNCHANGED << obtained, legacy, appChange, creation, clients, cached, sender >>
      /\ orphan' = NoOrphan
      /\ registry' = NoEntry(registry.id) \/ registry' = registry
  BY DEF DeleteOrphan, clientVars
<1>2. OrphanOK'
  BY <1>1 DEF OrphanOK, NoOrphan
<1>3. StoresAgree' /\ BringsStored' /\ obtained <= obtained'
  BY <1>1, NoEntryIs, SecretsAre DEF CInv, StoresAgree, BringsStored, HasEntry
<1>4. QED BY <1>1, <1>2, <1>3, StoresMove

\* ... and takes no row that has a source.
LEMMA TakesOrphansOnly ==
  ASSUME CInv, DeleteOrphan, HasEntry, registry'.generation = 0 PROVE legacy' = NoSecret
<1>1. legacy' = legacy /\ orphan # NoOrphan /\ registry' # registry
  BY DEF DeleteOrphan, HasEntry
<1>2. registry.id = orphan.id /\ registry.generation = orphan.generation
  BY <1>1 DEF DeleteOrphan
<1>3. registry.generation \in Nat
  BY DEF CInv, StoresAgree, RowRecords
<1>4. QED BY <1>1, <1>2, <1>3 DEF CInv, OrphanOK

\* The clients are told what is stored, by whoever committed it, or that there is nothing.
LEMMA InvalidateStep ==
  ASSUME CInv, NEW v, NEW g, Invalidate(v, g),
         (v = NoSecret /\ g = NoGuard) \/ (v = obtained /\ g = v),
         UNCHANGED << rowVars, sender, orphan >>, BringsStored'
  PROVE  CInv'
<1>1. /\ obtained \in Nat /\ obtained \in Secrets /\ v \in KnownSecrets /\ v \in Nat /\ v <= obtained
      /\ UNCHANGED << obtained, legacy, registry >>
  BY SecretsAre DEF CInv, StoresAgree, rowVars
<1>2. DOMAIN clients' = DOMAIN clients /\ clients \in Seq(ClientRecords)
  BY DEF Invalidate, CInv
<1>3. ASSUME NEW i \in DOMAIN clients
      PROVE  /\ ClientOK(clients[i])' /\ clients'[i] \in ClientRecords
             /\ clients'[i].secret = v
             /\ clients[i].guard # NoGuard => clients'[i].guard # NoGuard
  <2>1. ClientOK(clients[i])
    BY DEF CInv
  <2>2. /\ clients'[i] = [secret |-> v, token |-> NoSecret,
                          guard |-> IF g = NoGuard THEN clients[i].guard ELSE g]
    BY DEF Invalidate
  <2>3. clients'[i].secret = v /\ clients'[i].token = NoSecret
    BY <2>2
  <2>4. clients[i].guard \in Secrets \cup {NoGuard}
    BY <2>1 DEF ClientOK, ClientRecords
  <2>5. /\ clients'[i].guard \in Secrets \cup {NoGuard}
        /\ clients[i].guard # NoGuard => clients'[i].guard # NoGuard
        /\ clients'[i].guard = v \/ v = NoSecret
    BY <1>1, <2>2, <2>4, SecretsAre
  <2>6. clients'[i] \in ClientRecords
    BY <1>1, <2>2, <2>4, <2>5, SecretsAre DEF ClientRecords, NoSecret
  <2>7. QED BY <1>1, <2>3, <2>5, <2>6 DEF ClientOK
<1>4. clients' \in Seq(ClientRecords)
  <2>1. clients' = [i \in 1..Len(clients) |-> clients'[i]] /\ Len(clients) \in Nat
    BY <1>2 DEF Invalidate
  <2>2. \A i \in 1..Len(clients) : clients'[i] \in ClientRecords
    BY <1>2, <1>3
  <2>3. QED BY <2>1, <2>2
<1>5. CacheOK'
  BY DEF Invalidate, CacheOK
<1>6. ASSUME NEW t \in Senders PROVE SenderOK(t)'
  <2>1. SenderOK(t) /\ sender' = sender
    BY DEF CInv
  <2>2. sender[t].secret \in Nat /\ sender[t].token \in Nat
    BY <2>1, SecretsAre DEF SenderOK, TaskRecords
  <2>3. sender[t].at \notin {"idle", "read"} =>
          /\ sender[t].client \in DOMAIN clients /\ clients'[sender[t].client].guard # NoGuard
          /\ clients'[sender[t].client].secret = v
    BY <1>3, <2>1 DEF SenderOK
  <2>4. sender'[t].at = "guarded" =>
          clients'[sender'[t].client].secret = NoSecret
            \/ clients'[sender'[t].client].secret >= sender'[t].secret
    BY <1>1, <2>1, <2>2, <2>3 DEF SenderOK
  <2>5. QED BY <1>1, <1>2, <2>1, <2>3, <2>4 DEF SenderOK
<1>7. StoresAgree' /\ OrphanOK'
  BY <1>1 DEF CInv, StoresAgree, OrphanOK, HasEntry
<1>8. QED BY <1>2, <1>3, <1>4, <1>5, <1>6, <1>7 DEF CInv

LEMMA ReachClientsStep == ASSUME CInv, ReachClients PROVE CInv'
<1>1. /\ UNCHANGED << rowVars, sender, orphan, creation >> /\ appChange' = NoChange
      /\ UNCHANGED << obtained, legacy, registry >>
      /\ appChange # NoChange /\ legacy = appChange /\ creation = NoChange
  BY DEF ReachClients, rowVars, CInv, BringsStored
<1>2. BringsStored'
  BY <1>1 DEF BringsStored
<1>3. CASE appChange = NoSecret
  BY <1>1, <1>2, <1>3, InvalidateStep DEF ReachClients
<1>4. CASE appChange # NoSecret /\ CredentialsFor = NoSecret
  <2>1. UNCHANGED << clients, cached >>
    BY <1>4 DEF ReachClients, clientVars
  <2>2. StoresAgree' /\ OrphanOK' /\ obtained <= obtained'
    BY <1>1, SecretsAre DEF CInv, StoresAgree, OrphanOK, HasEntry
  <2>3. QED BY <1>1, <1>2, <2>1, <2>2, StoresMove
<1>5. CASE appChange # NoSecret /\ CredentialsFor # NoSecret
  <2>1. CredentialsFor = appChange /\ appChange = obtained
    BY <1>1, <1>5, StoredIs DEF CInv
  <2>2. Invalidate(appChange, appChange)
    BY <1>5, <2>1 DEF ReachClients
  <2>3. QED BY <1>1, <1>2, <1>5, <2>1, <2>2, InvalidateStep
<1>6. QED BY <1>3, <1>4, <1>5

LEMMA RecoverClientsStep == ASSUME CInv, RecoverClients PROVE CInv'
<1>1. /\ UNCHANGED << rowVars, sender, orphan, creation, appChange >>
      /\ UNCHANGED << obtained, legacy, registry >>
      /\ CredentialsFor # NoSecret /\ Invalidate(CredentialsFor, CredentialsFor)
  BY DEF RecoverClients, rowVars
<1>2. BringsStored'
  BY <1>1 DEF CInv, BringsStored
<1>3. CredentialsFor = obtained
  BY <1>1, StoredIs DEF CInv
<1>4. Invalidate(obtained, obtained) /\ obtained # NoSecret
  BY <1>1, <1>3
<1>5. QED BY <1>1, <1>2, <1>4, InvalidateStep

LEMMA ReachClientsOfNewStep == ASSUME CInv, ReachClientsOfNew PROVE CInv'
<1>1. /\ UNCHANGED << rowVars, sender, orphan, appChange >> /\ creation' = NoChange
      /\ UNCHANGED << obtained, legacy, registry >>
      /\ creation # NoChange /\ legacy = creation /\ appChange = NoChange
  BY DEF ReachClientsOfNew, rowVars, CInv, BringsStored
<1>2. BringsStored'
  BY <1>1 DEF BringsStored
<1>3. CASE CredentialsFor = NoSecret
  <2>1. UNCHANGED << clients, cached >>
    BY <1>3 DEF ReachClientsOfNew, clientVars
  <2>2. StoresAgree' /\ OrphanOK' /\ obtained <= obtained'
    BY <1>1, SecretsAre DEF CInv, StoresAgree, OrphanOK, HasEntry
  <2>3. QED BY <1>1, <1>2, <2>1, <2>2, StoresMove
<1>4. CASE CredentialsFor # NoSecret
  <2>1. CredentialsFor = creation /\ creation = obtained
    BY <1>1, <1>4, StoredIs DEF CInv
  <2>2. Invalidate(creation, creation) /\ creation # NoSecret
    BY <1>4, <2>1 DEF ReachClientsOfNew
  <2>3. QED BY <1>1, <1>2, <2>1, <2>2, InvalidateStep
<1>5. QED BY <1>3, <1>4

\* A release without the registry ran in a process of its own: the next one starts afresh.
LEMMA OldReleaseStep == ASSUME CInv, OldReleaseWrites PROVE CInv'
<1>1. /\ known' = NotSet /\ clients' = <<>> /\ cached' = [s \in Secrets |-> 0]
      /\ sender' = [t \in Senders |-> NoTask] /\ orphan' = NoOrphan
      /\ UNCHANGED << registry, appChange, creation >>
      /\ appChange = NoChange /\ creation = NoChange
  BY DEF OldReleaseWrites
<1>2. PICK s \in Accepted \cup {NoSecret} :
        legacy' = s /\ obtained' = IF s = NoSecret THEN obtained ELSE s
  BY DEF OldReleaseWrites
<1>3. obtained' \in Secrets /\ (legacy' = NoSecret \/ legacy' = obtained')
  BY <1>2, AppCredentialsAssumption DEF CInv, StoresAgree, Accepted, Secrets, NoSecret
<1>4. StoresAgree' /\ BringsStored' /\ OrphanOK'
  BY <1>1, <1>3 DEF CInv, StoresAgree, BringsStored, OrphanOK, NoOrphan, HasEntry
<1>5. CacheOK'
  BY <1>1 DEF CacheOK
<1>6. ASSUME NEW t \in Senders PROVE SenderOK(t)'
  BY <1>1, SecretsAre DEF SenderOK, NoTask, TaskRecords, NoSecret
<1>7. clients' \in Seq(ClientRecords) /\ \A i \in DOMAIN clients' : ClientOK(clients[i])'
  BY <1>1
<1>8. QED BY <1>1, <1>4, <1>5, <1>6, <1>7 DEF CInv

\* A thread's own step: the clients' secrets stay, and no client loses its guard.
LEMMA SenderSteps ==
  ASSUME CInv, NEW t \in Senders, NEW j \in TaskRecords, Set(t, j),
         UNCHANGED << rowVars, appChange, creation, orphan >>,
         clients' \in Seq(ClientRecords), \A i \in DOMAIN clients' : ClientOK(clients[i])',
         \A i \in DOMAIN clients :
           /\ i \in DOMAIN clients' /\ clients'[i].secret = clients[i].secret
           /\ clients[i].guard # NoGuard => clients'[i].guard # NoGuard,
         CacheOK',
         j.at \notin {"idle", "read"} => j.client \in DOMAIN clients' /\ clients'[j.client].guard # NoGuard,
         j.at = "read" => j.secret \in 1..obtained,
         j.at \in {"authorized", "guarded"} => j.token \in 1..obtained,
         j.at = "guarded" => /\ j.token <= j.secret /\ j.secret <= obtained
                             /\ clients'[j.client].secret = NoSecret \/ clients'[j.client].secret >= j.secret,
         j.at = "sending" => j.token = j.secret
  PROVE  CInv'
<1>1. UNCHANGED << obtained, legacy, registry >>
  BY DEF rowVars
<1>2. StoresAgree' /\ BringsStored' /\ OrphanOK'
  BY <1>1 DEF CInv, StoresAgree, BringsStored, OrphanOK, HasEntry
<1>3. ASSUME NEW u \in Senders, u # t PROVE SenderOK(u)'
  <2>1. SenderOK(u)
    BY DEF CInv
  <2>2. sender'[u] = sender[u]
    BY <1>3 DEF Set
  <2>3. QED BY <1>1, <2>1, <2>2 DEF SenderOK
<1>4. SenderOK(t)'
  <2>1. sender'[t] = j
    BY DEF Set, CInv
  <2>2. QED BY <1>1, <2>1 DEF SenderOK
<1>5. QED BY <1>2, <1>3, <1>4 DEF CInv, Set

LEMMA ReadSecretStep == ASSUME CInv, NEW t \in Senders, ReadSecret(t) PROVE CInv'
<1> DEFINE j == [NoTask EXCEPT !.at = "read", !.secret = CredentialsFor]
<1>1. CredentialsFor = obtained /\ obtained \in Secrets
  BY StoredIs DEF ReadSecret, CInv, StoresAgree
<1>2. j \in TaskRecords /\ j.at = "read" /\ j.secret = obtained
  BY <1>1, SecretsAre DEF NoTask, TaskRecords, NoSecret
<1>3. Set(t, j) /\ UNCHANGED << rowVars, clients, cached, appChange, creation, orphan >>
  BY DEF ReadSecret, clientVars
<1> HIDE DEF j
<1>4. obtained \in 1..obtained
  BY <1>1, SecretsAre
<1>5. CacheOK' /\ clients' \in Seq(ClientRecords) /\ \A i \in DOMAIN clients' : ClientOK(clients[i])'
  BY <1>3 DEF CInv, CacheOK, ClientOK, rowVars
<1>6. QED BY <1>2, <1>3, <1>4, <1>5, SenderSteps

\* A client found in the cache, or built, is of the secret that was read; while that is
\* the stored one, the client comes with its guard.
LEMMA ObtainClientStep == ASSUME CInv, NEW t \in Senders, ObtainClient(t) PROVE CInv'
<1> DEFINE new == cached[sender[t].secret] = 0
<1> SUFFICES ASSUME NEW s, s = sender[t].secret,
                    NEW i, i = IF new THEN Len(clients) + 1 ELSE cached[s]
             PROVE  CInv'
  OBVIOUS
<1> DEFINE fits == CredentialsFor = s
<1> DEFINE with(c) == IF fits THEN [c EXCEPT !.guard = s] ELSE c
<1> DEFINE fresh == [secret |-> s, guard |-> NoGuard, token |-> NoSecret]
<1> DEFINE j == IF fits THEN [NoTask EXCEPT !.at = "ready", !.client = i] ELSE NoTask
<1>1. /\ UNCHANGED << rowVars, appChange, creation, orphan >> /\ sender[t].at = "read"
      /\ obtained' = obtained
  BY DEF ObtainClient, rowVars
<1>2. s \in Secrets /\ s \in Nat /\ obtained \in Secrets /\ obtained \in Nat /\ s <= obtained
  BY <1>1, SecretsAre DEF CInv, SenderOK, StoresAgree
<1>3. /\ clients \in Seq(ClientRecords) /\ \A k \in DOMAIN clients : ClientOK(clients[k])
      /\ CacheOK
  BY DEF CInv
<1>4. NoTask \in TaskRecords /\ NoTask.at = "idle"
  BY SecretsAre DEF NoTask, TaskRecords, NoSecret
<1>5. CASE known \notin {NotSet, s}
  <2>1. Set(t, NoTask) /\ UNCHANGED << clients, cached >>
    BY <1>5 DEF ObtainClient, clientVars
  <2>2. CacheOK' /\ \A k \in DOMAIN clients' : ClientOK(clients[k])'
    BY <1>1, <1>3, <2>1 DEF CacheOK, ClientOK
  <2>3. QED BY <1>1, <1>3, <1>4, <2>1, <2>2, SenderSteps
<1>6. CASE known \in {NotSet, s}
  <2>1. /\ clients' = IF new THEN Append(clients, with(fresh))
                      ELSE [clients EXCEPT ![i] = with(clients[i])]
        /\ cached' = [cached EXCEPT ![s] = i] /\ Set(t, j)
    BY <1>6 DEF ObtainClient
  <2>2. /\ i \in Nat /\ i # 0 /\ i \in DOMAIN clients'
        /\ ~ new => i \in DOMAIN clients /\ clients[i].secret = s
    BY <1>2, <1>3, <2>1 DEF CacheOK
  <2>3. ASSUME NEW c, ClientOK(c), c.secret = s
        PROVE  /\ with(c) \in ClientRecords /\ with(c).secret = s /\ with(c).token = c.token
               /\ with(c).guard = IF fits THEN s ELSE c.guard
    <3>1. c \in ClientRecords
      BY <2>3 DEF ClientOK
    <3>2. QED BY <1>2, <2>3, <3>1, SecretsAre DEF ClientRecords
  <2>4. ClientOK(fresh) /\ fresh.secret = s
    BY <1>2, SecretsAre DEF ClientOK, ClientRecords, NoSecret
  <2>5. ASSUME NEW c, ClientOK(c), c.secret = s, clients'[i] = with(c)
        PROVE  /\ ClientOK(clients[i])' /\ clients'[i].secret = s
               /\ fits => clients'[i].guard = s
               /\ c.guard # NoGuard => clients'[i].guard # NoGuard
    <3> DEFINE w == with(c)
    <3>1. /\ w \in ClientRecords /\ w.secret = s /\ w.token = c.token
          /\ w.guard = IF fits THEN s ELSE c.guard
      BY <2>3, <2>5
    <3>2. clients'[i] = w
      BY <2>5
    <3> HIDE DEF w, with, fits, new
    <3>3. /\ clients'[i] \in ClientRecords /\ clients'[i].secret <= obtained'
          /\ clients'[i].token \in {NoSecret, clients'[i].secret}
      BY <1>1, <1>2, <2>5, <3>1, <3>2 DEF ClientOK
    <3>4. /\ clients'[i].guard = NoGuard \/ clients'[i].guard = clients'[i].secret
               \/ clients'[i].secret = NoSecret
      BY <2>5, <3>1, <3>2 DEF ClientOK
    <3>5. fits => clients'[i].guard = s
      BY <3>1, <3>2
    <3>6. c.guard # NoGuard => clients'[i].guard # NoGuard
      BY <1>2, <3>1, <3>2, SecretsAre
    <3>7. QED BY <3>1, <3>2, <3>3, <3>4, <3>5, <3>6 DEF ClientOK
  <2>6. /\ clients' \in Seq(ClientRecords)
        /\ \A k \in DOMAIN clients : k \in DOMAIN clients' /\ (k # i => clients'[k] = clients[k])
        /\ \A k \in DOMAIN clients' : k = i \/ k \in DOMAIN clients
        /\ ClientOK(clients[i])' /\ clients'[i].secret = s
        /\ fits => clients'[i].guard = s
        /\ i \in DOMAIN clients => /\ clients[i].secret = s
                                   /\ clients[i].guard # NoGuard => clients'[i].guard # NoGuard
    <3>1. CASE new
      <4>1. with(fresh) \in ClientRecords /\ i = Len(clients) + 1
        BY <2>3, <2>4, <3>1
      <4>2. clients' = Append(clients, with(fresh))
        BY <2>1, <3>1
      <4> HIDE DEF with, fresh, fits
      <4>3. /\ clients' \in Seq(ClientRecords) /\ clients'[i] = with(fresh)
            /\ \A k \in DOMAIN clients : k \in DOMAIN clients' /\ clients'[k] = clients[k]
            /\ \A k \in DOMAIN clients' : k = i \/ k \in DOMAIN clients
            /\ i \notin DOMAIN clients
        BY <1>3, <4>1, <4>2
      <4> HIDE DEF new
      <4>4. QED BY <2>4, <2>5, <4>3
    <3>2. CASE ~ new
      <4>1. ClientOK(clients[i]) /\ clients[i].secret = s /\ i \in DOMAIN clients
        BY <1>3, <2>2, <3>2
      <4>2. with(clients[i]) \in ClientRecords /\ clients' = [clients EXCEPT ![i] = with(clients[i])]
        BY <2>1, <2>3, <3>2, <4>1
      <4> HIDE DEF with, fits, new
      <4>3. /\ clients' \in Seq(ClientRecords) /\ clients'[i] = with(clients[i])
            /\ \A k \in DOMAIN clients : k \in DOMAIN clients' /\ (k # i => clients'[k] = clients[k])
            /\ \A k \in DOMAIN clients' : k \in DOMAIN clients
        BY <1>3, <4>1, <4>2
      <4>4. QED BY <2>5, <4>1, <4>3
    <3>3. QED BY <3>1, <3>2
  <2>7. j \in TaskRecords /\ (j.at = "idle" \/ (j.at = "ready" /\ fits /\ j.client = i))
    BY <1>4, <2>2 DEF TaskRecords, NoTask
  <2>8. Set(t, j) /\ cached' = [cached EXCEPT ![s] = i] /\ i \in DOMAIN clients' /\ i \in Nat
    BY <2>1, <2>2
  <2> HIDE DEF with, fits, new, j, fresh
  <2>9. ASSUME NEW k \in DOMAIN clients' PROVE ClientOK(clients[k])'
    <3>1. CASE k = i
      BY <2>6, <3>1
    <3>2. CASE k # i
      BY <1>1, <1>3, <2>6, <3>2 DEF ClientOK
    <3>3. QED BY <3>1, <3>2
  <2>10. CacheOK'
    <3>1. cached' \in [Secrets -> Nat]
      BY <1>3, <2>8 DEF CacheOK
    <3>2. ASSUME NEW r \in Secrets, cached'[r] # 0
          PROVE  cached'[r] \in DOMAIN clients' /\ clients'[cached'[r]].secret = r
      <4>1. CASE r = s
        BY <1>2, <1>3, <2>6, <2>8, <4>1 DEF CacheOK
      <4>2. CASE r # s
        <5>1. cached'[r] = cached[r]
          BY <1>3, <2>8, <4>2 DEF CacheOK
        <5>2. cached[r] \in DOMAIN clients /\ clients[cached[r]].secret = r
          BY <1>3, <3>2, <5>1 DEF CacheOK
        <5>3. QED BY <2>6, <4>2, <5>1, <5>2
      <4>3. QED BY <4>1, <4>2
    <3>3. QED BY <3>1, <3>2 DEF CacheOK
  <2>11. \A k \in DOMAIN clients :
           /\ k \in DOMAIN clients' /\ clients'[k].secret = clients[k].secret
           /\ clients[k].guard # NoGuard => clients'[k].guard # NoGuard
    BY <2>6
  <2>12. j.at \notin {"idle", "read"} => j.client \in DOMAIN clients' /\ clients'[j.client].guard # NoGuard
    BY <1>2, <2>6, <2>7, <2>8, SecretsAre
  <2>13. QED BY <1>1, <2>6, <2>7, <2>8, <2>9, <2>10, <2>11, <2>12, SenderSteps
<1>7. QED BY <1>5, <1>6

\* A thread on its way has a client, whose guard passes only while its secret is stored.
LEMMA OnItsWay ==
  ASSUME CInv, NEW t \in Senders, sender[t].at \notin {"idle", "read"}
  PROVE  /\ sender[t] \in TaskRecords /\ sender[t].client \in DOMAIN clients
         /\ ClientOK(Sendings(t)) /\ Sendings(t) \in ClientRecords /\ Sendings(t).guard # NoGuard
         /\ Sendings(t) = clients[sender[t].client]
         /\ Sendings(t).secret \in Nat /\ obtained \in Nat
         /\ GuardPasses(Sendings(t)) /\ Sendings(t).secret # NoSecret =>
              Sendings(t).secret = obtained /\ CredentialsFor = obtained
<1> DEFINE c == Sendings(t)
<1>1. /\ sender[t] \in TaskRecords /\ sender[t].client \in DOMAIN clients
      /\ c = clients[sender[t].client] /\ ClientOK(c) /\ c.guard # NoGuard
  BY DEF CInv, SenderOK, Sendings
<1>2. c \in ClientRecords /\ (c.guard = c.secret \/ c.secret = NoSecret)
  BY <1>1 DEF ClientOK
<1>3. c.secret \in Nat /\ c.guard \in Secrets /\ obtained \in Nat
  BY <1>1, <1>2, SecretsAre DEF ClientRecords, CInv, StoresAgree
<1>4. ASSUME GuardPasses(c), c.secret # NoSecret
      PROVE  c.secret = obtained /\ CredentialsFor = obtained
  BY <1>1, <1>2, <1>4, StoredIs DEF GuardPasses, CInv
<1>5. QED BY <1>1, <1>2, <1>3, <1>4

\* A step that only moves the thread on.
LEMMA ThreadMoves ==
  ASSUME CInv, NEW t \in Senders, NEW j \in TaskRecords, Set(t, j),
         UNCHANGED << rowVars, clients, cached, appChange, creation, orphan >>,
         j.at \notin {"idle", "read"} => j.client \in DOMAIN clients /\ clients[j.client].guard # NoGuard,
         j.at # "read",
         j.at \in {"authorized", "guarded"} => j.token \in 1..obtained,
         j.at = "guarded" => /\ j.token <= j.secret /\ j.secret <= obtained
                             /\ clients[j.client].secret = NoSecret \/ clients[j.client].secret >= j.secret,
         j.at = "sending" => j.token = j.secret
  PROVE  CInv'
<1>1. CacheOK' /\ clients' \in Seq(ClientRecords) /\ \A i \in DOMAIN clients' : ClientOK(clients[i])'
  BY DEF CInv, CacheOK, ClientOK, rowVars
<1>2. QED BY <1>1, SenderSteps

LEMMA FinishRequestStep == ASSUME CInv, NEW t \in Senders, FinishRequest(t) PROVE CInv'
<1>1. PICK keep \in BOOLEAN :
        Set(t, IF keep THEN [NoTask EXCEPT !.at = "ready", !.client = sender[t].client] ELSE NoTask)
  BY DEF FinishRequest
<1> DEFINE j == IF keep THEN [NoTask EXCEPT !.at = "ready", !.client = sender[t].client] ELSE NoTask
<1>2. UNCHANGED << rowVars, clients, cached, appChange, creation, orphan >>
  BY DEF FinishRequest, clientVars
<1>3. /\ sender[t] \in TaskRecords /\ sender[t].client \in DOMAIN clients
      /\ clients[sender[t].client].guard # NoGuard
  BY OnItsWay DEF FinishRequest
<1>4. sender[t].client \in Nat
  BY <1>3 DEF TaskRecords
<1>5. j \in TaskRecords /\ (j.at = "idle" \/ (j.at = "ready" /\ j.client = sender[t].client))
  BY <1>4, SecretsAre DEF NoTask, TaskRecords, NoSecret
<1>6. Set(t, j)
  BY <1>1
<1> HIDE DEF j
<1>7. QED BY <1>2, <1>3, <1>5, <1>6, ThreadMoves

LEMMA FailedThread ==
  ASSUME CInv, NEW t \in Senders, sender[t].at \notin {"idle", "read"},
         Set(t, [sender[t] EXCEPT !.at = "failed"]),
         UNCHANGED << rowVars, clients, cached, appChange, creation, orphan >>
  PROVE  CInv'
<1> DEFINE j == [sender[t] EXCEPT !.at = "failed"]
<1>1. sender[t] \in TaskRecords /\ sender[t].client \in DOMAIN clients
      /\ clients[sender[t].client].guard # NoGuard
  BY OnItsWay
<1>2. j \in TaskRecords /\ j.at = "failed" /\ j.client = sender[t].client
  BY <1>1 DEF TaskRecords
<1>3. Set(t, j)
  OBVIOUS
<1> HIDE DEF j
<1>4. QED BY <1>1, <1>2, <1>3, ThreadMoves

LEMMA CompareTokenStep == ASSUME CInv, NEW t \in Senders, CompareToken(t) PROVE CInv'
<1> DEFINE c == Sendings(t)
<1> DEFINE j == [sender[t] EXCEPT !.at = "sending"]
<1>1. /\ sender[t].at = "guarded"
      /\ UNCHANGED << rowVars, clients, cached, appChange, creation, orphan >>
  BY DEF CompareToken, clientVars
<1>2. /\ sender[t] \in TaskRecords /\ sender[t].client \in DOMAIN clients
      /\ ClientOK(c) /\ c.guard # NoGuard /\ c = clients[sender[t].client] /\ c.secret \in Nat
  BY <1>1, OnItsWay
<1>3. CASE c.token = sender[t].token
  <2>1. j \in TaskRecords /\ j.at = "sending" /\ j.client = sender[t].client
        /\ j.token = sender[t].token /\ j.secret = sender[t].secret
    BY <1>2 DEF TaskRecords
  <2>2. /\ sender[t].token \in 1..obtained /\ sender[t].token <= sender[t].secret
        /\ c.secret = NoSecret \/ c.secret >= sender[t].secret
    BY <1>1, <1>2 DEF CInv, SenderOK
  <2>3. sender[t].secret \in Nat /\ sender[t].token \in Nat
    BY <1>2, SecretsAre DEF TaskRecords
  <2>4. sender[t].token = sender[t].secret
    BY <1>2, <1>3, <2>2, <2>3, SecretsAre DEF ClientOK
  <2>5. Set(t, j)
    BY <1>3 DEF CompareToken
  <2> HIDE DEF j, c
  <2>6. QED BY <1>1, <1>2, <2>1, <2>4, <2>5, ThreadMoves
<1>4. CASE c.token # sender[t].token
  BY <1>1, <1>2, <1>4, FailedThread DEF CompareToken
<1>5. QED BY <1>3, <1>4

LEMMA CheckGuardStep == ASSUME CInv, NEW t \in Senders, CheckGuard(t) PROVE CInv'
<1> DEFINE c == Sendings(t)
<1> DEFINE j == [sender[t] EXCEPT !.at = "guarded", !.secret = CredentialsFor]
<1>1. /\ sender[t].at = "authorized"
      /\ UNCHANGED << rowVars, clients, cached, appChange, creation, orphan >>
  BY DEF CheckGuard, clientVars
<1>2. /\ sender[t] \in TaskRecords /\ sender[t].client \in DOMAIN clients
      /\ ClientOK(c) /\ c \in ClientRecords /\ c.guard # NoGuard /\ c = clients[sender[t].client]
      /\ c.secret \in Nat /\ obtained \in Nat
  BY <1>1, OnItsWay
<1>3. CASE GuardPasses(c)
  <2>1. CredentialsFor = obtained /\ obtained \in Secrets
    <3>1. c.guard \in Secrets /\ c.guard = CredentialsFor
      BY <1>2, <1>3 DEF GuardPasses, ClientRecords
    <3>2. QED BY <3>1, StoredIs, SecretsAre DEF CInv, StoresAgree
  <2>2. j \in TaskRecords /\ j.at = "guarded" /\ j.client = sender[t].client
        /\ j.token = sender[t].token /\ j.secret = obtained
    BY <1>2, <2>1, SecretsAre DEF TaskRecords
  <2>3. sender[t].token \in 1..obtained
    BY <1>1 DEF CInv, SenderOK
  <2>4. c.secret = NoSecret \/ c.secret = obtained
    BY <1>1, <1>3, OnItsWay
  <2>5. Set(t, j)
    BY <1>3 DEF CheckGuard
  <2> HIDE DEF j, c
  <2>6. QED BY <1>1, <1>2, <2>2, <2>3, <2>4, <2>5, ThreadMoves
<1>4. CASE ~ GuardPasses(c)
  BY <1>1, <1>4, FailedThread DEF CheckGuard
<1>5. QED BY <1>3, <1>4

LEMMA TakeTokenStep == ASSUME CInv, NEW t \in Senders, TakeToken(t) PROVE CInv'
<1> SUFFICES ASSUME NEW i, i = sender[t].client PROVE CInv'
  OBVIOUS
<1> DEFINE c == clients[i]
<1>1. /\ sender[t].at = "ready"
      /\ UNCHANGED << rowVars, cached, appChange, creation, orphan >>
      /\ UNCHANGED obtained
  BY DEF TakeToken, rowVars
<1>2. /\ sender[t] \in TaskRecords /\ i \in DOMAIN clients /\ Sendings(t) = c
      /\ ClientOK(c) /\ c \in ClientRecords /\ c.guard # NoGuard
      /\ c.secret \in Nat /\ obtained \in Nat
      /\ clients \in Seq(ClientRecords) /\ \A k \in DOMAIN clients : ClientOK(clients[k])
  BY <1>1, OnItsWay DEF CInv
<1>3. CASE ~ GuardPasses(c) \/ c.secret = NoSecret
  BY <1>1, <1>2, <1>3, FailedThread DEF TakeToken
<1>4. CASE GuardPasses(c) /\ c.secret # NoSecret
  <2>1. c.secret = obtained /\ c.secret \in KnownSecrets
    BY <1>1, <1>2, <1>4, OnItsWay DEF ClientRecords
  <2> DEFINE j == [sender[t] EXCEPT !.at = "authorized", !.token = c.secret]
  <2>2. j \in TaskRecords /\ j.at = "authorized" /\ j.client = i /\ j.token = obtained
    BY <1>2, <2>1 DEF TaskRecords
  <2>3. obtained \in 1..obtained
    BY <1>2, <1>4, <2>1, SecretsAre
  <2>4. CASE c.token # NoSecret
    <3>1. c.token = c.secret
      BY <1>2, <2>4 DEF ClientOK
    <3>2. Set(t, j) /\ UNCHANGED clients
      BY <1>2, <1>4, <2>4, <3>1 DEF TakeToken
    <3> HIDE DEF j
    <3>3. QED BY <1>1, <1>2, <2>2, <2>3, <3>2, ThreadMoves
  <2>5. CASE c.token = NoSecret
    <3> DEFINE r == [c EXCEPT !.token = c.secret]
    <3>1. r \in ClientRecords /\ r.secret = c.secret /\ r.token = c.secret /\ r.guard = c.guard
      BY <1>2, <2>1 DEF ClientRecords
    <3>2. Set(t, j) /\ clients' = [clients EXCEPT ![i] = r]
      BY <1>2, <1>4, <2>5 DEF TakeToken
    <3> HIDE DEF j, r
    <3>3. /\ clients' \in Seq(ClientRecords) /\ DOMAIN clients' = DOMAIN clients /\ clients'[i] = r
          /\ \A k \in DOMAIN clients : k # i => clients'[k] = clients[k]
      BY <1>2, <3>1, <3>2
    <3>4. ASSUME NEW k \in DOMAIN clients' PROVE ClientOK(clients[k])'
      <4>1. CASE k = i
        BY <1>1, <1>2, <3>1, <3>3, <4>1 DEF ClientOK
      <4>2. CASE k # i
        BY <1>1, <1>2, <3>3, <4>2 DEF ClientOK
      <4>3. QED BY <4>1, <4>2
    <3>5. \A k \in DOMAIN clients :
            /\ k \in DOMAIN clients' /\ clients'[k].secret = clients[k].secret
            /\ clients[k].guard # NoGuard => clients'[k].guard # NoGuard
      BY <3>1, <3>3
    <3>6. CacheOK'
      BY <1>1, <3>5 DEF CInv, CacheOK
    <3>7. QED BY <1>1, <1>2, <2>2, <2>3, <3>1, <3>2, <3>3, <3>4, <3>5, <3>6, SenderSteps
  <2>6. QED BY <2>4, <2>5
<1>5. QED BY <1>3, <1>4

LEMMA CredentialsStart == AppCredentialsInit => CInv
<1> SUFFICES ASSUME AppCredentialsInit PROVE CInv
  OBVIOUS
<1>1. StoresAgree
  <2>1. NoEntry(0) \in RowRecords /\ Entry(1, 1, 1) \in RowRecords
    BY SecretsAre DEF NoEntry, Entry, RowRecords, NoSecret
  <2>2. registry \in RowRecords /\ obtained = 1 /\ legacy = 1
    BY <2>1 DEF AppCredentialsInit
  <2>3. registry.payload = registry.digest
    BY DEF AppCredentialsInit, NoEntry, Entry
  <2>4. QED BY <2>2, <2>3, SecretsAre DEF StoresAgree
<1>2. BringsStored /\ OrphanOK
  BY DEF AppCredentialsInit, BringsStored, OrphanOK, NoOrphan
<1>3. ASSUME NEW t \in Senders PROVE SenderOK(t)
  BY SecretsAre DEF AppCredentialsInit, SenderOK, NoTask, TaskRecords, NoSecret
<1>4. CacheOK /\ clients \in Seq(ClientRecords) /\ \A i \in DOMAIN clients : ClientOK(clients[i])
  BY DEF AppCredentialsInit, CacheOK
<1>5. QED BY <1>1, <1>2, <1>3, <1>4 DEF CInv, AppCredentialsInit

LEMMA CredentialsStep ==
  ASSUME ~ Overlapping, ~ IdsReused PROVE CInv /\ [AppCredentialsNext]_acVars => CInv'
<1> SUFFICES ASSUME CInv, [AppCredentialsNext]_acVars PROVE CInv'
  OBVIOUS
<1>1. CASE UNCHANGED acVars
  <2>1. StoresAgree' /\ BringsStored' /\ OrphanOK' /\ obtained <= obtained'
    BY <1>1, SecretsAre DEF acVars, CInv, StoresAgree, BringsStored, OrphanOK, HasEntry
  <2>2. QED BY <1>1, <2>1, StoresMove DEF acVars
<1>2. CASE Backfill
  BY <1>2, BackfillStep
<1>3. CASE OldReleaseWrites
  BY <1>3, OldReleaseStep
<1>4. CASE EntryLapses
  BY <1>4, EntryLapsesStep
<1>5. CASE RotateSecret
  BY <1>5, RotateStep
<1>6. CASE DeleteApplication
  BY <1>6, DeleteStep
<1>7. CASE ReachClients
  BY <1>7, ReachClientsStep
<1>8. CASE RecoverClients
  BY <1>8, RecoverClientsStep
<1>9. CASE CreateApplication
  BY <1>9, CreateStep
<1>10. CASE ReachClientsOfNew
  BY <1>10, ReachClientsOfNewStep
<1>11. CASE ReadOrphan
  BY <1>11, ReadOrphanStep
<1>12. CASE DeleteOrphan
  BY <1>12, DeleteOrphanStep
<1>13. ASSUME NEW t \in Senders,
              ReadSecret(t) \/ ObtainClient(t) \/ TakeToken(t)
                \/ CheckGuard(t) \/ CompareToken(t) \/ FinishRequest(t)
       PROVE  CInv'
  BY <1>13, ReadSecretStep, ObtainClientStep, TakeTokenStep, CheckGuardStep, CompareTokenStep,
     FinishRequestStep
<1>14. QED BY <1>1, <1>2, <1>3, <1>4, <1>5, <1>6, <1>7, <1>8, <1>9, <1>10, <1>11, <1>12, <1>13
          DEF AppCredentialsNext

\* Only a deletion takes a row, and it takes the source along; that of an orphan finds none.
LEMMA RowsGo ==
  ASSUME ~ IdsReused, CInv, [AppCredentialsNext]_acVars, HasEntry, registry'.generation = 0
  PROVE  legacy' = NoSecret
<1>1. registry' # registry
  BY DEF HasEntry
<1>2. registry.generation \in Nat /\ registry \in RowRecords
  BY DEF CInv, StoresAgree, RowRecords
<1>3. ASSUME NEW s, NEW newly \in BOOLEAN, registry' = Mirrored(s, newly) PROVE FALSE
  BY <1>2, <1>3 DEF HasEntry, Mirrored, Entry
<1>4. ~ Backfill
  BY <1>3 DEF Backfill
<1>5. ~ RotateSecret /\ ~ CreateApplication
  BY <1>3 DEF RotateSecret, CreateApplication, StoreEntry
<1>6. ~ EntryLapses
  <2>1. EntryLapses => registry'.generation = registry.generation
    BY <1>2 DEF EntryLapses, RowRecords
  <2>2. QED BY <2>1 DEF HasEntry
<1>7. CASE DeleteApplication
  BY <1>7 DEF DeleteApplication
<1>8. CASE DeleteOrphan
  BY <1>8, TakesOrphansOnly
<1>9. ~ OldReleaseWrites /\ ~ ReachClients /\ ~ RecoverClients /\ ~ ReachClientsOfNew /\ ~ ReadOrphan
  BY <1>1 DEF OldReleaseWrites, ReachClients, RecoverClients, ReachClientsOfNew, ReadOrphan, rowVars
<1>10. \A t \in Senders :
         /\ ~ ReadSecret(t) /\ ~ ObtainClient(t) /\ ~ TakeToken(t)
         /\ ~ CheckGuard(t) /\ ~ CompareToken(t) /\ ~ FinishRequest(t)
  BY <1>1 DEF ReadSecret, ObtainClient, TakeToken, CheckGuard, CompareToken, FinishRequest, rowVars
<1>11. AppCredentialsNext
  BY <1>1 DEF acVars
<1>12. QED BY <1>4, <1>5, <1>6, <1>7, <1>8, <1>9, <1>10, <1>11 DEF AppCredentialsNext

\* As long as a creation is not overtaken by the next change and the database gives no id
\* twice: a request goes out only under the secret that was stored when it was last
\* checked, and a registry row goes only with its source.
THEOREM CredentialsStaySound ==
  ASSUME ~ Overlapping, ~ IdsReused PROVE AppCredentialsSpec => CredentialsAreSound
<1> DEFINE A == HasEntry /\ registry'.generation = 0 => legacy' = NoSecret
<1>1. CInv /\ [AppCredentialsNext]_acVars => CInv'
  BY CredentialsStep
<1>2. CInv => SentUnderStoredSecret
  BY DEF CInv, SenderOK, SentUnderStoredSecret
<1>3. CInv /\ [AppCredentialsNext]_acVars => [A]_acVars
  BY RowsGo
<1> HIDE DEF A
<1>4. AppCredentialsSpec => []SentUnderStoredSecret
  BY CredentialsStart, <1>1, <1>2, PTL DEF AppCredentialsSpec
<1>5. AppCredentialsSpec => [][A]_acVars
  BY CredentialsStart, <1>1, <1>3, PTL DEF AppCredentialsSpec
<1>6. AppCredentialsSpec => RowGoesWithSource
  BY <1>5 DEF RowGoesWithSource, A
<1>7. QED BY <1>4, <1>6 DEF CredentialsAreSound

\* A thread has a client of the list while it is past the look-up.
TaskBounded(j) ==
  /\ j \in TaskRecords /\ j.client <= Len(clients)
  /\ j.at \notin {"idle", "read"} => j.client # 0
  /\ j.at = "read" => j.secret \in Secrets

\* The types of the stores and of the clients, whether or not changes overtake each
\* other and ids come back.
ClientsBounded ==
  /\ obtained \in Secrets /\ legacy \in KnownSecrets /\ registry \in RowRecords
  /\ appChange \in KnownSecrets \cup {NoChange} /\ creation \in Secrets \cup {NoChange}
  /\ clients \in Seq(ClientRecords) /\ Len(clients) <= MaxClients
  /\ cached \in [Secrets -> 0..Len(clients)]
  /\ DOMAIN sender = Senders /\ \A t \in Senders : TaskBounded(sender[t])
  /\ changes \in 0..MaxChanges

LEMMA StoredTyped == ASSUME ClientsBounded PROVE CredentialsFor \in KnownSecrets
BY DEF ClientsBounded, CredentialsFor, RowRecords, KnownSecrets

\* The rows change while clients and threads stay.
LEMMA RowsBounded ==
  ASSUME ClientsBounded, UNCHANGED << clients, cached, sender >>,
         obtained' \in Secrets, legacy' \in KnownSecrets, registry' \in RowRecords,
         appChange' \in KnownSecrets \cup {NoChange}, creation' \in Secrets \cup {NoChange},
         changes' \in 0..MaxChanges
  PROVE  ClientsBounded'
BY DEF ClientsBounded, TaskBounded

LEMMA MirroredTyped ==
  ASSUME registry \in RowRecords, NEW s \in Secrets, NEW newly \in BOOLEAN
  PROVE  Mirrored(s, newly) \in RowRecords
<1>1. registry.id \in Nat /\ registry.generation \in Nat /\ s \in KnownSecrets
  BY DEF RowRecords, KnownSecrets
<1>2. \A i, g \in Nat : Entry(i, s, g) \in RowRecords
  BY <1>1 DEF Entry, RowRecords
<1>3. NextId \in Nat
  BY <1>1 DEF NextId
<1>4. QED BY <1>1, <1>2, <1>3 DEF Mirrored

LEMMA StoreBounded ==
  ASSUME ClientsBounded, NEW s \in Accepted, NEW newly \in BOOLEAN, StoreEntry(s, newly)
  PROVE  /\ s \in Secrets /\ obtained' \in Secrets /\ legacy' \in KnownSecrets
         /\ registry' \in RowRecords /\ changes' \in 0..MaxChanges
<1>1. s \in Secrets
  BY AppCredentialsAssumption DEF ClientsBounded, Accepted, Secrets
<1>2. Mirrored(s, newly) \in RowRecords
  BY <1>1, MirroredTyped DEF ClientsBounded
<1>3. QED BY <1>1, <1>2, AppCredentialsAssumption DEF StoreEntry, ClientsBounded, KnownSecrets

LEMMA EmptyEntry == ASSUME registry \in RowRecords PROVE NoEntry(registry.id) \in RowRecords
BY DEF NoEntry, RowRecords, KnownSecrets

LEMMA ChangesBounded ==
  ASSUME ClientsBounded,
         Backfill \/ EntryLapses \/ RotateSecret \/ DeleteApplication \/ CreateApplication
           \/ ReadOrphan \/ DeleteOrphan
  PROVE  ClientsBounded'
<1>0. registry \in RowRecords /\ MaxChanges \in Nat
  BY AppCredentialsAssumption DEF ClientsBounded
<1>1. CASE Backfill
  <2>1. legacy \in Secrets
    BY <1>1 DEF Backfill, ClientsBounded, KnownSecrets
  <2>2. registry' \in RowRecords
    BY <1>0, <1>1, <2>1, MirroredTyped DEF Backfill
  <2>3. QED BY <1>1, <2>2, RowsBounded DEF Backfill, ClientsBounded
<1>2. CASE EntryLapses
  <2>1. [registry EXCEPT !.usable = FALSE] \in RowRecords
    BY <1>0 DEF RowRecords
  <2>2. QED BY <1>2, <2>1, RowsBounded DEF EntryLapses, ClientsBounded
<1>3. CASE RotateSecret
  <2>1. PICK s \in Accepted \ {legacy} : StoreEntry(s, FALSE) /\ appChange' = s
    BY <1>3 DEF RotateSecret
  <2>2. s \in Accepted /\ FALSE \in BOOLEAN
    BY <2>1
  <2>3. /\ s \in Secrets /\ obtained' \in Secrets /\ legacy' \in KnownSecrets
        /\ registry' \in RowRecords /\ changes' \in 0..MaxChanges
    BY <2>1, <2>2, StoreBounded
  <2>4. UNCHANGED << clients, cached, sender, creation >>
    BY <1>3 DEF RotateSecret
  <2>5. QED BY <2>1, <2>3, <2>4, RowsBounded DEF ClientsBounded, KnownSecrets
<1>4. CASE DeleteApplication
  <2>1. /\ UNCHANGED << obtained, clients, cached, sender, creation >> /\ legacy' = NoSecret
        /\ registry' = NoEntry(registry.id) /\ appChange' = NoSecret
        /\ changes' = changes + 1 /\ changes < MaxChanges
    BY <1>4 DEF DeleteApplication
  <2>2. changes' \in 0..MaxChanges /\ NoSecret \in KnownSecrets
    BY <1>0, <2>1 DEF ClientsBounded, KnownSecrets
  <2>3. QED BY <1>0, <2>1, <2>2, EmptyEntry, RowsBounded DEF ClientsBounded
<1>5. CASE CreateApplication
  <2>1. PICK s \in Accepted : StoreEntry(s, TRUE) /\ creation' = s
    BY <1>5 DEF CreateApplication
  <2>2. TRUE \in BOOLEAN
    OBVIOUS
  <2>3. /\ s \in Secrets /\ obtained' \in Secrets /\ legacy' \in KnownSecrets
        /\ registry' \in RowRecords /\ changes' \in 0..MaxChanges
    BY <2>1, <2>2, StoreBounded
  <2>4. UNCHANGED << clients, cached, sender, appChange >>
    BY <1>5 DEF CreateApplication
  <2>5. QED BY <2>1, <2>3, <2>4, RowsBounded DEF ClientsBounded
<1>6. CASE ReadOrphan
  BY <1>6, RowsBounded DEF ReadOrphan, rowVars, clientVars, ClientsBounded
<1>7. CASE DeleteOrphan
  <2>1. registry' \in RowRecords
    BY <1>0, <1>7, EmptyEntry DEF DeleteOrphan
  <2>2. QED BY <1>7, <2>1, RowsBounded DEF DeleteOrphan, clientVars, ClientsBounded
<1>8. QED BY <1>1, <1>2, <1>3, <1>4, <1>5, <1>6, <1>7

\* The clients are told, and none is lost or added.
LEMMA InvalidateBounded ==
  ASSUME ClientsBounded, NEW v \in KnownSecrets, NEW g \in Secrets \cup {NoGuard}, Invalidate(v, g),
         UNCHANGED << rowVars, sender >>,
         appChange' \in KnownSecrets \cup {NoChange}, creation' \in Secrets \cup {NoChange}
  PROVE  ClientsBounded'
<1> DEFINE told(i) == [secret |-> v, token |-> NoSecret, guard |-> IF g = NoGuard THEN clients[i].guard ELSE g]
<1>1. clients \in Seq(ClientRecords) /\ Len(clients) \in Nat /\ Len(clients) <= MaxClients
  BY DEF ClientsBounded
<1>2. ASSUME NEW i \in 1..Len(clients) PROVE told(i) \in ClientRecords
  <2>1. clients[i] \in ClientRecords
    BY <1>1
  <2>2. (IF g = NoGuard THEN clients[i].guard ELSE g) \in Secrets \cup {NoGuard} /\ NoSecret \in KnownSecrets
    BY <2>1 DEF ClientRecords, KnownSecrets
  <2>3. QED BY <2>2 DEF ClientRecords
<1>3. clients' = [i \in 1..Len(clients) |-> told(i)]
  BY <1>1 DEF Invalidate
<1> HIDE DEF told
<1>4. clients' \in Seq(ClientRecords) /\ Len(clients') = Len(clients)
  BY <1>1, <1>2, <1>3
<1>5. cached' \in [Secrets -> 0..Len(clients')]
  BY <1>1, <1>4 DEF Invalidate
<1>6. DOMAIN sender' = Senders /\ \A t \in Senders : TaskBounded(sender[t])'
  BY <1>4 DEF ClientsBounded, TaskBounded
<1>7. QED BY <1>1, <1>4, <1>5, <1>6 DEF ClientsBounded, rowVars

LEMMA ReachingBounded ==
  ASSUME ClientsBounded, ReachClients \/ RecoverClients \/ ReachClientsOfNew
  PROVE  ClientsBounded'
<1>0. /\ CredentialsFor \in KnownSecrets /\ NoSecret \in KnownSecrets
      /\ CredentialsFor # NoSecret => CredentialsFor \in Secrets
  BY StoredTyped DEF KnownSecrets
<1>1. UNCHANGED << rowVars, sender >>
  BY DEF ReachClients, RecoverClients, ReachClientsOfNew
<1>2. appChange' \in KnownSecrets \cup {NoChange} /\ creation' \in Secrets \cup {NoChange}
  BY DEF ReachClients, RecoverClients, ReachClientsOfNew, ClientsBounded
<1>3. \/ UNCHANGED << clients, cached >>
      \/ \E v \in KnownSecrets, g \in Secrets \cup {NoGuard} : Invalidate(v, g)
  <2>1. CASE ReachClients
    BY <1>0, <2>1 DEF ReachClients, clientVars, ClientsBounded
  <2>2. CASE RecoverClients
    BY <1>0, <2>2 DEF RecoverClients
  <2>3. CASE ReachClientsOfNew
    BY <1>0, <2>3 DEF ReachClientsOfNew, clientVars, ClientsBounded, KnownSecrets
  <2>4. QED BY <2>1, <2>2, <2>3
<1>4. CASE UNCHANGED << clients, cached >>
  BY <1>1, <1>2, <1>4, RowsBounded DEF rowVars, ClientsBounded
<1>5. CASE \E v \in KnownSecrets, g \in Secrets \cup {NoGuard} : Invalidate(v, g)
  BY <1>1, <1>2, <1>5, InvalidateBounded
<1>6. QED BY <1>3, <1>4, <1>5

LEMMA IdleTask == NoTask \in TaskRecords /\ NoTask.at = "idle" /\ NoTask.client = 0
BY DEF NoTask, TaskRecords, KnownSecrets

LEMMA OldReleaseBounded == ASSUME ClientsBounded, OldReleaseWrites PROVE ClientsBounded'
<1>1. PICK v \in Accepted \cup {NoSecret} :
        legacy' = v /\ obtained' = IF v = NoSecret THEN obtained ELSE v
  BY DEF OldReleaseWrites
<1>2. obtained' \in Secrets /\ legacy' \in KnownSecrets
  BY <1>1, AppCredentialsAssumption DEF ClientsBounded, Accepted, Secrets, KnownSecrets, NoSecret
<1>3. changes' \in 0..MaxChanges
  BY AppCredentialsAssumption DEF OldReleaseWrites, ClientsBounded
<1>4. /\ clients' = << >> /\ cached' = [s \in Secrets |-> 0] /\ sender' = [t \in Senders |-> NoTask]
      /\ UNCHANGED << registry, appChange, creation >>
  BY DEF OldReleaseWrites
<1>5. clients' \in Seq(ClientRecords) /\ Len(clients') = 0 /\ MaxClients \in Nat
  BY <1>4, AppCredentialsAssumption
<1>6. \A t \in Senders : TaskBounded(sender[t])'
  BY <1>4, <1>5, IdleTask DEF TaskBounded
<1>7. QED BY <1>2, <1>3, <1>4, <1>5, <1>6 DEF ClientsBounded

\* A thread moves on while the list of clients keeps its length.
LEMMA ThreadBounded ==
  ASSUME ClientsBounded, NEW t \in Senders, NEW j, Set(t, j), TaskBounded(j)',
         UNCHANGED << rowVars, appChange, creation >>,
         clients' \in Seq(ClientRecords), Len(clients') <= MaxClients, Len(clients) <= Len(clients'),
         cached' \in [Secrets -> 0..Len(clients')]
  PROVE  ClientsBounded'
<1>1. ASSUME NEW u \in Senders PROVE TaskBounded(sender[u])'
  <2>1. CASE u = t
    <3>1. sender'[u] = j
      BY <2>1 DEF Set, ClientsBounded
    <3>2. QED BY <3>1 DEF TaskBounded
  <2>2. CASE u # t
    <3>1. sender'[u] = sender[u] /\ TaskBounded(sender[u])
      BY <2>2 DEF Set, ClientsBounded
    <3>2. Len(clients) \in Nat /\ Len(clients') \in Nat /\ sender[u].client \in Nat
      BY <3>1 DEF ClientsBounded, TaskBounded, TaskRecords
    <3>3. QED BY <3>1, <3>2 DEF TaskBounded
  <2>3. QED BY <2>1, <2>2
<1>2. QED BY <1>1 DEF ClientsBounded, rowVars, Set

LEMMA ObtainBounded == ASSUME ClientsBounded, NEW t \in Senders, ObtainClient(t) PROVE ClientsBounded'
<1> SUFFICES ASSUME NEW s, s = sender[t].secret PROVE ClientsBounded'
  OBVIOUS
<1> DEFINE new == cached[s] = 0
           i == IF new THEN Len(clients) + 1 ELSE cached[s]
           fits == CredentialsFor = s
           with(c) == IF fits THEN [c EXCEPT !.guard = s] ELSE c
           fresh == [secret |-> s, guard |-> NoGuard, token |-> NoSecret]
           j == IF fits THEN [NoTask EXCEPT !.at = "ready", !.client = i] ELSE NoTask
<1>1. sender[t].at = "read" /\ UNCHANGED << rowVars, appChange, creation >>
  BY DEF ObtainClient
<1>2. s \in Secrets /\ s \in KnownSecrets /\ NoSecret \in KnownSecrets
  BY <1>1 DEF ClientsBounded, TaskBounded, KnownSecrets
<1>3. /\ clients \in Seq(ClientRecords) /\ Len(clients) \in Nat /\ Len(clients) <= MaxClients
      /\ cached \in [Secrets -> 0..Len(clients)] /\ MaxClients \in Nat
  BY AppCredentialsAssumption DEF ClientsBounded
<1>4. CASE known \notin {NotSet, s}
  <2>1. Set(t, NoTask) /\ UNCHANGED << clients, cached >>
    BY <1>4 DEF ObtainClient, clientVars
  <2>2. TaskBounded(NoTask)'
    BY <1>3, <2>1, IdleTask DEF TaskBounded
  <2>3. QED BY <1>1, <1>3, <2>1, <2>2, ThreadBounded
<1>5. CASE known \in {NotSet, s}
  <2>1. /\ clients' = IF new THEN Append(clients, with(fresh)) ELSE [clients EXCEPT ![i] = with(clients[i])]
        /\ cached' = [cached EXCEPT ![s] = i] /\ Set(t, j) /\ i <= MaxClients
    BY <1>5 DEF ObtainClient
  <2>2. ASSUME NEW c \in ClientRecords PROVE with(c) \in ClientRecords
    BY <1>2 DEF ClientRecords
  <2>3. fresh \in ClientRecords
    BY <1>2 DEF ClientRecords
  <2>4. i \in 1..Len(clients) \/ (new /\ i = Len(clients) + 1)
    BY <1>2, <1>3
  <2> DEFINE c == IF new THEN with(fresh) ELSE with(clients[i])
  <2>5. c \in ClientRecords /\ (~ new => i \in 1..Len(clients))
    BY <1>3, <2>2, <2>3, <2>4
  <2>6. \/ clients' = Append(clients, c) /\ i = Len(clients) + 1
        \/ clients' = [clients EXCEPT ![i] = c] /\ i \in 1..Len(clients)
    BY <2>1, <2>5
  <2>7. i <= MaxClients /\ cached' = [cached EXCEPT ![s] = i] /\ Set(t, j)
    BY <2>1
  <2>8. j \in TaskRecords /\ j.at # "read" /\ (j.client = i \/ (j.at = "idle" /\ j.client = 0))
    <3>1. i \in Nat
      BY <1>3, <2>6
    <3> HIDE DEF i, fits
    <3>2. [NoTask EXCEPT !.at = "ready", !.client = i] \in TaskRecords
          /\ [NoTask EXCEPT !.at = "ready", !.client = i].at = "ready"
          /\ [NoTask EXCEPT !.at = "ready", !.client = i].client = i
      BY <3>1, IdleTask DEF TaskRecords
    <3>3. QED BY <3>2, IdleTask
  <2> HIDE DEF c, i, j, new, fits
  <2>9. /\ clients' \in Seq(ClientRecords) /\ i \in 1..Len(clients') /\ Len(clients') \in Nat
        /\ Len(clients) <= Len(clients') /\ Len(clients') <= MaxClients
    BY <1>3, <2>5, <2>6, <2>7
  <2>10. cached' \in [Secrets -> 0..Len(clients')]
    <3>1. \A x \in Secrets : cached[x] \in 0..Len(clients)
      BY <1>3
    <3>2. \A n \in 0..Len(clients) : n \in 0..Len(clients')
      BY <1>3, <2>9
    <3>3. i \in 0..Len(clients')
      BY <2>9
    <3>4. QED BY <1>3, <2>7, <3>1, <3>2, <3>3
  <2>11. PICK k : Set(t, k) /\ k \in TaskRecords /\ k.at # "read"
                  /\ (k.client = i \/ (k.at = "idle" /\ k.client = 0))
    BY <2>7, <2>8
  <2>12. TaskBounded(k)'
    BY <2>9, <2>11 DEF TaskBounded
  <2>13. QED BY <1>1, <2>9, <2>10, <2>11, <2>12, ThreadBounded
<1>6. QED BY <1>4, <1>5

LEMMA TokenBounded == ASSUME ClientsBounded, NEW t \in Senders, TakeToken(t) PROVE ClientsBounded'
<1> SUFFICES ASSUME NEW i, i = sender[t].client, NEW c, c = clients[i] PROVE ClientsBounded'
  OBVIOUS
<1>1. /\ sender[t].at = "ready" /\ UNCHANGED << rowVars, cached, appChange, creation >>
      /\ TaskBounded(sender[t]) /\ clients \in Seq(ClientRecords) /\ Len(clients) \in Nat
      /\ Len(clients) <= MaxClients /\ cached \in [Secrets -> 0..Len(clients)]
  BY DEF TakeToken, ClientsBounded
<1>2. i \in 1..Len(clients) /\ c \in ClientRecords
  BY <1>1 DEF TaskBounded, TaskRecords
<1>3. /\ Set(t, [sender[t] EXCEPT !.at = "failed"])
         \/ \E v \in {c.token, c.secret} : Set(t, [sender[t] EXCEPT !.at = "authorized", !.token = v])
      /\ UNCHANGED clients \/ clients' = [clients EXCEPT ![i].token = c.secret]
  BY DEF TakeToken, Sendings
<1>4. clients' \in Seq(ClientRecords) /\ Len(clients') = Len(clients)
  <2>1. CASE UNCHANGED clients
    BY <1>1, <2>1
  <2>2. CASE clients' = [clients EXCEPT ![i].token = c.secret]
    <3> DEFINE w == [c EXCEPT !.token = c.secret]
    <3>1. w \in ClientRecords
      BY <1>2 DEF ClientRecords
    <3>2. clients' = [clients EXCEPT ![i] = w]
      BY <2>2
    <3> HIDE DEF w
    <3>3. QED BY <1>1, <1>2, <3>1, <3>2
  <2>3. QED BY <1>3, <2>1, <2>2
<1>5. \E j : Set(t, j) /\ j \in TaskRecords /\ j.at # "read" /\ j.client = i
  <2>1. sender[t] \in TaskRecords /\ c.token \in KnownSecrets /\ c.secret \in KnownSecrets
    BY <1>1, <1>2 DEF TaskBounded, ClientRecords
  <2>2. /\ [sender[t] EXCEPT !.at = "failed"] \in TaskRecords
        /\ [sender[t] EXCEPT !.at = "failed"].at # "read"
        /\ [sender[t] EXCEPT !.at = "failed"].client = i
    BY <2>1 DEF TaskRecords
  <2>3. ASSUME NEW v \in KnownSecrets
        PROVE  /\ [sender[t] EXCEPT !.at = "authorized", !.token = v] \in TaskRecords
               /\ [sender[t] EXCEPT !.at = "authorized", !.token = v].at # "read"
               /\ [sender[t] EXCEPT !.at = "authorized", !.token = v].client = i
    BY <2>1 DEF TaskRecords
  <2>4. QED BY <1>3, <2>1, <2>2, <2>3
<1>6. PICK j : Set(t, j) /\ j \in TaskRecords /\ j.at # "read" /\ j.client = i
  BY <1>5
<1>7. TaskBounded(j)'
  BY <1>2, <1>4, <1>6 DEF TaskBounded
<1>8. QED BY <1>1, <1>4, <1>6, <1>7, ThreadBounded

\* The other steps of a thread leave the clients alone.
LEMMA QuietThreadBounded ==
  ASSUME ClientsBounded, NEW t \in Senders,
         ReadSecret(t) \/ CheckGuard(t) \/ CompareToken(t) \/ FinishRequest(t)
  PROVE  ClientsBounded'
<1>1. UNCHANGED << rowVars, clients, cached, appChange, creation >>
  BY DEF ReadSecret, CheckGuard, CompareToken, FinishRequest, clientVars
<1>2. /\ sender[t] \in TaskRecords /\ sender[t].client <= Len(clients) /\ TaskBounded(sender[t])
      /\ Len(clients) \in Nat /\ CredentialsFor \in KnownSecrets
  BY StoredTyped DEF ClientsBounded, TaskBounded
<1>3. \E j : Set(t, j) /\ TaskBounded(j)
  <2>1. CASE ReadSecret(t)
    <3> DEFINE j == [NoTask EXCEPT !.at = "read", !.secret = CredentialsFor]
    <3>1. Set(t, j) /\ CredentialsFor \in Secrets
      BY <1>2, <2>1 DEF ReadSecret, KnownSecrets
    <3>2. j \in TaskRecords /\ j.at = "read" /\ j.secret = CredentialsFor /\ j.client = 0
      BY <1>2, IdleTask DEF TaskRecords
    <3> HIDE DEF j
    <3>3. QED BY <1>2, <3>1, <3>2 DEF TaskBounded
  <2>2. CASE CheckGuard(t) \/ CompareToken(t)
    <3>1. /\ sender[t].at \in {"authorized", "guarded"}
          /\ \/ Set(t, [sender[t] EXCEPT !.at = "guarded", !.secret = CredentialsFor])
             \/ Set(t, [sender[t] EXCEPT !.at = "failed"])
             \/ Set(t, [sender[t] EXCEPT !.at = "sending"])
      BY <2>2 DEF CheckGuard, CompareToken
    <3>2. ASSUME NEW at \in {"guarded", "failed", "sending"}, NEW v \in KnownSecrets
          PROVE  TaskBounded([sender[t] EXCEPT !.at = at, !.secret = v])
                 /\ TaskBounded([sender[t] EXCEPT !.at = at])
      BY <1>2, <3>1 DEF TaskBounded, TaskRecords
    <3>3. QED BY <1>2, <3>1, <3>2
  <2>3. CASE FinishRequest(t)
    <3> DEFINE j == [NoTask EXCEPT !.at = "ready", !.client = sender[t].client]
    <3>1. sender[t].at \in {"sending", "failed"} /\ (Set(t, j) \/ Set(t, NoTask))
      BY <2>3 DEF FinishRequest
    <3>2. j \in TaskRecords /\ j.at = "ready" /\ j.client = sender[t].client
      BY <1>2, IdleTask DEF TaskRecords
    <3> HIDE DEF j
    <3>3. TaskBounded(j) /\ TaskBounded(NoTask)
      BY <1>2, <3>1, <3>2, IdleTask DEF TaskBounded
    <3>4. QED BY <3>1, <3>3
  <2>4. QED BY <2>1, <2>2, <2>3
<1>4. PICK j : Set(t, j) /\ TaskBounded(j)
  BY <1>3
<1>5. TaskBounded(j)'
  BY <1>1, <1>4 DEF TaskBounded
<1>6. QED BY <1>1, <1>2, <1>4, <1>5, ThreadBounded DEF ClientsBounded

LEMMA CredentialsStepBounded ==
  ASSUME ClientsBounded, [AppCredentialsNext]_acVars PROVE ClientsBounded'
<1>1. CASE UNCHANGED acVars
  BY <1>1, RowsBounded DEF acVars, ClientsBounded
<1>2. QED
  BY <1>1, ChangesBounded, ReachingBounded, OldReleaseBounded, ObtainBounded, TokenBounded,
     QuietThreadBounded DEF AppCredentialsNext

LEMMA CredentialsStartBounded == ASSUME AppCredentialsInit PROVE ClientsBounded
<1>1. 1 \in Secrets /\ 1 \in KnownSecrets /\ NoSecret \in KnownSecrets /\ MaxClients \in Nat /\ MaxChanges \in Nat
  BY SecretsAre, AppCredentialsAssumption DEF KnownSecrets
<1>2. NoEntry(0) \in RowRecords /\ Entry(1, 1, 1) \in RowRecords
  BY <1>1 DEF NoEntry, Entry, RowRecords
<1>3. clients = << >> /\ clients \in Seq(ClientRecords) /\ Len(clients) = 0
  BY DEF AppCredentialsInit
<1>4. \A t \in Senders : TaskBounded(sender[t])
  BY <1>3, IdleTask DEF AppCredentialsInit, TaskBounded
<1>5. QED BY <1>1, <1>2, <1>3, <1>4 DEF AppCredentialsInit, ClientsBounded

LEMMA CredentialTypes == ASSUME ClientsBounded PROVE AppCredentialsTypeOK
<1>1. legacy \in KnownSecrets /\ registry.payload \in KnownSecrets
  BY DEF ClientsBounded, RowRecords
<1>2. \A t \in Senders : sender[t].client \in 0..Len(clients)
  BY DEF ClientsBounded, TaskBounded, TaskRecords
<1>3. QED BY <1>1, <1>2 DEF ClientsBounded, KnownSecrets, AppCredentialsTypeOK

\* The two stores, the clients and the threads that send with them have their types, also
\* where changes overtake each other and the database gives an id twice
\* (platform_applications/service.py, feishu/service.py).
THEOREM CredentialTypesHold == AppCredentialsSpec => []AppCredentialsTypeOK
<1>1. AppCredentialsInit => ClientsBounded
  BY CredentialsStartBounded
<1>2. ClientsBounded /\ [AppCredentialsNext]_acVars => ClientsBounded'
  BY CredentialsStepBounded
<1>3. ClientsBounded => AppCredentialsTypeOK
  BY CredentialTypes
<1>4. QED BY <1>1, <1>2, <1>3, PTL DEF AppCredentialsSpec

-----------------------------------------------------------------------------
(* The parts together. *)

LEMMA PartsBegin ==
  Init => /\ EnrollInit /\ NoticeInit /\ NoteInit /\ IngressInit /\ GroupPanelInit
          /\ AppCredentialsInit /\ DisplayNamesInit /\ AuditDelegationInit /\ PollingInit
          /\ BudgetsInit /\ TrafficInit /\ BroadcastInit /\ PersonalPanelInit
BY DEF Init

LEMMA PartsMove ==
  [Next]_vars =>
    /\ [EnrollNext]_enrollVars /\ [NoticeNext]_noticeVars /\ [NoteNext]_noteVars
    /\ [IngressNext]_ingressVars /\ [GroupPanelNext]_gpVars /\ [AppCredentialsNext]_acVars
    /\ [DisplayNamesNext]_dnVars /\ [AuditDelegationNext]_adVars /\ [PollingNext]_pollingVars
    /\ [BudgetsNext]_budgetVars /\ [TrafficNext]_trafficVars /\ [BroadcastNext]_broadcastVars
    /\ [PersonalPanelNext]_personalVars
BY DEF Next, vars

(***************************************************************************)
(* ServicesTyped: a behaviour of all the parts together is one of each of  *)
(* them, so what is proved of a part's specification holds in it; here the *)
(* types of all of them.                                                   *)
(***************************************************************************)
THEOREM ServicesTyped == Spec => []ServicesTypeOK
<1>1. Spec => /\ EnrollSpec /\ NoticeSpec /\ NoteSpec /\ IngressSpec /\ GroupPanelSpec
              /\ AppCredentialsSpec /\ DisplayNamesSpec /\ AuditDelegationSpec /\ PollingSpec
              /\ BudgetsSpec /\ TrafficSpec /\ BroadcastSpec /\ PersonalPanelSpec
  BY PartsBegin, PartsMove, PTL
  DEF Spec, EnrollSpec, NoticeSpec, NoteSpec, IngressSpec, GroupPanelSpec, AppCredentialsSpec,
      DisplayNamesSpec, AuditDelegationSpec, PollingSpec, BudgetsSpec, TrafficSpec,
      BroadcastSpec, PersonalPanelSpec
<1>2. /\ EnrollTypeOK /\ NoticeTypeOK /\ NoteTypeOK /\ IngressTypeOK /\ GroupPanelTypeOK
      /\ AppCredentialsTypeOK /\ DisplayNamesTypeOK /\ AuditDelegationTypeOK /\ PollingTypeOK
      /\ BudgetsTypeOK /\ TrafficTypeOK /\ BroadcastTypeOK /\ PersonalPanelTypeOK
      => ServicesTypeOK
  BY DEF ServicesTypeOK
<1>3. QED
  BY <1>1, <1>2, EnrollTypesHold, NoticeTypesHold, NoteTypesHold, IngressTypesHold, GroupTypesHold,
     CredentialTypesHold, NameTypesHold, AuditTypesHold, PollingTypesHold, BudgetsBoundedAlways,
     TrafficBounded, BroadcastsTyped, PersonalTypesHold, PTL
=============================================================================
