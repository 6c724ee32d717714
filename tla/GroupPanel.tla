----------------------------- MODULE GroupPanel -----------------------------
(***************************************************************************)
(* The optional Feishu features of one group: what the platform says of    *)
(* the bot's membership (feishu/membership.py) and the one message that    *)
(* repeated queries edit instead of posting again (feishu/query_panel.py). *)
(* Membership events arrive late, twice and out of order; a panel answer   *)
(* is prepared in one transaction, sent with no transaction open, and      *)
(* recorded in a second one, and in between a membership change, a         *)
(* re-binding of the bot or a crash may come.                              *)
(***************************************************************************)
EXTENDS Naturals, Sequences, FiniteSets

CONSTANTS
  Queries,     \* full queries the group's people send to the bot
  Events,      \* membership events: records [id, time, removed]
  MaxEdits,    \* MAX_EDITS: edits of one panel message
  MaxBindings, \* bound: how often the group is bound to a bot identity
  MaxMessages, \* bound: panel messages posted
  Toggled,     \* bound: the switches that are turned on and off during a run
  NoRow,       \* a table holds no row for this group or bot
  NoQuery      \* the panel's mutex is free

\* The rows of the two tables, as this model keeps them.
ObservationRows == [scope : Nat, event : Events]
PanelRows == [scope : Nat, generation : Nat, message : Nat, young : BOOLEAN,
              edits : Nat, cooling : BOOLEAN]

ASSUME GroupPanelAssumption ==
  /\ IsFiniteSet(Queries) /\ Toggled \subseteq {"notices", "panel", "greeting"}
  /\ Events \subseteq [id : Nat, time : Nat, removed : BOOLEAN]
  /\ MaxEdits \in Nat /\ MaxBindings \in Nat \ {0} /\ MaxMessages \in Nat
  /\ NoRow \notin ObservationRows \cup PanelRows

VARIABLES
  scope,    \* identity the group is bound to; 0 while no bot is bound
  options,  \* the opt-in switches that are on
  up,       \* the bot is running
  claims,   \* FeishuMembershipEvent: ids of the events already taken
  observed, \* FeishuGroupMembership: [scope, event] or NoRow
  taken,    \* ghost: events taken since the observation's scope began
  panel,    \* FeishuQueryPanel, or NoRow
  mutex,    \* the query that holds the panel's lock
  query,    \* per query: where it stands and what its sender remembers
  posted,   \* ghost: messages a query may have put into the group
  message   \* ghost: per panel message, the binding it was posted for, and
            \*   whether no membership change was recorded since

panelVars == <<panel, mutex, query, posted, message>>
groupVars == <<scope, options, up, claims, observed, taken>>
gpVars == <<groupVars, panelVars>>

Options == {"notices", "panel", "greeting"}
NoMessage == 0
Waiting == [at |-> "new", scope |-> 0, generation |-> 0, message |-> NoMessage,
            result |-> "none", got |-> NoMessage]

GroupPanelInit ==
  /\ scope \in {0, 1} /\ up = TRUE
  /\ options = Options
  /\ claims = {} /\ observed = NoRow /\ taken = {}
  /\ panel = NoRow /\ mutex = NoQuery
  /\ query = [q \in Queries |-> Waiting]
  /\ posted = [q \in Queries |-> 0]
  /\ message = <<>>

-----------------------------------------------------------------------------
(* Membership observations. *)

\* event_order: time, then removed over present, then the event's id.
Later(e, f) ==
  \/ e.time > f.time
  \/ e.time = f.time /\ e.removed /\ ~f.removed
  \/ e.time = f.time /\ e.removed = f.removed /\ e.id > f.id

Wanted == IF scope = 0 THEN "greeting" \in options
                       ELSE options \cap {"notices", "panel"} # {}

SameScope == observed # NoRow => observed.scope = scope
Stale(e) == observed # NoRow /\ SameScope /\ ~Later(e, observed.event)

\* invalidate_query_panel, inside the caller's transaction.
Invalidated(p) ==
  IF p = NoRow THEN NoRow
  ELSE [p EXCEPT !.generation = @ + 1, !.message = NoMessage,
                 !.cooling = FALSE]

\* accept_membership: claim, observation and invalidation commit together.
AcceptMembership(e) ==
  /\ Wanted
  /\ e.id \notin claims
  /\ claims' = claims \cup {e.id}
  /\ IF Stale(e)
       THEN /\ taken' = taken \cup {e}
            /\ UNCHANGED <<observed, panel, message>>
       ELSE /\ observed' = [scope |-> scope, event |-> e]
            /\ taken' = IF SameScope THEN taken \cup {e} ELSE {e}
            /\ IF scope # 0
                 THEN /\ panel' = Invalidated(panel)
                      /\ message' = [m \in DOMAIN message |->
                                       [message[m] EXCEPT !.fresh = FALSE]]
                 ELSE UNCHANGED <<panel, message>>
  /\ UNCHANGED <<scope, options, up, mutex, query, posted>>

\* The claims older than a day are deleted when the next event is taken.
ForgetClaims ==
  /\ claims # {} /\ claims' = {}
  /\ UNCHANGED <<scope, options, up, observed, taken, panelVars>>

-----------------------------------------------------------------------------
(* The bot's side: settings, binding and lifecycle. *)

SetOption ==
  /\ \E o \in Toggled : options' = IF o \in options THEN options \ {o}
                                                    ELSE options \cup {o}
  /\ UNCHANGED <<scope, up, claims, observed, taken, panelVars>>

Rebind ==
  /\ scope < MaxBindings
  /\ scope' = scope + 1
  /\ UNCHANGED <<options, up, claims, observed, taken, panelVars>>

\* Stop or start of the bot; a crash of the service kills every sender.
StopBot ==
  /\ up /\ up' = FALSE
  /\ UNCHANGED <<scope, options, claims, observed, taken, panelVars>>
StartBot ==
  /\ ~up /\ up' = TRUE
  /\ UNCHANGED <<scope, options, claims, observed, taken, panelVars>>
CrashPanel ==
  /\ \E q \in Queries : query[q].at \in {"entered", "prepared", "answered", "plain"}
  /\ mutex' = NoQuery
  /\ query' = [q \in Queries |->
       IF query[q].at \in {"new", "done"} THEN query[q]
       ELSE [Waiting EXCEPT !.at = "error"]]
  /\ UNCHANGED <<groupVars, panel, posted, message>>

-----------------------------------------------------------------------------
(* The panel. *)

To(q, at) == query' = [query EXCEPT ![q] = [Waiting EXCEPT !.at = at]]
Fail(q) == To(q, "error") /\ mutex' = NoQuery
InScope(q) == up /\ scope = query[q].scope

\* query_delivery: one sender at a time, and nobody waits longer than 15 s.
EnterQuery(q) ==
  /\ query[q].at = "new" /\ up /\ scope # 0 /\ mutex = NoQuery
  /\ mutex' = q
  /\ query' = [query EXCEPT ![q].at = "entered", ![q].scope = scope]
  /\ UNCHANGED <<groupVars, panel, posted, message>>
PanelBusy(q) ==
  /\ query[q].at = "new" /\ up /\ scope # 0 /\ mutex # NoQuery
  /\ To(q, "error")
  /\ UNCHANGED <<groupVars, panel, mutex, posted, message>>

FreshRow == [scope |-> scope, generation |-> 0, message |-> NoMessage,
             young |-> FALSE, edits |-> 0, cooling |-> FALSE]

\* The row as the first transaction sees it after taking its write lock.
Claimed ==
  LET row == IF panel = NoRow THEN FreshRow ELSE panel
      mine == [row EXCEPT !.generation = @ + 1]
  IN IF mine.scope = scope THEN mine
     ELSE [FreshRow EXCEPT !.generation = mine.generation]

\* Transaction 1: check the scope, take the row, choose to edit or to post.
PreparePanel(q) ==
  /\ query[q].at = "entered"
  /\ CASE ~InScope(q) -> Fail(q) /\ UNCHANGED panel
       [] InScope(q) /\ ("panel" \notin options \/ Claimed.cooling) ->
            To(q, "plain") /\ UNCHANGED <<panel, mutex>>
       [] OTHER ->
            LET row == Claimed
                edit == row.edits < MaxEdits /\ row.young /\ row.message # NoMessage
            IN /\ panel' = [row EXCEPT !.cooling = TRUE]
               /\ query' = [query EXCEPT ![q].at = "prepared",
                     ![q].generation = row.generation,
                     ![q].message = IF edit THEN row.message ELSE NoMessage]
               /\ UNCHANGED mutex
  /\ UNCHANGED <<groupVars, posted, message>>

Answer(q, result, got) ==
  query' = [query EXCEPT ![q].at = "answered", ![q].result = result, ![q].got = got]

\* update_query_panel / create_query_panel, with no transaction open.
EditPanel(q) ==
  /\ query[q].at = "prepared" /\ query[q].message # NoMessage
  /\ \E r \in {"ok", "rejected", "uncertain"} :
       Answer(q, r, IF r = "ok" THEN query[q].message ELSE NoMessage)
  /\ UNCHANGED <<groupVars, panel, mutex, posted, message>>
PostPanel(q) ==
  /\ query[q].at = "prepared" /\ query[q].message = NoMessage
  /\ Len(message) < MaxMessages
  /\ \E r \in {"ok", "untracked", "rejected", "uncertain"} :
       LET id == Len(message) + 1 IN
       /\ Answer(q, r, IF r = "ok" THEN id ELSE NoMessage)
       /\ posted' = [posted EXCEPT ![q] = @ + (IF r = "rejected" THEN 0 ELSE 1)]
       /\ message' = IF r = "ok"
            THEN Append(message, [scope |-> query[q].scope, fresh |-> TRUE])
            ELSE message
  /\ UNCHANGED <<groupVars, panel, mutex>>

\* Mutant: an invalidation in between goes unnoticed.
UnmovedScope(q) == InScope(q) /\ panel # NoRow /\ panel.scope = query[q].scope

\* Transaction 2: record the outcome only for the row that was prepared.
Unmoved(q) ==
  /\ InScope(q) /\ "panel" \in options
  /\ panel # NoRow /\ panel.scope = query[q].scope
  /\ panel.generation = query[q].generation

Recorded(q) ==
  IF query[q].got # NoMessage
    THEN [panel EXCEPT !.message = query[q].got, !.cooling = FALSE,
            !.edits = IF query[q].message # NoMessage THEN @ + 1 ELSE 0,
            !.young = IF query[q].message # NoMessage THEN @ ELSE TRUE]
    ELSE [panel EXCEPT !.message = NoMessage]

\* What the caller learns: TRUE, an error, or FALSE for a plain reply.
Handled(q) ==
  CASE query[q].result \in {"ok", "untracked"} -> "done"
    [] query[q].result = "uncertain" /\ query[q].message = NoMessage -> "error"
    [] OTHER -> "plain"

SettlePanel(q) ==
  /\ query[q].at = "answered"
  /\ IF Unmoved(q)
       THEN /\ panel' = Recorded(q)
            /\ To(q, Handled(q))
            /\ mutex' = IF Handled(q) = "plain" THEN mutex ELSE NoQuery
       ELSE Fail(q) /\ UNCHANGED panel
  /\ UNCHANGED <<groupVars, posted, message>>

\* The ordinary reply, which the caller sends while it still holds the lock.
PlainReply(q) ==
  /\ query[q].at = "plain"
  /\ posted' = [posted EXCEPT ![q] = @ + 1]
  /\ To(q, "done") /\ mutex' = NoQuery
  /\ UNCHANGED <<groupVars, panel, message>>

\* Time: the cooldown ends, a message grows older than MAX_AGE.
CooldownEnds ==
  /\ panel # NoRow /\ panel.cooling
  /\ panel' = [panel EXCEPT !.cooling = FALSE]
  /\ UNCHANGED <<groupVars, mutex, query, posted, message>>
PanelAges ==
  /\ panel # NoRow /\ panel.young
  /\ panel' = [panel EXCEPT !.young = FALSE]
  /\ UNCHANGED <<groupVars, mutex, query, posted, message>>

GroupPanelNext ==
  \/ \E e \in Events : AcceptMembership(e)
  \/ ForgetClaims \/ SetOption \/ Rebind \/ StopBot \/ StartBot \/ CrashPanel
  \/ CooldownEnds \/ PanelAges
  \/ \E q \in Queries :
       \/ EnterQuery(q) \/ PanelBusy(q) \/ PreparePanel(q)
       \/ EditPanel(q) \/ PostPanel(q) \/ SettlePanel(q) \/ PlainReply(q)

GroupPanelSpec == GroupPanelInit /\ [][GroupPanelNext]_gpVars

-----------------------------------------------------------------------------
GroupPanelTypeOK ==
  /\ scope \in 0..MaxBindings /\ options \subseteq Options /\ up \in BOOLEAN
  /\ claims \subseteq {e.id : e \in Events} /\ taken \subseteq Events
  /\ observed # NoRow => observed.event \in taken
  /\ panel # NoRow => panel.message \in 0..Len(message)
  /\ mutex \in Queries \cup {NoQuery}

(* The panel message that is on record was posted for the identity on      *)
(* record and after the last membership change: an edit never goes to a    *)
(* message from before the bot was removed, or of an earlier binding, even *)
(* when the change came while an answer was on its way                     *)
(* (query_panel.py:144-171, membership.py:76-167).                         *)
PanelIsCurrent ==
  panel # NoRow /\ panel.message # NoMessage =>
    /\ message[panel.message].scope = panel.scope
    /\ message[panel.message].fresh

(* One query puts at most one message into the group, however the platform *)
(* answers: a post that may have arrived is never followed by a plain      *)
(* reply (query_panel.py:169, "Never duplicate it automatically").         *)
PostedOnce == \A q \in Queries : posted[q] <= 1

(* The observation on record is the latest of all events taken for its     *)
(* binding, in whatever order and however often they were delivered, also  *)
(* after their claims are forgotten (membership.py:119-128).               *)
LatestObserved ==
  observed # NoRow => \A e \in taken : ~Later(e, observed.event)

(* The group's panel as a whole: on record is the message of the present   *)
(* binding, in the group is one message to a query, and membership is what *)
(* the latest event says.                                                  *)
PanelIsSound == PanelIsCurrent /\ PostedOnce /\ LatestObserved
=============================================================================
