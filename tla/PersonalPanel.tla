----------------------------- MODULE PersonalPanel -----------------------------
(***************************************************************************)
(* personal_panel/: the page that shows a person what is held under all    *)
(* their bindings.  A bound agent obtains a link with a ticket; the        *)
(* browser turns the ticket into a session, which holds references to      *)
(* bindings and nothing that was true of them at the time; each request    *)
(* asks the provider about every one of them anew, before, between and     *)
(* after reports that may take long.                                       *)
(*                                                                         *)
(* Tickets and sessions live in a database of their own, and each method   *)
(* of PanelSessions is one transaction.  A session is named here by the    *)
(* ticket it was made from.  The bindings are rows of the bot service; no  *)
(* guard of its keeps them still while a request is under way.             *)
(***************************************************************************)
EXTENDS Naturals, FiniteSets

CONSTANTS
    Bindings,   \* bindings of agents to bots, by public_id
    Tickets,    \* links
    Tabs,       \* reads that are under way at a time
    Logins,     \* logins that are under way at a time
    MaxGrants,  \* MAX_GRANTS
    Resolving,  \* whether an identity resolver is configured
    NoCookie, NoSession

ASSUME PersonalPanelAssumption ==
    /\ MaxGrants \in Nat \ {0} /\ Resolving \in BOOLEAN
    /\ NoCookie \notin Tickets

VARIABLES
    valid,    \* the bindings that the provider would accept now
    ticket,   \* panel_tickets: "none", "live" or "gone"
    named,    \* the binding a ticket proves
    session,  \* panel_sessions: its grants, or NoSession
    jar,      \* the browser's cookie
    tab,      \* the reads
    login,    \* the logins
    minted    \* how many sessions a ticket became

personalVars == <<valid, ticket, named, session, jar, tab, login, minted>>
NoLogin == [at |-> "idle", cookie |-> NoCookie, ticket |-> NoCookie, mode |-> "replace"]
NoRequest == [at |-> "idle", kind |-> "resources", cookie |-> NoCookie, grants |-> {},
              left |-> {}, now |-> {}, proved |-> {}, alive |-> FALSE]

PersonalPanelInit ==
    /\ valid = Bindings
    /\ ticket = [k \in Tickets |-> "none"] /\ named \in [Tickets -> Bindings]
    /\ session = [k \in Tickets |-> NoSession]
    /\ jar = NoCookie
    /\ tab = [t \in Tabs |-> NoRequest]
    /\ login = [l \in Logins |-> NoLogin]
    /\ minted = [k \in Tickets |-> 0]

At(t, stage) == tab[t].at = stage
Alive(cookie) == cookie # NoCookie /\ session[cookie] # NoSession
GrantsOf(cookie) == IF Alive(cookie) THEN session[cookie] ELSE {}
Dropped(t) == tab' = [tab EXCEPT ![t] = NoRequest]
Unchanged == UNCHANGED <<valid, ticket, named, session, jar, login, minted>>

\* POST /links.  A binding that is revoked between its authentication and the insert
\* is as good as revoked right after it.
IssueLink(k) ==
    /\ ticket[k] = "none" /\ named[k] \in valid
    /\ ticket' = [ticket EXCEPT ![k] = "live"]
    /\ UNCHANGED <<valid, named, session, jar, tab, login, minted>>

\* POST /login up to the transaction, from this browser or from one without its cookie.
InspectTicket(l, k, cookie, mode) ==
    /\ login[l].at = "idle" /\ ticket[k] = "live" /\ named[k] \in valid
    /\ mode = "append" => GrantsOf(cookie) \cap valid # {}
    /\ login' = [login EXCEPT ![l] = [at |-> "inspected", cookie |-> cookie, ticket |-> k, mode |-> mode]]
    /\ UNCHANGED <<valid, ticket, named, session, jar, tab, minted>>

\* PanelSessions.consume.
KeptGrants(l) == IF login[l].mode = "append" THEN GrantsOf(login[l].cookie) ELSE {}

\* Mutant: a ticket that was good when it was inspected is good.
ConsumableTwice(l) ==
    /\ login[l].mode = "append" => Alive(login[l].cookie)
    /\ Cardinality(KeptGrants(l) \cup {named[login[l].ticket]}) <= MaxGrants

Consumable(l) ==
    /\ ticket[login[l].ticket] = "live"
    /\ login[l].mode = "append" => Alive(login[l].cookie)
    /\ Cardinality(KeptGrants(l) \cup {named[login[l].ticket]}) <= MaxGrants

ConsumeTicket(l) ==
    LET k == login[l].ticket IN
    /\ login[l].at = "inspected"
    /\ IF Consumable(l)
       THEN /\ ticket' = [ticket EXCEPT ![k] = "gone"]
            /\ session' = [[c \in Tickets |-> IF c = login[l].cookie THEN NoSession ELSE session[c]]
                              EXCEPT ![k] = KeptGrants(l) \cup {named[k]}]
            /\ minted' = [minted EXCEPT ![k] = @ + 1]
            /\ login' = [login EXCEPT ![l].at = "cookied"]
       ELSE login' = [login EXCEPT ![l] = NoLogin] /\ UNCHANGED <<ticket, session, minted>>
    /\ UNCHANGED <<valid, named, jar, tab>>

\* The response with the cookie, which may be another browser's, or lost.
ReceiveCookie(l) ==
    /\ login[l].at = "cookied"
    /\ jar' \in {jar, login[l].ticket}
    /\ login' = [login EXCEPT ![l] = NoLogin]
    /\ UNCHANGED <<valid, ticket, named, session, tab, minted>>

Logout ==
    /\ jar # NoCookie
    /\ session' = [session EXCEPT ![jar] = NoSession]
    /\ jar' = NoCookie
    /\ UNCHANGED <<valid, ticket, named, tab, login, minted>>

-----------------------------------------------------------------------------

\* GET /session and /resources.  live(): the session's grants, and then each of them
\* put to the provider.
BeginShow(t, kind) ==
    /\ At(t, "idle") /\ Alive(jar)
    /\ tab' = [tab EXCEPT ![t] =
                  [NoRequest EXCEPT !.at = "listing", !.kind = kind, !.cookie = jar,
                                    !.left = GrantsOf(jar), !.proved = valid, !.alive = TRUE]]
    /\ Unchanged

\* Without a resolver, or with one identity, /session has nothing to wait for.
WaitsForSource(t) == tab[t].kind = "resources" \/ (Resolving /\ Cardinality(tab[t].grants) >= 2)

ValidateListed(t) ==
    /\ At(t, "listing")
    /\ \/ \E b \in tab[t].left :
            tab' = [tab EXCEPT ![t].left = @ \ {b},
                               ![t].grants = IF b \in valid THEN @ \cup {b} ELSE @]
       \/ tab[t].left = {} /\ tab[t].grants = {} /\ Dropped(t)
       \/ /\ tab[t].left = {} /\ tab[t].grants # {}
          /\ tab' = [tab EXCEPT ![t].at = IF WaitsForSource(t) THEN "loading" ELSE "answered",
                                ![t].left = tab[t].grants]
    /\ Unchanged

\* A source's report on one grant, or the resolver's answer, is complete.
Load(t, b) ==
    /\ At(t, "loading") /\ b \in tab[t].left
    /\ tab' = [tab EXCEPT ![t].at = IF tab[t].kind = "resources" THEN "loaded" ELSE "loading",
                          ![t].left = @ \ {b},
                          ![t].now = IF tab[t].kind = "resources" THEN {b} ELSE {},
                          ![t].proved = valid, ![t].alive = Alive(tab[t].cookie)]
    /\ Unchanged

\* The grant it was for is checked before the next; the resolver's are not.
CheckLoaded(t) ==
    /\ At(t, "loaded")
    /\ IF tab[t].now \subseteq valid THEN tab' = [tab EXCEPT ![t].at = "loading", ![t].now = {}] ELSE Dropped(t)
    /\ Unchanged

EndLoading(t) ==
    /\ At(t, "loading") /\ tab[t].left = {}
    /\ tab' = [tab EXCEPT ![t].at = "final", ![t].left = tab[t].grants]
    /\ Unchanged

\* Every grant again, and then the session.
CheckFinal(t) ==
    /\ At(t, "final")
    /\ \/ \E b \in tab[t].left :
            IF b \in valid THEN tab' = [tab EXCEPT ![t].left = @ \ {b}] ELSE Dropped(t)
       \/ /\ tab[t].left = {}
          /\ IF Alive(tab[t].cookie) THEN tab' = [tab EXCEPT ![t].at = "answered"] ELSE Dropped(t)
    /\ Unchanged

Receive(t) == At(t, "answered") /\ Dropped(t) /\ Unchanged

-----------------------------------------------------------------------------

\* A binding is revoked or expires, its bot changes identity or turns agent access off,
\* for good or until it is on again.  Whoever waits meanwhile was then entitled again.
LoseBinding(b) ==
    /\ b \in valid /\ valid' = valid \ {b}
    /\ UNCHANGED <<ticket, named, session, jar, tab, login, minted>>
RegainBinding(b) ==
    /\ b \notin valid /\ valid' = valid \cup {b}
    /\ tab' = [t \in Tabs |-> IF At(t, "idle") THEN tab[t] ELSE [tab[t] EXCEPT !.proved = @ \cup {b}]]
    /\ UNCHANGED <<ticket, named, session, jar, login, minted>>

\* Two minutes for a ticket, thirty days for a session.
LapseTicket(k) ==
    /\ \/ /\ ticket[k] = "live" /\ ticket' = [ticket EXCEPT ![k] = "gone"]
          /\ UNCHANGED session
       \/ /\ Alive(k) /\ session' = [session EXCEPT ![k] = NoSession]
          /\ UNCHANGED ticket
    /\ UNCHANGED <<valid, named, jar, tab, login, minted>>

PersonalPanelNext ==
    \/ Logout
    \/ \E k \in Tickets : \/ IssueLink(k) \/ LapseTicket(k)
                          \/ \E l \in Logins, cookie \in {jar, NoCookie}, mode \in {"replace", "append"} :
                                InspectTicket(l, k, cookie, mode)
    \/ \E l \in Logins : ConsumeTicket(l) \/ ReceiveCookie(l)
    \/ \E t \in Tabs :
        \/ \E kind \in {"resources", "session"} : BeginShow(t, kind)
        \/ ValidateListed(t) \/ CheckLoaded(t) \/ EndLoading(t) \/ CheckFinal(t) \/ Receive(t)
        \/ \E b \in Bindings : Load(t, b)
    \/ \E b \in Bindings : LoseBinding(b) \/ RegainBinding(b)

PersonalPanelSpec == PersonalPanelInit /\ [][PersonalPanelNext]_personalVars

-----------------------------------------------------------------------------

PersonalPanelTypeOK ==
    /\ \A k \in Tickets : /\ ticket[k] \in {"none", "live", "gone"}
                          /\ session[k] # NoSession =>
                                session[k] \subseteq Bindings /\ Cardinality(session[k]) \in 1..MaxGrants
    /\ valid \subseteq Bindings /\ jar \in Tickets \cup {NoCookie}
    /\ \A t \in Tabs : tab[t].left \cup tab[t].grants \cup tab[t].proved \subseteq Bindings

\* What a browser is shown is of bindings that were good, in a session that was open,
\* when the slowest of the reports was in or later: neither a revocation nor a sign-out
\* in another tab is outrun by a request that had started.  And a link makes one session.
ShownIsCurrent ==
    /\ \A t \in Tabs : At(t, "answered") => tab[t].grants \subseteq tab[t].proved /\ tab[t].alive
    /\ \A k \in Tickets : minted[k] <= 1
=============================================================================
