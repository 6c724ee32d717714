------------------------------- MODULE Traffic -------------------------------
(***************************************************************************)
(* service_traffic.py: the counters of what the service did, kept in       *)
(* memory.  Every HTTP request is recorded once, when it ends, under its   *)
(* source, its route, the minute and, if it is known whose it was, its bot *)
(* and its credential; every allocator command is recorded under how it    *)
(* came and how it ended.  The tables are bounded: routes fall into a      *)
(* common row, bots and credentials are forgotten, the least recently used *)
(* first.                                                                  *)
(*                                                                         *)
(* A counter is the number of requests; the failures, durations and bytes  *)
(* beside it are sums over the same requests.  A minute bucket stays for   *)
(* History minutes.                                                        *)
(***************************************************************************)
EXTENDS Integers, Sequences, FiniteSets, SequencesExt, Functions, Selections

CONSTANTS
    TrafficBots,     \* bots that requests are attributed to
    Credentials,     \* credentials of a bot
    Routes,          \* registered path templates
    MaxRoutes,       \* routes with a row of their own
    MaxBots,         \* bots with counters of their own
    MaxCredentials,  \* credentials with a counter
    History,         \* minutes that are kept
    MaxRequests,     \* bound: requests and commands
    MaxMinute,       \* bound: minutes
    Other,           \* the common route
    Nowhere          \* a request of no bot

ASSUME TrafficAssumption ==
    /\ {MaxRoutes, MaxBots, MaxCredentials, History} \subseteq Nat \ {0}
    /\ MaxRequests \in Nat /\ MaxMinute \in Nat
    /\ Other \notin Routes /\ Nowhere \notin TrafficBots

Outcomes == {"dispatched", "rejected", "uncertain"}

\* The counters of the service, and of one bot: a TrafficStats.
NoStats == [total |-> 0, routes |-> <<>>, minutes |-> <<>>, operations |-> [o \in Outcomes |-> 0]]

VARIABLES
    minute,
    stats,        \* the service's counters
    botTable,         \* <<bot, its counters>>, least recently used first
    credentials,  \* <<bot, credential, counter>>, least recently used first
    unattributed  \* requests of no known bot

trafficVars == <<minute, stats, botTable, credentials, unattributed>>

TrafficInit ==
    /\ minute = 0
    /\ stats = NoStats
    /\ botTable = <<>> /\ credentials = <<>>
    /\ unattributed = 0

\* Counters by key: functions from the keys seen so far.
Bumped(counters, key) ==
    [k \in DOMAIN counters \cup {key} |->
        (IF k \in DOMAIN counters THEN counters[k] ELSE 0) + (IF k = key THEN 1 ELSE 0)]
Kept(counters) == [m \in {m \in DOMAIN counters : minute - History < m /\ m <= minute} |-> counters[m]]
RowOf(routes, route) ==
    IF route \in DOMAIN routes \/ Cardinality(DOMAIN routes) < MaxRoutes THEN route ELSE Other

\* TrafficStats.record without its scopes, and record_operation.
CountedIn(s, route) ==
    [s EXCEPT !.total = @ + 1,
              !.routes = Bumped(@, RowOf(@, route)),
              !.minutes = Bumped(Kept(@), minute)]
Operated(s, outcome) == [s EXCEPT !.operations[outcome] = @ + 1]

Known(b) == \E i \in DOMAIN botTable : botTable[i].bot = b
StatsOf(b) == IF Known(b) THEN botTable[CHOOSE i \in DOMAIN botTable : botTable[i].bot = b].stats ELSE NoStats
\* Mutant: the table makes room one row too late.
EvictedLate(b) == IF ~Known(b) /\ Len(botTable) > MaxBots THEN {Head(botTable).bot} ELSE {}

Evicted(b) == IF ~Known(b) /\ Len(botTable) >= MaxBots THEN {Head(botTable).bot} ELSE {}

\* _ensure_bot: a bot beyond the bound takes the place of the one that was quiet
\* longest, whose credentials go with it.
EnsureBot(b, after) ==
    botTable' = Append(Picked(botTable, {i \in DOMAIN botTable : botTable[i].bot \notin Evicted(b) \cup {b}}),
                   [bot |-> b, stats |-> after])
\* Mutant: an evicted bot's credentials stay.
RemainingAll(b) == credentials

Remaining(b) == Picked(credentials, {i \in DOMAIN credentials : credentials[i].bot \notin Evicted(b)})

CountCredential(b, c) ==
    LET rows == Remaining(b)
        mine == {i \in DOMAIN rows : rows[i].bot = b /\ rows[i].credential = c}
        others == Picked(rows, DOMAIN rows \ mine)
        room == IF mine = {} /\ Len(rows) >= MaxCredentials THEN Tail(others) ELSE others
        before == IF mine = {} THEN 0 ELSE rows[CHOOSE i \in mine : TRUE].count
    IN credentials' = Append(room, [bot |-> b, credential |-> c, count |-> before + 1])

InBound == stats.total + SumFunction(stats.operations) < MaxRequests

\* A request has ended.  Its bot's table is given the row the service's table had for
\* it.  Whose it was comes from what the route's own checks left on
\* the request, never from its URL; without a bot there is no credential.
RecordRequest(b, route) ==
    /\ InBound
    /\ stats' = CountedIn(stats, route)
    /\ \/ /\ b = Nowhere
          /\ unattributed' = unattributed + 1
          /\ UNCHANGED <<botTable, credentials>>
       \/ /\ b # Nowhere
          /\ EnsureBot(b, CountedIn(StatsOf(b), RowOf(stats.routes, route)))
          /\ \/ credentials' = Remaining(b)
             \/ \E c \in Credentials : CountCredential(b, c)
          /\ UNCHANGED unattributed
    /\ UNCHANGED minute

RecordOperation(b, outcome) ==
    /\ InBound /\ b # Nowhere
    /\ stats' = Operated(stats, outcome)
    /\ EnsureBot(b, Operated(StatsOf(b), outcome))
    /\ credentials' = Remaining(b)
    /\ UNCHANGED <<minute, unattributed>>

MinutePasses ==
    /\ minute < MaxMinute /\ minute' = minute + 1
    /\ UNCHANGED <<stats, botTable, credentials, unattributed>>

TrafficNext ==
    \/ \E b \in TrafficBots \cup {Nowhere} :
        \/ \E route \in Routes : RecordRequest(b, route)
        \/ \E outcome \in Outcomes : RecordOperation(b, outcome)
    \/ MinutePasses

TrafficSpec == TrafficInit /\ [][TrafficNext]_trafficVars

-----------------------------------------------------------------------------

BotsSum == SumFunction([e \in ToSet(botTable) |-> e.stats.total])
CredentialsSum(b) == SumFunction([e \in {e \in ToSet(credentials) : e.bot = b} |-> e.count])

TrafficTypeOK ==
    /\ minute \in 0..MaxMinute
    /\ stats.total \in 0..MaxRequests /\ unattributed \in 0..MaxRequests
    /\ Len(botTable) <= MaxBots /\ Len(credentials) <= MaxCredentials
    /\ Cardinality(DOMAIN stats.routes) <= MaxRoutes + 1

\* The tables agree although they forget: every request is in exactly one row of the
\* routes, the minutes never show more than there was, no credential outlives its
\* bot's counters, a bot and a credential have one row at most, and neither bots nor
\* credentials ever add up to more than the counter above them.
CountersAgree ==
    /\ SumFunction(stats.routes) = stats.total
    /\ SumFunction(stats.minutes) <= stats.total
    /\ BotsSum + unattributed <= stats.total
    /\ \A i, k \in DOMAIN botTable : botTable[i].bot = botTable[k].bot => i = k
    /\ \A i \in DOMAIN credentials :
        /\ Known(credentials[i].bot)
        /\ \A k \in DOMAIN credentials :
            << credentials[i].bot, credentials[i].credential >> =
                << credentials[k].bot, credentials[k].credential >> => i = k
    /\ \A i \in DOMAIN botTable :
        /\ SumFunction(botTable[i].stats.routes) = botTable[i].stats.total
        /\ CredentialsSum(botTable[i].bot) <= botTable[i].stats.total
=============================================================================
