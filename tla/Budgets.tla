------------------------------- MODULE Budgets -------------------------------
(***************************************************************************)
(* The budgets a request meets before it is served, each with its own    *)
(* arithmetic on a monotonic clock:                                        *)
(*   - IngressBudget of resource_api/ingress.py: token buckets, one for    *)
(*     the whole service and one per transport source, in a table of       *)
(*     bounded size;                                                       *)
(*   - _CredentialBudget of resource_api/traffic.py: a sliding window per  *)
(*     credential, with a retry-after computed from its oldest hit;        *)
(*   - _ResourceTierGate: a least interval between two polls, set by what  *)
(*     the last poll showed and lifted by a command;                       *)
(*   - IngressBudget of feishu/traffic.py: two sliding windows, of an      *)
(*     application and of an actor in it, claimed together or not at all.  *)
(* Time is in ticks, Window of them to the minute of the code.  A bucket's *)
(* level is in units of which a token has Window, so that it refills by    *)
(* its capacity each tick and nothing is rounded.                          *)
(***************************************************************************)
EXTENDS Integers, Sequences, FiniteSets, SequencesExt, FiniteSetsExt, Selections

CONSTANTS
    Sources,      \* callers: of a transport address, a credential, a chat actor
    Window,       \* ticks of the sliding windows, and of a bucket's refill
    SourceLimit,  \* tokens of a source, hits of a credential, claims of an actor
    GlobalLimit,  \* tokens of the service, claims of the application
    MaxSources,   \* sources the table holds
    Floors,       \* the intervals of the tiers
    MaxClock,     \* bound: ticks
    NoBucket      \* an untouched bucket

ASSUME BudgetsAssumption ==
    /\ {Window, SourceLimit, GlobalLimit, MaxSources} \subseteq Nat \ {0}
    /\ Floors \subseteq Nat /\ MaxClock \in Nat
    /\ NoBucket \notin [level : Int, at : Int]

VARIABLES
    kind,       \* the budget this behaviour is about; they share nothing
    clock,
    total,      \* IngressBudget.total
    sources,    \* IngressBudget.sources: <<source, bucket>>, least recently used first
    hits,       \* _CredentialBudget._hits of one kind
    tier,       \* _ResourceTierGate._last
    actors,     \* the actors' windows; the application's is all of them
    promise     \* what each source was last told: which budget, and when to come again

budgetVars == <<kind, clock, total, sources, hits, tier, actors, promise>>

Budget == {"ingress", "credential", "tier", "chat"}
NoPromise == [of |-> "none", at |-> 0]

BudgetsInit ==
    /\ kind \in Budget /\ clock = 0
    /\ total = NoBucket /\ sources = <<>>
    /\ hits = [s \in Sources |-> <<>>]
    /\ tier = [s \in Sources |-> [at |-> 0, floor |-> 0]]
    /\ actors = [s \in Sources |-> <<>>]
    /\ promise = [s \in Sources |-> NoPromise]

\* Mutant: a wait is rounded down.
RoundedDown(a, b) == a \div b

\* The whole part of a / b, rounded up.
Ceiling(a, b) == (a + b - 1) \div b

AtLeastOne(n) == IF n < 1 THEN 1 ELSE n

Level(bucket, limit) ==
    IF bucket = NoBucket THEN limit * Window
    ELSE LET full == limit * Window
             now == bucket.level + (clock - bucket.at) * limit
         IN IF now > full THEN full ELSE now
Drawn(level) == [level |-> level - Window, at |-> clock]

\* An untouched bucket is full after one window and can be forgotten, oldest first.
Remembered ==
    Picked(sources, {i \in DOMAIN sources : sources[i].bucket.at > clock - Window})
BucketOf(s) ==
    IF \E e \in ToSet(Remembered) : e.source = s
    THEN (CHOOSE e \in ToSet(Remembered) : e.source = s).bucket ELSE NoBucket

TableFull(s) == BucketOf(s) = NoBucket /\ Len(Remembered) >= MaxSources
Missing(level) == IF level >= Window THEN 0 ELSE Window - level
IngressWait(s) ==
    IF TableFull(s) THEN Window
    ELSE AtLeastOne(Max({Ceiling(Missing(Level(total, GlobalLimit)), GlobalLimit),
                         Ceiling(Missing(Level(BucketOf(s), SourceLimit)), SourceLimit)}))
IngressAllows(s) ==
    /\ ~TableFull(s)
    /\ Level(total, GlobalLimit) >= Window
    /\ Level(BucketOf(s), SourceLimit) >= Window

Promised(s, budget, wait) == [promise EXCEPT ![s] = [of |-> budget, at |-> clock + wait]]
\* Whoever else is served since may have taken what was promised of a shared budget.
Broken(S, budget) ==
    [s \in Sources |-> IF s \in S /\ promise[s].of = budget THEN NoPromise ELSE promise[s]]

CheckIngress(s) ==
    /\ kind = "ingress"
    /\ IF IngressAllows(s)
       THEN /\ total' = Drawn(Level(total, GlobalLimit))
            /\ sources' = Append(Picked(Remembered, {i \in DOMAIN Remembered : Remembered[i].source # s}),
                                 [source |-> s, bucket |-> Drawn(Level(BucketOf(s), SourceLimit))])
            /\ promise' = Broken(Sources, "ingress")
       ELSE /\ sources' = Remembered
            /\ promise' = Promised(s, "ingress", IngressWait(s))
            /\ UNCHANGED total
    /\ UNCHANGED <<kind, clock, hits, tier, actors>>

\* The hits inside the window; the boundary is outside.
InWindow(times) == Picked(times, {i \in DOMAIN times : clock - times[i] < Window})
RetryAfter(times) == AtLeastOne(Window - (clock - Head(times)) + 1)

CheckCredential(s) ==
    LET now == InWindow(hits[s]) IN
    /\ kind = "credential"
    /\ IF Len(now) >= SourceLimit
       THEN /\ hits' = [hits EXCEPT ![s] = now]
            /\ promise' = Promised(s, "credential", RetryAfter(now))
       ELSE /\ hits' = [hits EXCEPT ![s] = Append(now, clock)]
            /\ promise' = Broken({s}, "credential")
    /\ UNCHANGED <<kind, clock, total, sources, tier, actors>>

TierAllows(s) == clock - tier[s].at >= tier[s].floor

CheckTier(s) ==
    /\ kind = "tier"
    /\ IF TierAllows(s)
       THEN \E floor \in Floors : /\ tier' = [tier EXCEPT ![s] = [at |-> clock, floor |-> floor]]
                                  /\ promise' = Broken({s}, "tier")
       ELSE /\ promise' = Promised(s, "tier", AtLeastOne(tier[s].floor - (clock - tier[s].at) + 1))
            /\ UNCHANGED tier
    /\ UNCHANGED <<kind, clock, total, sources, hits, actors>>

\* A command of the credential lifts the interval for one poll.
InvalidateTier(s) ==
    /\ kind = "tier"
    /\ tier' = [tier EXCEPT ![s] = [at |-> 0, floor |-> 0]]
    /\ UNCHANGED <<kind, clock, total, sources, hits, actors, promise>>

Recent(times) == Picked(times, {i \in DOMAIN times : times[i] > clock - Window})
AppHits == FoldSet(LAMBDA s, n : n + Len(Recent(actors[s])), 0, Sources)

ClaimChat(s) ==
    /\ kind = "chat"
    /\ actors' = [actors EXCEPT ![s] =
                     IF AppHits < GlobalLimit /\ Len(Recent(@)) < SourceLimit
                     THEN Append(Recent(@), clock) ELSE Recent(@)]
    /\ UNCHANGED <<kind, clock, total, sources, hits, tier, promise>>

ClockTicks ==
    /\ clock < MaxClock /\ clock' = clock + 1
    /\ UNCHANGED <<kind, total, sources, hits, tier, actors, promise>>

BudgetsNext ==
    \/ \E s \in Sources : \/ CheckIngress(s) \/ CheckCredential(s) \/ CheckTier(s)
                          \/ InvalidateTier(s) \/ ClaimChat(s)
    \/ ClockTicks

BudgetsSpec == BudgetsInit /\ [][BudgetsNext]_budgetVars

-----------------------------------------------------------------------------

BudgetsTypeOK ==
    /\ kind \in Budget /\ clock \in 0..MaxClock
    /\ Len(sources) <= MaxSources
    /\ \A s \in Sources : /\ Len(hits[s]) <= SourceLimit /\ Len(actors[s]) <= SourceLimit
                          /\ promise[s].of \in {"none", kind}
    /\ total = NoBucket \/ total.level >= 0

WouldAdmit(s, budget) ==
    CASE budget = "ingress"    -> IngressAllows(s)
      [] budget = "credential" -> Len(InWindow(hits[s])) < SourceLimit
      [] budget = "tier"       -> TierAllows(s)

\* Retry-After is honest: whoever was refused and comes again when it was told, and not
\* before, is served, unless a budget it shares with others was used by them meanwhile.
RetryAfterHolds ==
    \A s \in Sources :
        promise[s].of # "none" /\ clock >= promise[s].at => WouldAdmit(s, promise[s].of)
=============================================================================
