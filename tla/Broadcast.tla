------------------------------- MODULE Broadcast -------------------------------
(***************************************************************************)
(* broadcast/: a message of an administrator to the groups that bots have  *)
(* been spoken to in lately.  A preview fixes the recipients, a submission *)
(* queues it, and one worker attempts one recipient after another: it      *)
(* commits the attempt, sends without a retry, and commits the outcome.    *)
(* The process may die, and the second commit may fail, at any point.      *)
(*                                                                         *)
(* The ten minutes a preview is good for, and the days an activity counts, *)
(* only withdraw choices this module leaves open anyway.                   *)
(***************************************************************************)
EXTENDS Naturals, Sequences, FiniteSets, Selections

CONSTANTS
    Jobs,           \* broadcasts
    Casters,        \* bots
    Audience,       \* groups
    MaxSeen,        \* bound: rows of the activity table
    MaxCasterRevs,  \* bound: changes of a bot's identity
    MaxDeaths,      \* bound: deaths of the process
    NoWork          \* the worker between two recipients

\* A recipient in hand: marked, under the lease of its bot, or attempted.
Attempts == [job : Jobs, target : Nat, at : {"marked", "leased", "attempted"},
             outcome : {"none", "accepted", "failed", "unknown", "skipped"}]

ASSUME BroadcastAssumption ==
    {MaxSeen, MaxCasterRevs, MaxDeaths} \subseteq Nat /\ NoWork \notin Attempts

VARIABLES
    revision,   \* Bot.identity_revision
    castable,   \* bots with an instance
    permitted,  \* the creator is still a super administrator
    activity,   \* bot_group_activity, latest first
    status,     \* BroadcastJob.status, or "none"
    queue,      \* the jobs in the order of submitted_at
    targets,    \* job -> its BroadcastTarget rows by id
    attempt,    \* the recipient in hand
    posts,      \* the posts that reached the platform
    deaths

broadcastVars == <<revision, castable, permitted, activity, status, queue, targets, attempt, posts, deaths>>
casterVars == <<revision, castable, permitted, activity>>

BroadcastInit ==
    /\ revision = [b \in Casters |-> 0] /\ castable = Casters /\ permitted = TRUE
    /\ activity = <<>>
    /\ status = [j \in Jobs |-> "none"] /\ queue = <<>>
    /\ targets = [j \in Jobs |-> <<>>]
    /\ attempt = NoWork /\ posts = <<>> /\ deaths = 0

\* record_group_activity, at the end of a callback that a bot executed in a group.
\* Bound: what is recorded after the last preview is never read.
RecordGroupActivity(b, g) ==
    /\ b \in castable /\ \E j \in Jobs : status[j] = "none"
    /\ activity' = <<[bot |-> b, group |-> g, revision |-> revision[b]]>>
                   \o Picked(activity, {i \in DOMAIN activity : activity[i].bot # b \/ activity[i].group # g})
    /\ Len(activity') <= MaxSeen
    /\ UNCHANGED <<revision, castable, permitted, status, queue, targets, attempt, posts, deaths>>

\* recent_targets: one row to a group, by the bot that was spoken to last.
Serving(a) == a.bot \in castable /\ a.revision = revision[a.bot]
SeenByServing == Picked(activity, {i \in DOMAIN activity : Serving(activity[i])})
FirstOfGroup(rows) == {i \in DOMAIN rows : \A k \in 1..(i - 1) : rows[k].group # rows[i].group}
RecentTargets ==
    LET kept == Picked(SeenByServing, FirstOfGroup(SeenByServing))
    IN [i \in DOMAIN kept |-> [bot |-> kept[i].bot, group |-> kept[i].group,
                               revision |-> kept[i].revision, status |-> "pending"]]

Preview(j) ==
    /\ permitted /\ status[j] = "none"
    /\ status' = [status EXCEPT ![j] = "draft"]
    /\ targets' = [targets EXCEPT ![j] = RecentTargets]
    /\ UNCHANGED <<casterVars, queue, attempt, posts, deaths>>

\* The same preview can be submitted once.
Submit(j) ==
    /\ permitted /\ status[j] = "draft" /\ targets[j] # <<>>
    /\ status' = [status EXCEPT ![j] = "queued"]
    /\ queue' = Append(queue, j)
    /\ UNCHANGED <<casterVars, targets, attempt, posts, deaths>>

-----------------------------------------------------------------------------

Submitted == Picked(queue, {i \in DOMAIN queue : status[queue[i]] \in {"queued", "running"}})
Marked(rows, from, to) == [i \in DOMAIN rows |-> IF rows[i].status = from THEN [rows[i] EXCEPT !.status = to] ELSE rows[i]]
Pending(j) == {i \in DOMAIN targets[j] : targets[j][i].status = "pending"}
Finish(j, rows) ==
    /\ targets' = [targets EXCEPT ![j] = rows]
    /\ status' = [status EXCEPT ![j] = "completed"]
    /\ UNCHANGED attempt

\* The first transaction of process_one.
PickRecipient ==
    /\ attempt = NoWork /\ Submitted # <<>>
    /\ LET j == Head(Submitted) IN
        \/ Pending(j) = {} /\ Finish(j, Marked(targets[j], "sending", "unknown"))
        \/ Pending(j) # {} /\ ~permitted /\ Finish(j, Marked(targets[j], "pending", "skipped"))
        \/ /\ Pending(j) # {} /\ permitted
           /\ LET i == CHOOSE i \in Pending(j) : \A k \in Pending(j) : i <= k IN
                /\ targets' = [targets EXCEPT ![j][i].status = "sending"]
                /\ attempt' = [job |-> j, target |-> i, at |-> "marked", outcome |-> "none"]
           /\ status' = [status EXCEPT ![j] = "running"]
    /\ UNCHANGED <<casterVars, queue, posts, deaths>>

InHand == targets[attempt.job][attempt.target]
Takes(stage, outcome) == attempt' = [attempt EXCEPT !.at = stage, !.outcome = outcome]

\* bot_manager.admit, and the bot's row read again under the lease.
AdmitWorker ==
    /\ attempt # NoWork /\ attempt.at = "marked"
    /\ IF InHand.bot \in castable /\ revision[InHand.bot] = InHand.revision
       THEN Takes("leased", "none") ELSE Takes("attempted", "skipped")
    /\ UNCHANGED <<casterVars, status, queue, targets, posts, deaths>>

\* send_broadcast: one request.  An answer that is lost, or that cannot be read, leaves
\* open whether the message arrived, and so does one that is not a 2xx: "failed".
PostBroadcast ==
    /\ attempt # NoWork /\ attempt.at = "leased"
    /\ \/ /\ posts' = Append(posts, [job |-> attempt.job, group |-> InHand.group,
                                     by |-> <<InHand.bot, revision[InHand.bot]>>])
          /\ \E outcome \in {"accepted", "failed", "unknown"} : Takes("attempted", outcome)
       \/ /\ UNCHANGED posts
          /\ \E outcome \in {"skipped", "failed", "unknown"} : Takes("attempted", outcome)
    /\ UNCHANGED <<casterVars, status, queue, targets, deaths>>

\* The second commit, which may fail: the next iteration goes on without this recipient.
SettleRecipient ==
    /\ attempt # NoWork /\ attempt.at = "attempted"
    /\ \/ targets' = [targets EXCEPT ![attempt.job][attempt.target].status = attempt.outcome]
       \/ UNCHANGED targets
    /\ attempt' = NoWork
    /\ UNCHANGED <<casterVars, status, queue, posts, deaths>>

\* Mutant: an interrupted recipient is tried again.
RestartRetrying ==
    /\ deaths < MaxDeaths /\ deaths' = deaths + 1
    /\ attempt' = NoWork
    /\ targets' = [j \in Jobs |-> Marked(targets[j], "sending", "pending")]
    /\ UNCHANGED <<casterVars, status, queue, posts>>

\* The process dies; its next start settles what was being sent (recover_interrupted)
\* before the worker runs.
Restart ==
    /\ deaths < MaxDeaths /\ deaths' = deaths + 1
    /\ attempt' = NoWork
    /\ targets' = [j \in Jobs |-> Marked(targets[j], "sending", "unknown")]
    /\ UNCHANGED <<casterVars, status, queue, posts>>

-----------------------------------------------------------------------------

\* A change of a bot's identity, and a stop, wait for the leases on its instance.
HeldByWorker(b) == attempt # NoWork /\ attempt.at = "leased" /\ InHand.bot = b

CasterChanges(b) ==
    /\ ~HeldByWorker(b) /\ revision[b] < MaxCasterRevs
    /\ revision' = [revision EXCEPT ![b] = @ + 1]
    /\ UNCHANGED <<castable, permitted, activity, status, queue, targets, attempt, posts, deaths>>

StopOrStart(b) ==
    /\ ~HeldByWorker(b)
    /\ castable' = IF b \in castable THEN castable \ {b} ELSE castable \cup {b}
    /\ UNCHANGED <<revision, permitted, activity, status, queue, targets, attempt, posts, deaths>>

Demote ==
    /\ permitted /\ permitted' = FALSE
    /\ UNCHANGED <<revision, castable, activity, status, queue, targets, attempt, posts, deaths>>

WorkerStep == PickRecipient \/ AdmitWorker \/ PostBroadcast \/ SettleRecipient

BroadcastNext ==
    \/ \E j \in Jobs : Preview(j) \/ Submit(j)
    \/ WorkerStep \/ Restart \/ Demote
    \/ \E b \in Casters : \/ CasterChanges(b) \/ StopOrStart(b)
                          \/ \E g \in Audience : RecordGroupActivity(b, g)

BroadcastSpec == BroadcastInit /\ [][BroadcastNext]_broadcastVars
\* The worker is a thread of its own that wakes every second; recovery precedes it.
BroadcastFairSpec == BroadcastSpec /\ WF_broadcastVars(WorkerStep)

-----------------------------------------------------------------------------

TargetStatus == {"pending", "sending", "accepted", "failed", "unknown", "skipped"}
PostsTo(j, g) == Cardinality({i \in DOMAIN posts : posts[i].job = j /\ posts[i].group = g})

BroadcastTypeOK ==
    /\ \A j \in Jobs : /\ status[j] \in {"none", "draft", "queued", "running", "completed"}
                       /\ \A i \in DOMAIN targets[j] : targets[j][i].status \in TargetStatus
    /\ attempt = NoWork \/ attempt \in Attempts
    /\ deaths \in 0..MaxDeaths

\* No group is written to twice for one broadcast, whatever dies between the two
\* commits.  What the administrator reads as accepted was written to, what is pending
\* or skipped was not; "sending", "failed" and "unknown" leave it open.  And the post was
\* made by the bot, under the identity, that the preview named.
ToldOnce ==
    /\ \A j \in Jobs : \A i \in DOMAIN targets[j] :
        LET t == targets[j][i]
            n == PostsTo(j, t.group)
        IN CASE t.status \in {"pending", "skipped"} -> n = 0
             [] t.status = "accepted"               -> n = 1
             [] OTHER                               -> n <= 1
    /\ \A i \in DOMAIN posts : \E k \in DOMAIN targets[posts[i].job] :
        LET t == targets[posts[i].job][k] IN
            t.group = posts[i].group /\ posts[i].by = <<t.bot, t.revision>>

\* A submitted broadcast comes to an end, with no recipient left untried.
BroadcastsEnd ==
    \A j \in Jobs : status[j] = "queued" ~> status[j] = "completed" /\ Pending(j) = {}
=============================================================================
