----------------------------- MODULE FeishuIngress -----------------------------
(***************************************************************************)
(* feishu/router.py, connectors.py and unbound.py: from a chat message to  *)
(* a command, for one enterprise application.                              *)
(*                                                                         *)
(* The platform delivers a message at least once, through a receiver       *)
(* process that belongs to the application.  Accepting it routes it by its *)
(* group to one bot and commits a claim; a worker then executes it on the  *)
(* instance that bot has by that time, once.  Administrators change the    *)
(* application's secret, or delete it, with the receiver stopped.          *)
(***************************************************************************)
EXTENDS Naturals, FiniteSets

CONSTANTS
  Messages,    \* messages of verified users that mention the application's bot
  Chats,       \* groups
  RoutedBots,  \* bots that a route may name
  Slots,       \* _capacity: accepted messages that have not ended
  MaxRevs,     \* bound: identity changes of a bot
  MaxSecrets,  \* bound: secrets of the application
  NoBot, Idle

ASSUME IngressAssumption ==
  /\ Slots \in Nat \ {0}
  /\ {MaxRevs, MaxSecrets} \subseteq Nat

VARIABLES
  app,      \* the application: its secret's version, and whether it is there
  receiver, \* its connector: what it does, and the secret its process was given
  change,   \* the administrator's operation that has the connectors' lock
  route,    \* chat -> bot
  row,      \* bot -> identity_revision and is_deleted
  instance, \* bot -> what its running instance was built from, or Idle
  group,    \* message -> the chat it was written in
  wire,     \* message -> where the platform has it
  claim,    \* message -> its row of feishu_received_messages
  work,     \* the messages in the executor
  runs,     \* message -> where its command was executed
  hints     \* chats that were told they have no bot

ingressVars == << app, receiver, change, route, row, instance, group, wire, claim, work, runs, hints >>

NoClaim == [state |-> "none"]
Claims(m) == claim[m].state # "none"
Busy == {j.message : j \in work}

IngressInit ==
  /\ app = [present |-> TRUE, secret |-> 1]
  /\ receiver = [at |-> "stopped", secret |-> 1]
  /\ change = [at |-> "none"]
  /\ \E f \in [Chats -> RoutedBots \cup {NoBot}] :
       /\ \A c, d \in Chats : f[c] = f[d] => (c = d \/ f[c] = NoBot)
       /\ route = f
  /\ row = [b \in RoutedBots |-> [revision |-> 0, deleted |-> FALSE]]
  /\ instance = [b \in RoutedBots |-> Idle]
  /\ group \in [Messages -> Chats]
  /\ wire = [m \in Messages |-> "unwritten"]
  /\ claim = [m \in Messages |-> NoClaim]
  /\ work = {}
  /\ runs = [m \in Messages |-> {}]
  /\ hints = {}

-------------------------------------------------------------------------------
Write(m) ==
  /\ wire[m] = "unwritten"
  /\ wire' = [wire EXCEPT ![m] = "fresh"]
  /\ UNCHANGED << app, receiver, change, route, row, instance, group, claim, work, runs, hints >>

(* Ten minutes later the normalizer refuses it; after a day its claim may go. *)
Age(m) ==
  /\ wire[m] = "fresh"
  /\ wire' = [wire EXCEPT ![m] = "stale"]
  /\ UNCHANGED << app, receiver, change, route, row, instance, group, claim, work, runs, hints >>
(* Mutant: a claim may go while the platform may still deliver its message. *)
PruneClaimEarly(m) ==
  /\ Claims(m)
  /\ claim' = [claim EXCEPT ![m] = NoClaim]
  /\ UNCHANGED << app, receiver, change, route, row, instance, group, wire, work, runs, hints >>

PruneClaim(m) ==
  /\ wire[m] = "stale" /\ Claims(m)
  /\ claim' = [claim EXCEPT ![m] = NoClaim]
  /\ UNCHANGED << app, receiver, change, route, row, instance, group, wire, work, runs, hints >>

(* accept_event: the route, a slot, and the claim before the acknowledgement.
   The platform may deliver the message again whatever it was answered. *)
AcceptEvent(m) ==
  LET b == route[group[m]] IN
  /\ app.present /\ receiver.at = "running"
  /\ wire[m] = "fresh"
  /\ b # NoBot
  /\ ~row[b].deleted
  /\ Cardinality(work) < Slots
  /\ ~Claims(m)
  /\ claim' = [claim EXCEPT ![m] = [state |-> "claimed", bot |-> b, revision |-> row[b].revision]]
  /\ work' = work \cup {[message |-> m, revision |-> row[b].revision, at |-> "queued"]}
  /\ UNCHANGED << app, receiver, change, route, row, instance, group, wire, runs, hints >>

(* UnboundHints: a group without a bot is told so, if it still has none when
   the hint is about to be sent. *)
Hint(m) ==
  /\ app.present /\ receiver.at = "running"
  /\ wire[m] = "fresh"
  /\ route[group[m]] = NoBot
  /\ group[m] \notin hints
  /\ hints' = hints \cup {group[m]}
  /\ UNCHANGED << app, receiver, change, route, row, instance, group, wire, claim, work, runs >>

(* _execute, first transaction: too old, or no longer the bot it was for. *)
Recheck(j) ==
  LET c == claim[j.message] IN
  /\ j.at = "queued"
  /\ \/ /\ app.present /\ c.state # "none"
        /\ ~row[c.bot].deleted /\ row[c.bot].revision = j.revision
        /\ work' = (work \ {j}) \cup {[j EXCEPT !.at = "admit"]}
        /\ UNCHANGED claim
     \/ /\ work' = work \ {j}
        /\ claim' = IF c.state = "none" THEN claim
                    ELSE [claim EXCEPT ![j.message].state = "refused"]
  /\ UNCHANGED << app, receiver, change, route, row, instance, group, wire, runs, hints >>

(* The lease: the instance must have the revision and the group. *)
Execute(j) ==
  LET b == claim[j.message].bot IN
  /\ j.at = "admit" /\ Claims(j.message)
  /\ IF instance[b] # Idle /\ instance[b].revision = j.revision /\ group[j.message] = instance[b].chat
     THEN /\ work' = (work \ {j}) \cup {[j EXCEPT !.at = "executed"]}
          /\ runs' = [runs EXCEPT ![j.message] = @ \cup {[bot |-> b, of |-> row[b], n |-> Cardinality(@)]}]
          /\ UNCHANGED claim
     ELSE /\ work' = work \ {j}
          /\ claim' = [claim EXCEPT ![j.message].state = "unavailable"]
          /\ UNCHANGED runs
  /\ UNCHANGED << app, receiver, change, route, row, instance, group, wire, hints >>

(* The claim went before the worker looked (its executor was that late). *)
LoseClaim(j) ==
  /\ j.at = "admit" /\ ~Claims(j.message)
  /\ work' = work \ {j}
  /\ UNCHANGED << app, receiver, change, route, row, instance, group, wire, claim, runs, hints >>

(* The reply is delivered, or that is uncertain; it is never executed again. *)
Settle(j) ==
  /\ j.at = "executed"
  /\ work' = work \ {j}
  /\ claim' = IF Claims(j.message)
              THEN [claim EXCEPT ![j.message].state = "ended"]
              ELSE claim
  /\ UNCHANGED << app, receiver, change, route, row, instance, group, wire, runs, hints >>

-------------------------------------------------------------------------------
(* The bots behind the routes: replacements drain the leases first. *)
Leased(b) == \E j \in work : j.at = "executed" /\ claim[j.message].state # "none" /\ claim[j.message].bot = b

StartInstance(b) ==
  /\ instance[b] = Idle /\ ~row[b].deleted
  /\ \E c \in Chats : /\ route[c] = b
                      /\ instance' = [instance EXCEPT ![b] = [revision |-> row[b].revision, chat |-> c]]
  /\ UNCHANGED << app, receiver, change, route, row, group, wire, claim, work, runs, hints >>
NewIdentity(b) ==
  /\ ~Leased(b) /\ ~row[b].deleted
  /\ row[b].revision < MaxRevs
  /\ row' = [row EXCEPT ![b].revision = @ + 1]
  /\ instance' = [instance EXCEPT ![b] = Idle]
  /\ UNCHANGED << app, receiver, change, route, group, wire, claim, work, runs, hints >>
(* delete_bot drops the route; creating a bot takes the connectors' lock. *)
DeleteRouted(b) ==
  /\ ~Leased(b) /\ ~row[b].deleted
  /\ row' = [row EXCEPT ![b].deleted = TRUE]
  /\ instance' = [instance EXCEPT ![b] = Idle]
  /\ route' = [c \in Chats |-> IF route[c] = b THEN NoBot ELSE route[c]]
  /\ UNCHANGED << app, receiver, change, group, wire, claim, work, runs, hints >>
CreateRoute(b, c) ==
  /\ change.at = "none" /\ app.present
  /\ route[c] = NoBot /\ ~row[b].deleted
  /\ \A d \in Chats : route[d] # b
  /\ route' = [route EXCEPT ![c] = b]
  /\ UNCHANGED << app, receiver, change, row, instance, group, wire, claim, work, runs, hints >>

-------------------------------------------------------------------------------
(* Connector: read the secret, start the process, handshake; on failure, back
   off and read again. *)
Connect ==
  /\ change.at = "none" /\ app.present
  /\ receiver.at = "stopped"
  /\ receiver' = [at |-> "starting", secret |-> app.secret]
  /\ UNCHANGED << app, change, route, row, instance, group, wire, claim, work, runs, hints >>
Handshake ==
  /\ receiver.at = "starting"
  /\ receiver' = [receiver EXCEPT !.at = "running"]
  /\ UNCHANGED << app, change, route, row, instance, group, wire, claim, work, runs, hints >>
ReceiverFails ==
  /\ receiver.at \in {"starting", "running"}
  /\ receiver' = [receiver EXCEPT !.at = "retrying"]
  /\ UNCHANGED << app, change, route, row, instance, group, wire, claim, work, runs, hints >>
Retry ==
  /\ receiver.at = "retrying"
  /\ receiver' = IF app.present THEN [at |-> "starting", secret |-> app.secret]
                 ELSE [receiver EXCEPT !.at = "stopped"]
  /\ UNCHANGED << app, change, route, row, instance, group, wire, claim, work, runs, hints >>

(* An application nothing refers to. *)
Unused == (\A c \in Chats : route[c] = NoBot) /\ \A m \in Messages : claim[m].state # "claimed"

(* application_change: check, stop the receiver and join it, check again and
   commit.  A receiver that cannot be joined ends the operation. *)
BeginChange ==
  /\ change.at = "none" /\ app.present
  /\ \/ app.secret < MaxSecrets /\ change' = [at |-> "stop", what |-> "rotate", expect |-> app.secret]
     \/ Unused /\ change' = [at |-> "stop", what |-> "delete", expect |-> app.secret]
  /\ UNCHANGED << app, receiver, route, row, instance, group, wire, claim, work, runs, hints >>
StopReceiver ==
  /\ change.at = "stop"
  /\ \/ /\ receiver' = [receiver EXCEPT !.at = "stopped"]
        /\ change' = [change EXCEPT !.at = "commit"]
     \/ /\ receiver.at # "stopped"
        /\ receiver' = [receiver EXCEPT !.at = "stopped"]   \* it ends later, and nobody reconnects it
        /\ change' = [at |-> "none"]
  /\ UNCHANGED << app, route, row, instance, group, wire, claim, work, runs, hints >>

(* A failed commit reconnects from what the database has. *)
CommitChange ==
  /\ change.at = "commit"
  /\ \/ /\ change.what = "rotate"
        /\ app' = [app EXCEPT !.secret = @ + 1]
        /\ receiver' = [at |-> "starting", secret |-> app.secret + 1]
        /\ UNCHANGED claim
     \/ /\ change.what = "delete" /\ Unused
        /\ app' = [app EXCEPT !.present = FALSE]
        /\ claim' = [m \in Messages |-> NoClaim]
        /\ UNCHANGED receiver
     \/ /\ receiver' = [at |-> "starting", secret |-> app.secret]
        /\ UNCHANGED << app, claim >>
  /\ change' = [at |-> "none"]
  /\ UNCHANGED << route, row, instance, group, wire, work, runs, hints >>

(* The process dies: claims stay, workers, receiver and instances do not. *)
IngressCrash ==
  /\ receiver' = [receiver EXCEPT !.at = "stopped"]
  /\ change' = [at |-> "none"]
  /\ instance' = [b \in RoutedBots |-> Idle]
  /\ work' = {}
  /\ hints' = {}
  /\ UNCHANGED << app, route, row, group, wire, claim, runs >>

IngressNext ==
  \/ \E m \in Messages : Write(m) \/ Age(m) \/ PruneClaim(m) \/ AcceptEvent(m) \/ Hint(m)
  \/ \E j \in work : Recheck(j) \/ Execute(j) \/ LoseClaim(j) \/ Settle(j)
  \/ \E b \in RoutedBots : \/ StartInstance(b) \/ NewIdentity(b) \/ DeleteRouted(b)
                           \/ \E c \in Chats : CreateRoute(b, c)
  \/ Connect \/ Handshake \/ ReceiverFails \/ Retry
  \/ BeginChange \/ StopReceiver \/ CommitChange
  \/ IngressCrash

IngressSpec == IngressInit /\ [][IngressNext]_ingressVars

-------------------------------------------------------------------------------
IngressTypeOK ==
  /\ app \in [present : BOOLEAN, secret : 1..(MaxSecrets + 1)]
  /\ receiver \in [at : {"stopped", "starting", "running", "retrying"}, secret : 1..(MaxSecrets + 1)]
  /\ route \in [Chats -> RoutedBots \cup {NoBot}]
  /\ row \in [RoutedBots -> [revision : 0..MaxRevs, deleted : BOOLEAN]]
  /\ wire \in [Messages -> {"unwritten", "fresh", "stale"}]
  /\ Cardinality(work) <= Slots
  /\ hints \subseteq Chats

(* A message is executed at most once, by the bot its group was routed to and
   under the identity it was accepted for, however often it is delivered and
   whatever is replaced, restarted or crashes before its turn. *)
ExecutedOnce ==
  \A m \in Messages :
    /\ Cardinality(runs[m]) <= 1
    /\ \A r \in runs[m] : claim[m].state # "none" =>
         /\ r.bot = claim[m].bot
         /\ r.of = [revision |-> claim[m].revision, deleted |-> FALSE]

(* Messages are only received with the application's present secret, and none
   is received for an application that is gone. *)
ReceivesWithPresentSecret ==
  receiver.at = "running" => app.present /\ receiver.secret = app.secret

(* From the platform to a command: received with the present secret, executed
   once, for the identity it was accepted for. *)
IngressIsSound == ExecutedOnce /\ ReceivesWithPresentSecret
===============================================================================
