-------------------------------- MODULE Notices --------------------------------
(***************************************************************************)
(* resource_api/notification_queue.py and notifications.py: telling a      *)
(* bot's group what agents did.                                            *)
(*                                                                         *)
(* A command offers its notice while it is admitted.  The first one may be *)
(* sent at once by the command's own thread; the others wait in the bot's  *)
(* batch, are joined and sent by at most Workers threads, and every send   *)
(* of those asks again whether the bot still is what it was: a batch is    *)
(* for one target (bot, revision, generation, route).                      *)
(***************************************************************************)
EXTENDS Naturals, Sequences, FiniteSets, SequencesExt

CONSTANTS
  Groups,     \* the bots that have a group to notify
  Workers,    \* send slots, of all bots together
  MaxWaiting, \* max_events of a batch
  MaxBatches, \* max_bots
  MaxOffers,  \* bound: notices offered, numbered in the order of the offers
  MaxTargets, \* bound: generations of a bot's target
  NoText      \* no deferred text

ASSUME NoticeAssumption ==
  /\ {Workers, MaxWaiting, MaxBatches} \subseteq Nat \ {0}
  /\ {MaxOffers, MaxTargets} \subseteq Nat
  /\ NoText \notin Seq([id : Nat, kind : {"op", "alias"}])

VARIABLES
  target,  \* bot -> the generation of its instance and route; the row allows notices
  batches, \* bot -> its batch in _batches, or NoDelivery
  jobs,    \* the sends under way: which batch, which text, how far
  fate,    \* notice -> what has become of it
  offers,  \* how many were offered
  stopped  \* stop() was called

noticeVars == << target, batches, jobs, fate, offers, stopped >>

NoDelivery == [key |-> 0]
Notice == 1..MaxOffers
Kinds == {"op", "alias"}
Held(t) == IF t = NoText THEN << >> ELSE t

NoticeInit ==
  /\ target = [g \in Groups |-> [generation |-> 1, enabled |-> TRUE]]
  /\ batches = [g \in Groups |-> NoDelivery]
  /\ jobs = {}
  /\ fate = [n \in Notice |-> "unborn"]
  /\ offers = 0
  /\ stopped = FALSE

Texts(s) == {s[i].id : i \in DOMAIN s}
Mark(S, how) == fate' = [n \in Notice |-> IF n \in S THEN how ELSE fate[n]]
Retained(b) == IF b = NoDelivery THEN {} ELSE Texts(b.events) \cup Texts(Held(b.retry))
Resting(b) == ~b.sending /\ b.events = << >> /\ ~b.dropped /\ b.retry = NoText
(* _cancel_locked marks the batch; a job that has it finds the mark. *)
Orphaned(S) == {IF j \in S THEN [j EXCEPT !.orphan = TRUE] ELSE j : j \in jobs}
OfBatch(g) == {j \in jobs : j.group = g /\ ~j.orphan}
(* _inflight < workers: a send takes one of the slots, which tells it from others. *)
FreeSlots == {s \in 1..Workers : \A j \in jobs : j.slot # s}
FreeSlot == CHOOSE s \in FreeSlots : TRUE

-------------------------------------------------------------------------------
(* _append_locked: at the limit an operation pushes the oldest alias out, and
   what still does not fit is dropped and counted. *)
Append1(b, n) ==
  LET full == Len(b.events) >= MaxWaiting
      aliases == {i \in DOMAIN b.events : b.events[i].kind = "alias"}
      victim == CHOOSE i \in aliases : \A j \in aliases : i <= j
  IN IF ~full
     THEN [batch |-> [b EXCEPT !.events = Append(@, n)], lost |-> {}]
     ELSE IF n.kind # "alias" /\ aliases # {}
          THEN [batch |-> [b EXCEPT !.events = Append(RemoveAt(@, victim), n), !.dropped = TRUE],
                lost |-> {b.events[victim].id}]
          ELSE [batch |-> [b EXCEPT !.dropped = TRUE], lost |-> {n.id}]

(* offer: a batch of another target is cancelled, a new one needs room, for
   which a batch at rest is evicted.  An idle batch that is due sends at once. *)
Offer(g) ==
  LET n == offers + 1
      old == batches[g]
      changed == old # NoDelivery /\ old.key # target[g].generation
      known == old # NoDelivery /\ ~changed
      others == {h \in Groups \ {g} : batches[h] # NoDelivery}
      idle == {h \in others : Resting(batches[h])}
      fresh == [key |-> target[g].generation, events |-> << >>, dropped |-> FALSE, sending |-> FALSE,
                retry |-> NoText, due |-> TRUE, lapsed |-> FALSE]
      mine == IF known THEN old ELSE fresh
      cut == IF changed THEN Retained(old) ELSE {}
      Place(kept) ==
        \E kind \in Kinds :
          LET put == Append1(mine, [id |-> n, kind |-> kind]) IN
          IF Resting(mine) /\ mine.due /\ FreeSlots # {}
          THEN /\ batches' = [kept EXCEPT ![g] = [mine EXCEPT !.sending = TRUE, !.due = FALSE]]
               /\ jobs' = (IF changed THEN Orphaned(OfBatch(g)) ELSE jobs) \cup
                          {[group |-> g, key |-> mine.key, text |-> << [id |-> n, kind |-> kind] >>,
                            at |-> "io", own |-> TRUE, orphan |-> FALSE, slot |-> FreeSlot]}
               /\ fate' = [m \in Notice |-> IF m = n THEN "taken"
                                            ELSE IF m \in cut THEN "cancelled" ELSE fate[m]]
          ELSE /\ batches' = [kept EXCEPT ![g] = put.batch]
               /\ jobs' = IF changed THEN Orphaned(OfBatch(g)) ELSE jobs
               /\ fate' = [m \in Notice |-> IF m \in put.lost THEN "dropped"
                                            ELSE IF m = n THEN "queued"
                                            ELSE IF m \in cut THEN "cancelled" ELSE fate[m]]
  IN
  /\ offers < MaxOffers
  /\ target[g].enabled
  /\ offers' = n
  /\ IF stopped
     THEN Mark({n}, "dropped") /\ UNCHANGED << batches, jobs >>
     ELSE IF known \/ Cardinality(others) < MaxBatches
          THEN Place(batches)
          ELSE IF idle # {}
               THEN \E h \in idle : Place([batches EXCEPT ![h] = NoDelivery])
               ELSE /\ batches' = [batches EXCEPT ![g] = NoDelivery]
                    /\ jobs' = IF changed THEN Orphaned(OfBatch(g)) ELSE jobs
                    /\ fate' = [m \in Notice |-> IF m = n THEN "dropped"
                                                 ELSE IF m \in cut THEN "cancelled" ELSE fate[m]]
  /\ UNCHANGED << target, stopped >>

(* _take_locked: the deferred text first, unless its time is up, otherwise as
   many of the waiting notices as fit in one message. *)
Take(g) ==
  LET b == batches[g]
      late == b.retry # NoText /\ b.lapsed
      retry == IF late THEN NoText ELSE b.retry
  IN
  /\ ~stopped
  /\ b # NoDelivery
  /\ ~b.sending /\ b.due /\ ~Resting(b)
  /\ FreeSlots # {}
  /\ \E k \in (IF retry # NoText THEN {0}
               ELSE IF b.dropped THEN 0..Len(b.events) ELSE 1..Len(b.events)) :
       /\ batches' = [batches EXCEPT ![g] =
                        [b EXCEPT !.sending = TRUE, !.due = FALSE, !.retry = NoText,
                                  !.lapsed = IF late THEN FALSE ELSE @,
                                  !.events = SubSeq(@, k + 1, Len(@)),
                                  !.dropped = IF retry # NoText THEN @ ELSE FALSE]]
       /\ jobs' = jobs \cup {[group |-> g, key |-> b.key, at |-> "check", own |-> FALSE, orphan |-> FALSE,
                              slot |-> FreeSlot, text |-> IF retry # NoText THEN retry ELSE SubSeq(b.events, 1, k)]}
       /\ fate' = [m \in Notice |->
                     IF late /\ m \in Texts(b.retry) THEN "expired"
                     ELSE IF m \in Texts(IF retry # NoText THEN retry ELSE SubSeq(b.events, 1, k))
                          THEN "taken" ELSE fate[m]]
  /\ UNCHANGED << target, offers, stopped >>

(* The deferred text expired and nothing else waits: no job. *)
Lapse(g) ==
  LET b == batches[g] IN
  /\ ~stopped
  /\ b # NoDelivery
  /\ ~b.sending /\ b.due /\ b.retry # NoText /\ b.lapsed
  /\ b.events = << >> /\ ~b.dropped
  /\ FreeSlots # {}
  /\ batches' = [batches EXCEPT ![g].retry = NoText, ![g].lapsed = FALSE]
  /\ Mark(Texts(b.retry), "expired")
  /\ UNCHANGED << target, jobs, offers, stopped >>

(* _finish: the slot is free, and the batch, unless it is another by now. *)
Settled(j) ==
  /\ jobs' = jobs \ {j}
  /\ batches' = IF j.orphan \/ batches[j.group] = NoDelivery THEN batches
                ELSE [batches EXCEPT ![j.group].sending = FALSE]

(* _deliver up to the send: the instance that is admitted and the row, read
   under the authority guard, are those the batch is for. *)
Alike(j) ==
  /\ target[j.group].generation = j.key
  /\ target[j.group].enabled
  /\ ~j.orphan

(* _run: a full bot defers, anything else that differs cancels.  Deferred after
   its batch was cancelled, a text is thrown away and no counter says so; neither
   for a job that _loop had not handed over when stop() came. *)
Check(j) ==
  /\ j.at = "check"
  /\ \/ /\ Alike(j)
        /\ jobs' = (jobs \ {j}) \cup {[j EXCEPT !.at = "io"]}
        /\ UNCHANGED << batches, fate >>
     \/ /\ ~Alike(j)
        /\ Settled(j)
        /\ Mark(Texts(j.text), "cancelled")
     \/ /\ jobs' = jobs \ {j}
        /\ IF j.orphan
           THEN Mark(Texts(j.text), "lost") /\ UNCHANGED batches
           ELSE /\ batches' = [batches EXCEPT ![j.group].sending = FALSE, ![j.group].retry = j.text]
                /\ Mark(Texts(j.text), "queued")
     \/ /\ Settled(j)                        \* an exception: uncertain, not retried
        /\ Mark(Texts(j.text), "unknown")
     \/ /\ stopped
        /\ Settled(j)
        /\ Mark(Texts(j.text), "lost")
  /\ UNCHANGED << target, offers, stopped >>

(* The platform accepts the message, refuses it, or nobody knows. *)
Send(j) ==
  /\ j.at = "io"
  /\ \E how \in {"accepted", "failed", "unknown"} : Mark(Texts(j.text), how)
  /\ jobs' = jobs \ {j}
  /\ batches' = IF j.orphan \/ batches[j.group] = NoDelivery THEN batches
                ELSE [batches EXCEPT ![j.group].sending = FALSE,
                                     ![j.group].lapsed = IF j.own THEN @ ELSE FALSE]
  /\ UNCHANGED << target, offers, stopped >>

(* Time passes: a deadline is reached; 120 seconds of deferrals are over. *)
ComesDue(g) ==
  /\ batches[g] # NoDelivery
  /\ ~batches[g].due
  /\ batches' = [batches EXCEPT ![g].due = TRUE]
  /\ UNCHANGED << target, jobs, fate, offers, stopped >>

RetryLapses(g) ==
  /\ batches[g] # NoDelivery
  /\ batches[g].retry # NoText /\ ~batches[g].lapsed
  /\ batches' = [batches EXCEPT ![g].lapsed = TRUE]
  /\ UNCHANGED << target, jobs, fate, offers, stopped >>

-------------------------------------------------------------------------------
(* Mutant: what waited in the batch is forgotten. *)
CancelUncounted(g) ==
  /\ batches' = [batches EXCEPT ![g] = NoDelivery]
  /\ jobs' = Orphaned(OfBatch(g))
  /\ UNCHANGED fate

(* cancel: the instance retired, or the owner switched notices off. *)
Cancel(g) ==
  /\ batches' = [batches EXCEPT ![g] = NoDelivery]
  /\ jobs' = Orphaned(OfBatch(g))
  /\ Mark(Retained(batches[g]), "cancelled")

(* A generation is replaced when its leases have drained: the command that
   sends its own notice has one, and so has a worker that is sending. *)
RetireTarget(g) ==
  /\ target[g].generation < MaxTargets
  /\ ~\E j \in jobs : j.group = g /\ j.at = "io"
  /\ target' = [target EXCEPT ![g].generation = @ + 1]
  /\ Cancel(g)
  /\ UNCHANGED << offers, stopped >>

(* The row commits before the queue is told. *)
DisableNotices(g) ==
  /\ target[g].enabled
  /\ target' = [target EXCEPT ![g].enabled = FALSE]
  /\ UNCHANGED << batches, jobs, fate, offers, stopped >>

CancelDisabled(g) ==
  /\ ~target[g].enabled
  /\ batches[g] # NoDelivery
  /\ Cancel(g)
  /\ UNCHANGED << target, offers, stopped >>

EnableNotices(g) ==
  /\ ~target[g].enabled
  /\ batches[g] = NoDelivery
  /\ target' = [target EXCEPT ![g].enabled = TRUE]
  /\ UNCHANGED << batches, jobs, fate, offers, stopped >>

StopQueue ==
  /\ ~stopped
  /\ stopped' = TRUE
  /\ batches' = [g \in Groups |-> NoDelivery]
  /\ jobs' = {[j EXCEPT !.orphan = TRUE] : j \in jobs}
  /\ Mark(UNION {Retained(batches[g]) : g \in Groups}, "cancelled")
  /\ UNCHANGED << target, offers >>

NoticeWork(g) == Take(g) \/ Lapse(g) \/ ComesDue(g) \/ RetryLapses(g)
NoticeRun == \E j \in jobs : Check(j) \/ Send(j)

NoticeNext ==
  \/ \E g \in Groups :
       \/ Offer(g) \/ NoticeWork(g)
       \/ RetireTarget(g) \/ DisableNotices(g) \/ CancelDisabled(g) \/ EnableNotices(g)
  \/ NoticeRun
  \/ StopQueue

NoticeSpec == NoticeInit /\ [][NoticeNext]_noticeVars

-------------------------------------------------------------------------------
NoticeTypeOK ==
  /\ target \in [Groups -> [generation : 1..(MaxTargets + 1), enabled : BOOLEAN]]
  /\ \A g \in Groups : batches[g] # NoDelivery =>
       /\ batches[g].key \in 1..(MaxTargets + 1)
       /\ Len(batches[g].events) <= MaxWaiting
  /\ fate \in [Notice -> {"unborn", "queued", "taken", "accepted", "failed", "unknown",
                          "cancelled", "dropped", "expired", "lost"}]
  /\ offers \in 0..MaxOffers
  /\ stopped \in BOOLEAN

(* Sends do not outnumber the slots, and a batch has one at a time. *)
OneSendEach ==
  /\ Cardinality(jobs) <= Workers
  /\ \A g \in Groups : /\ Cardinality(OfBatch(g)) <= 1
                       /\ batches[g] # NoDelivery => (batches[g].sending <=> OfBatch(g) # {})

(* What waits is in a batch and what is under way is carried by a job, each
   notice in one of them: none leaves a batch or a job without an outcome. *)
NoticesAccounted ==
  /\ {n \in Notice : fate[n] = "queued"} = UNION {Retained(batches[g]) : g \in Groups}
  /\ {n \in Notice : fate[n] = "taken"} = UNION {Texts(j.text) : j \in jobs}

(* An outcome is for good: what was sent, or given up, is not sent later.  And
   the one outcome that no counter tells of befalls only what was under way when
   its batch was cancelled or the queue stopped. *)
OutcomesAreFinal ==
  [][\A n \in 1..offers : fate'[n] # fate[n] =>
       /\ fate[n] \in {"queued", "taken"}
       /\ fate'[n] = "lost" => stopped \/ \E j \in jobs : j.orphan /\ n \in Texts(j.text)]_noticeVars

(* A message of a retired generation is never handed to the platform, and a
   group reads the notices of one batch in the order of the commands. *)
SentInOrder ==
  [][\A j \in jobs : (j \notin jobs' /\ \E m \in Texts(j.text) : fate'[m] = "accepted") =>
       /\ j.key = target[j.group].generation
       /\ \A n \in Retained(batches[j.group]) : ~j.orphan => \A m \in Texts(j.text) : m < n]_noticeVars

(* The queue of notices as a whole: a notice is in one place and has one
   outcome, lost uncounted only with its batch, and what is sent goes to the
   present target in order. *)
NoticesAreSound == [](OneSendEach /\ NoticesAccounted) /\ OutcomesAreFinal /\ SentInOrder
===============================================================================
