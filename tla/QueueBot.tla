------------------------------ MODULE QueueBot ------------------------------
(***************************************************************************)
(* A queue bot (core/queue_bot.py, core/queue_device_bot.py): exclusive    *)
(* leases on resources, a booking list per resource, preemption with take, *)
(* releases, operator kicks and the sweep that ends leases, gives the turn *)
(* to the next booking and takes it away again.                            *)
(***************************************************************************)
EXTENDS BaseBot

-----------------------------------------------------------------------------
(* lock *)
\* Mutant: the head of the queue has no precedence.
MayLockIdle(r, u) == r.status = "idle" \/ Holds(r, u)

MayLock(r, u) ==
  \/ r.status = "idle" /\ (r.bookings = << >> \/ IsFirst(r.bookings, u))
  \/ Holds(r, u)

\* A claim without a duration takes the booked one.
Granted(r, u, req) ==
  IF req = Omitted /\ Booked(r.bookings, u)
  THEN BookingOf(r.bookings, u).dur
  ELSE Requested(req)

LockedLeft(r, u, req) == Granted(r, u, req) + LeftOf(r, u)

Locked(r, u, req) ==
  [status |-> "exclusive",
   current |-> {[user |-> u, left |-> LockedLeft(r, u, req), warned |-> FALSE]},
   bookings |-> WithoutBooking(r.bookings, u)]

Lock(u, targets, req, limit) ==
  /\ WithinLimit(state, u, targets, limit)
  /\ PolicyAllows(state, u, targets, req)
  /\ \A n \in targets :
       /\ MayLock(state[n], u)
       /\ WithinMax(u, LockedLeft(state[n], u, req), maxDur)
       /\ LockedLeft(state[n], u, req) <= MaxLeft
  /\ Persist(Update(targets, LAMBDA r : Locked(r, u, req)))
  /\ told' = Renewed(u, targets)
  /\ UNCHANGED << maxDur, sending >>

(* book *)
BookingFor(u, req) ==
  [user |-> u, dur |-> Requested(req), waited |-> NotNotified]

Book(u, targets, req, limit) ==
  /\ WithinLimit(state, u, targets, limit)
  /\ PolicyAllows(state, u, targets, Omitted)
  /\ \A n \in targets : ~ Holds(state[n], u) /\ ~ Booked(state[n].bookings, u)
  /\ WithinMax(u, Requested(req), maxDur)
  /\ Persist(Update(targets, LAMBDA r :
       [r EXCEPT !.bookings = Append(@, BookingFor(u, req))]))
  /\ UNCHANGED << maxDur, sending, told >>

(* take: the preempted user, if any time was left, goes to the front of the
   queue with that time; whoever had been told it was its turn no longer has. *)
\* Mutant: a lease that already ran out is queued too.
PreemptedExpired(r, u) == {h \in r.current : h.user # u}

Preempted(r, u) == {h \in r.current : h.user # u /\ h.left > 0}

Requeued(r, u) ==
  IF Preempted(r, u) = {} THEN << >>
  ELSE LET h == CHOOSE h \in Preempted(r, u) : TRUE
       IN  << [user |-> h.user, dur |-> h.left, waited |-> NotNotified] >>

Unnotified(q) == [i \in 1..Len(q) |-> [q[i] EXCEPT !.waited = NotNotified]]

\* Mutant: the preempted user stays beside the taker.
TakenBeside(r, u, req) ==
  [status |-> "exclusive",
   current |-> r.current \cup
     {[user |-> u, left |-> Requested(req), warned |-> FALSE]},
   bookings |-> Requeued(r, u) \o Unnotified(WithoutBooking(r.bookings, u))]

Taken(r, u, req) ==
  [status |-> "exclusive",
   current |-> {[user |-> u, left |-> Requested(req), warned |-> FALSE]},
   bookings |-> Requeued(r, u) \o Unnotified(WithoutBooking(r.bookings, u))]

Take(u, targets, req) ==
  /\ PolicyAllows(state, u, targets, Requested(req))
  /\ \A n \in targets : ~ Holds(state[n], u)
  /\ WithinMax(u, Requested(req), maxDur)
  /\ Persist(Update(targets, LAMBDA r : Taken(r, u, req)))
  /\ told' = Renewed(u, targets)
  /\ UNCHANGED << maxDur, sending >>

(* kicklock, do_kicklock: the current users go, the queue stays. *)
Kicklock(targets) ==
  /\ Persist(Update(targets, LAMBDA r : Keep(r, {})))
  /\ UNCHANGED << maxDur, sending, told >>

-----------------------------------------------------------------------------
(* _check_and_notify *)

\* Is it time to tell the head of the queue: it was not told yet, or the head
\* let its claim window pass and the next one moves up?
TimedOut(r) ==
  r.status = "idle" /\ r.bookings # << >> /\ r.bookings[1].waited >= ClaimWindow

NeedsNotice(r) ==
  r.status = "idle" /\ r.bookings # << >> /\ r.bookings[1].waited = NotNotified

NotifyHead(q) == IF q = << >> THEN q ELSE [q EXCEPT ![1].waited = 0]

\* Mutant: a head that let its window pass is told again.
AdvanceKeepingHead(r) ==
  IF TimedOut(r) \/ NeedsNotice(r)
  THEN [r EXCEPT !.bookings = NotifyHead(@)] ELSE r

Advance(r) ==
  CASE TimedOut(r) -> [r EXCEPT !.bookings = NotifyHead(Tail(@))]
    [] NeedsNotice(r) -> [r EXCEPT !.bookings = NotifyHead(@)]
    [] OTHER -> r

Swept(r) == Advance(Expire(r))

\* Mutant: whoever moves up because the head timed out is not told.
TurnsOfNewHeads(st, swept) ==
  {<< "turn", n, swept[n].bookings[1].user >> : n \in
     {m \in Nodes : NeedsNotice(Expire(st[m])) /\ swept[m].bookings # << >>}}

Turns(st, swept) ==
  {<< "turn", n, swept[n].bookings[1].user >> : n \in
     {m \in Nodes : /\ TimedOut(Expire(st[m])) \/ NeedsNotice(Expire(st[m]))
                    /\ swept[m].bookings # << >>}}

Cancellations(st) ==
  {<< "cancelled", n, st[n].bookings[1].user >> : n \in
     {m \in Nodes : TimedOut(Expire(st[m]))}}

\* The cancelled bookings are listed in the part of the message that gives
\* turns, and with it they are left out.
Message(st, swept) ==
  LET turns == Turns(st, swept)
  IN  Endings(st) \cup turns \cup (IF turns = {} THEN {} ELSE Cancellations(st))

(***************************************************************************)
(* The scheduler thread sweeps again only after it sent the last sweep's   *)
(* message.  A sweep whose save failed raises before it sends anything; a  *)
(* sweep that changes nothing saves and sends nothing.                     *)
(***************************************************************************)
Sweep ==
  LET swept == [n \in Nodes |-> Swept(state[n])]
  IN  /\ sending = {}
      /\ swept # state
      /\ Persist(swept)
      /\ sending' = IF saved' THEN Message(state, swept) ELSE {}
      /\ told' = told \ Turns(state, swept)
      /\ UNCHANGED maxDur

-----------------------------------------------------------------------------
Command(u) ==
  \/ UnlockAll(u)
  \/ \E targets \in Targets :
       \/ Unlock(u, targets)
       \/ \E req \in Requests :
            \/ Take(u, targets, req)
            \/ \E limit \in Limits :
                 Lock(u, targets, req, limit) \/ Book(u, targets, req, limit)

Operator ==
  \/ \E targets \in Targets : Kickout(targets) \/ Kicklock(targets)
  \/ \E u \in Users, targets \in Targets : Opkick(u, targets)

Next ==
  \/ \E u \in Users : Command(u)
  \/ Operator
  \/ Sweep
  \/ Send
  \/ Tick
  \/ Restart

Spec == Init /\ [][Next]_vars

(***************************************************************************)
(* The clock runs and the scheduler thread keeps sweeping and sending; no  *)
(* user or operator has to act.                                            *)
(***************************************************************************)
Fairness == WF_vars(Tick) /\ WF_vars(Sweep) /\ WF_vars(Send)

FairSpec == Spec /\ Fairness
-----------------------------------------------------------------------------
(***************************************************************************)
(* A queue bot's lease is exclusive: whatever sequence of claims, takes,   *)
(* kicks, sweeps and restarts led here, a resource has at most one current *)
(* user, and its status says exactly whether it has one.                   *)
(***************************************************************************)
SingleHolder(r) ==
  /\ \A h, k \in r.current : h = k
  /\ r.status = IF r.current = {} THEN "idle" ELSE "exclusive"

Exclusive == \A n \in Nodes : SingleHolder(state[n])

(***************************************************************************)
(* Nobody has two seats on one resource: not two bookings, and not a lease *)
(* and a booking (a preempted user re-enters the queue, a claim and a take *)
(* consume the booking).                                                   *)
(***************************************************************************)
DistinctSeats(r) ==
  /\ \A i, j \in 1..Len(r.bookings) :
       r.bookings[i].user = r.bookings[j].user => i = j
  /\ \A i \in 1..Len(r.bookings) : ~ Holds(r, r.bookings[i].user)

OneSeat == \A n \in Nodes : DistinctSeats(state[n])

(***************************************************************************)
(* The claim window runs only for the head of the queue of an idle         *)
(* resource, so nobody's window can close while someone else has the       *)
(* resource or the turn.                                                   *)
(***************************************************************************)
HeadNotified(r) ==
  \A i \in 1..Len(r.bookings) :
    r.bookings[i].waited # NotNotified => i = 1 /\ r.status = "idle"

WindowOnlyForHead == \A n \in Nodes : HeadNotified(state[n])

(***************************************************************************)
(* With FORBID_RELOCK nobody's entitlement to a resource grows in one step *)
(* of anybody: neither the time left on a lease, nor the time a booking    *)
(* will be granted, nor by turning one into the other by a claim, a take,  *)
(* a preemption or a restart.                                              *)
(***************************************************************************)
Entitled(r, u) == Holds(r, u) \/ Booked(r.bookings, u)

Entitlement(r, u) ==
  IF Holds(r, u) THEN Remaining(LeftOf(r, u)) ELSE BookingOf(r.bookings, u).dur

EntitlementNeverGrows ==
  [][\A n \in Nodes, u \in Users :
       ForbidRelock /\ Entitled(state[n], u) /\ Entitled(state'[n], u)
         => Entitlement(state'[n], u) <= Entitlement(state[n], u)]_vars

(***************************************************************************)
(* With FORBID_RELOCK the waiting time _current_usage displays to a user   *)
(* in the queue (what the holder has left plus what the bookings ahead     *)
(* asked for) is only ever put back by a take of that resource.            *)
(***************************************************************************)
HeldFor(r) ==
  IF r.current = {} THEN 0 ELSE Remaining((CHOOSE h \in r.current : TRUE).left)

Wait(r, u) ==
  HeldFor(r) + SumFunctionOnSet([i \in 1..Len(r.bookings) |-> r.bookings[i].dur],
                                1 .. Position(r.bookings, u) - 1)

TakenOver(before, after) ==
  \E u \in Users : Holds(after, u) /\ ~ MayLock(before, u)

WaitOnlyGrowsByTake ==
  [][\A n \in Nodes, u \in Users :
       /\ ForbidRelock
       /\ Booked(state[n].bookings, u)
       /\ Booked(state'[n].bookings, u)
       /\ ~ TakenOver(state[n], state'[n])
       => Wait(state'[n], u) <= Wait(state[n], u)]_vars

(***************************************************************************)
(* MAX_RESOURCES_PER_USER, as the policy is written: a step that gives a   *)
(* user a seat on a resource it had none on leaves it within the cap,      *)
(* whichever command it used.                                              *)
(***************************************************************************)
CapOnNewSeats ==
  [][\A u \in Users :
       (\E n \in Nodes : Entitled(state'[n], u) /\ ~ Entitled(state[n], u))
         => \/ Cap = Unlimited
            \/ Cardinality(Claims(state', u)) <= Cap]_vars

(***************************************************************************)
(* The sweep takes the turn away from a head only if the head's turn       *)
(* notice was handed to the platform (queue-device.md: when it is Bob's    *)
(* turn the bot reminds him in the group).  True as long as neither the    *)
(* file nor the platform fails and the process does not restart between    *)
(* the save and the send; a save that fails loses the notice for good,     *)
(* because the head is already marked in memory.                           *)
(***************************************************************************)
NoSilentTimeout ==
  sending = {} =>
    \A n \in Nodes :
      TimedOut(state[n]) => << "turn", n, state[n].bookings[1].user >> \in told

-----------------------------------------------------------------------------
(***************************************************************************)
(* The bot implements a fair line per resource: the owner is the current   *)
(* user, the line its booking list.  Holds as long as the file can be      *)
(* written, since a restart falls back to the last state that could be.    *)
(***************************************************************************)
Owner(r) ==
  IF r.current = {} THEN NoUser ELSE (CHOOSE h \in r.current : TRUE).user

Line(r) == [i \in 1..Len(r.bookings) |-> r.bookings[i].user]

Abstract == INSTANCE FairLine WITH
  Nobody <- NoUser,
  owner <- [n \in Nodes |-> Owner(state[n])],
  line <- [n \in Nodes |-> Line(state[n])]

FairLine == Abstract!LineSpec

-----------------------------------------------------------------------------
(***************************************************************************)
(* With FORBID_RELOCK every lease ends: the holder cannot extend it, and   *)
(* the sweep releases it when it runs out, even if nobody asks for the     *)
(* resource.                                                               *)
(***************************************************************************)
LeaseEnds ==
  \A n \in Nodes, u \in Users :
    ForbidRelock /\ Holds(state[n], u) ~> ~ Holds(state[n], u)

(***************************************************************************)
(* A head that was told it is its turn either claims the resource or makes *)
(* way for the next one, but never keeps an idle resource waiting.         *)
(***************************************************************************)
TurnEnds ==
  \A n \in Nodes, u \in Users :
    (state[n].status = "idle" /\ IsFirst(state[n].bookings, u))
      ~> ~ (state[n].status = "idle" /\ IsFirst(state[n].bookings, u))

(***************************************************************************)
(* Unless the resource is taken over and over again, a booking gets its    *)
(* turn: its user becomes the head of an idle resource, gets the resource, *)
(* or gives the booking up.                                                *)
(***************************************************************************)
Waits(n, u) ==
  /\ Booked(state[n].bookings, u)
  /\ ~ (IsFirst(state[n].bookings, u) /\ state[n].status = "idle")

TakeStep == \E n \in Nodes : TakenOver(state[n], state'[n])

TurnComes ==
  \/ []<><<TakeStep>>_vars
  \/ \A n \in Nodes, u \in Users : Waits(n, u) ~> ~ Waits(n, u)

-----------------------------------------------------------------------------
(***************************************************************************)
(* The queue at rest is in order: one user, one seat each, and a claim     *)
(* window that runs for nobody but the head.                               *)
(***************************************************************************)
QueueInOrder == Exclusive /\ OneSeat /\ WindowOnlyForHead

(***************************************************************************)
(* The same under failing writes, crashes and restarts, where in addition  *)
(* what a command acknowledged is in the file.                             *)
(***************************************************************************)
SavedInOrder == Durable /\ QueueInOrder

(***************************************************************************)
(* With FORBID_RELOCK no sequence of claims, takes and cancellations gains *)
(* anybody time, neither with a resource nor at the cost of the queue.     *)
(***************************************************************************)
NoGain == EntitlementNeverGrows /\ WaitOnlyGrowsByTake

(***************************************************************************)
(* The queue moves on its own: leases end, turns end, and turns come.      *)
(***************************************************************************)
TurnsEnd == LeaseEnds /\ TurnEnds /\ TurnComes
=============================================================================
