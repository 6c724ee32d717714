------------------------------ MODULE Holdings ------------------------------
(***************************************************************************)
(* The records a bot keeps about one resource and the helpers every bot    *)
(* type shares: core/utils.py, core/resource_policy.py and the policy      *)
(* checks of core/base_bot.py.                                             *)
(*                                                                         *)
(* The code stores an absolute (start_time, duration) pair per user and    *)
(* reads the clock wherever it needs a deadline.  Every use of the pair is *)
(* a use of start_time + duration - now (a holder's remaining time), of    *)
(* duration (a waiter's request) or of now - start_time (how long ago a    *)
(* waiter was told it is its turn), so these three are what is kept, and   *)
(* the passage of time is the operator Older, applied to memory and disk   *)
(* alike.  A holder whose lease ran out but was not swept yet has          *)
(* left <= 0, as far down as -MaxLag.                                      *)
(***************************************************************************)
EXTENDS Integers, SequencesExt

CONSTANTS
  Nodes,            \* resource keys: nodes (QUEUE, NODE) or cards (QUEUE_DEVICE)
  Users,            \* user ids
  MachineOf,        \* the machine of a resource; itself for node bots
  Whitelist,        \* DURATION_WHITELIST
  Durations,        \* durations a command may ask for
  DefaultDuration,  \* DEFAULT_DURATION
  ForbidRelock,     \* FORBID_RELOCK
  Cap,              \* MAX_RESOURCES_PER_USER, Unlimited for -1
  EarlyNotify,      \* EARLY_NOTIFY
  TimeAlert,        \* TIME_ALERT
  ClaimWindow,      \* TIME_TO_LOCK, the 300 of policy_for_state
  MaxLag,           \* bound: how far past its deadline a lease is tracked
  MaxLeft           \* bound: the longest remaining time reachable by renewal

Unlimited == -1     \* no cap, no maximum duration, no acquisition limit
Omitted == 0        \* a command without an explicit duration
NotNotified == -1   \* a booking whose user was not told it is its turn

ASSUME HoldingsAssumption ==
  /\ MachineOf \in [Nodes -> Nodes]
  /\ Durations \subseteq Nat \ {0}
  /\ DefaultDuration \in Nat \ {0}
  /\ ForbidRelock \in BOOLEAN
  /\ Cap \in Int
  /\ EarlyNotify \in BOOLEAN
  /\ TimeAlert \in Nat
  /\ ClaimWindow \in Nat \ {0}
  /\ MaxLag \in Nat
  /\ MaxLeft \in Nat \ {0}

-----------------------------------------------------------------------------
Holding == [user : Users, left : Int, warned : BOOLEAN]
Booking == [user : Users, dur : Nat \ {0}, waited : -1 .. ClaimWindow]

\* current_users is kept as a set: its order is never read (a queue bot, the
\* only one that would, never has two current users on one resource).
Resource == [status : {"idle", "exclusive", "shared"},
             current : SUBSET Holding,
             bookings : Seq(Booking)]

Fresh == [status |-> "idle", current |-> {}, bookings |-> << >>]

Holds(r, u) == \E h \in r.current : h.user = u
HoldingOf(r, u) == CHOOSE h \in r.current : h.user = u
LeftOf(r, u) == IF Holds(r, u) THEN HoldingOf(r, u).left ELSE 0

Booked(q, u) == \E i \in 1..Len(q) : q[i].user = u
Position(q, u) == CHOOSE i \in 1..Len(q) : q[i].user = u
BookingOf(q, u) == q[Position(q, u)]
IsFirst(q, u) == q # << >> /\ q[1].user = u
WithoutBooking(q, u) == IF Booked(q, u) THEN RemoveAt(q, Position(q, u)) ELSE q

Remaining(left) == IF left > 0 THEN left ELSE 0

(***************************************************************************)
(* Removing users from current_users: the resource falls idle when nobody  *)
(* is left on it.                                                          *)
(***************************************************************************)
Keep(r, holdings) ==
  [r EXCEPT !.current = holdings,
            !.status = IF holdings = {} THEN "idle" ELSE r.status]

Vacate(r, u) == Keep(r, {h \in r.current : h.user # u})

(***************************************************************************)
(* What counts against a user's quota: a lease that has not run out and a  *)
(* booking whose claim window has not closed.                              *)
(***************************************************************************)
Claims(st, u) ==
  {n \in Nodes :
     \/ \E h \in st[n].current : h.user = u /\ h.left > 0
     \/ \E i \in 1..Len(st[n].bookings) :
          LET b == st[n].bookings[i]
          IN  b.user = u /\ (b.waited = NotNotified \/ b.waited < ClaimWindow)}

\* Mutant: one resource already claimed lets the whole request pass.
WithinCapIfAnyHeld(st, u, targets) ==
  \/ Cap = Unlimited
  \/ targets \cap Claims(st, u) # {}
  \/ Cardinality(Claims(st, u) \cup targets) <= Cap

WithinCap(st, u, targets) ==
  \/ Cap = Unlimited
  \/ targets \subseteq Claims(st, u)
  \/ Cardinality(Claims(st, u) \cup targets) <= Cap

\* Mutant: a claim may ask for more than was booked.
NoRelockAnyClaim(st, u, targets, claim) ==
  ForbidRelock => \A n \in targets : ~ Holds(st[n], u)

\* claim is the duration of the request, Omitted when it sets none.
NoRelock(st, u, targets, claim) ==
  ForbidRelock =>
    \A n \in targets :
      /\ ~ Holds(st[n], u)
      /\ Booked(st[n].bookings, u) =>
           claim <= BookingOf(st[n].bookings, u).dur

PolicyAllows(st, u, targets, claim) ==
  WithinCap(st, u, targets) /\ NoRelock(st, u, targets, claim)

\* The limit of an API command counts machines and every seat on them, leases
\* and bookings that already ran out included.
Seats(st, u) ==
  {MachineOf[n] : n \in {m \in Nodes : Holds(st[m], u) \/ Booked(st[m].bookings, u)}}

WithinLimit(st, u, targets, limit) ==
  LET machines == {MachineOf[n] : n \in targets}
  IN  \/ limit = Unlimited
      \/ machines \subseteq Seats(st, u)
      \/ Cardinality(Seats(st, u) \cup machines) <= limit

\* The maximum a lease may run from now on; max is MAX_LOCK_DURATION.
WithinMax(u, left, max) == max = Unlimited \/ u \in Whitelist \/ left <= max

-----------------------------------------------------------------------------
(***************************************************************************)
(* One tick of the wall clock, seen by the records of a resource.          *)
(***************************************************************************)
OlderHolding(h) == [h EXCEPT !.left = IF @ > -MaxLag THEN @ - 1 ELSE @]

OlderBooking(b) ==
  [b EXCEPT !.waited = IF @ \in 0 .. ClaimWindow - 1 THEN @ + 1 ELSE @]

Older(r) ==
  [r EXCEPT !.current = {OlderHolding(h) : h \in @},
            !.bookings = [i \in 1..Len(@) |-> OlderBooking(@[i])]]

(***************************************************************************)
(* The part of the expiry sweep all bots share: leases that ran out go,    *)
(* those about to run out are marked as warned.                            *)
(***************************************************************************)
\* Mutant: a lease whose end came before its warning is kept.
ExpireWarned(r) ==
  Keep(r, {[h EXCEPT !.warned = @ \/ (EarlyNotify /\ h.left > 0 /\ h.left <= TimeAlert)]
             : h \in {g \in r.current : g.left > 0 \/ ~ g.warned}})

Expire(r) ==
  Keep(r, {[h EXCEPT !.warned = @ \/ (EarlyNotify /\ h.left <= TimeAlert)]
             : h \in {g \in r.current : g.left > 0}})

(***************************************************************************)
(* Loading a state file clamps leases to the configured maximum.           *)
(***************************************************************************)
Clamp(r, max) ==
  [r EXCEPT !.current =
     {[h EXCEPT !.left = IF WithinMax(h.user, Remaining(@), max) THEN @ ELSE max]
        : h \in @}]
=============================================================================
