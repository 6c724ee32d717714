--------------------------- MODULE QueueBotProofs ---------------------------
(***************************************************************************)
(* Theorems about QueueBot, for every set of resources and users and every *)
(* configuration.  The inductive invariant says that every resource, in    *)
(* memory and in the file, is orderly; the lemmas of the first part show   *)
(* that every operator that changes a resource keeps it orderly.  The      *)
(* other parts compare a resource before and after a step: its owner and   *)
(* its line move as FairLine allows, nobody's entitlement grows, nobody    *)
(* waits longer unless somebody takes over, whoever is marked as told was  *)
(* told, and new seats are within the cap.                                 *)
(***************************************************************************)
EXTENDS QueueBot, DataLemmas, FiniteSetTheorems, SequenceTheorems, TLAPS

\* What the three resource invariants say of one resource, with its type.
Orderly(r) ==
  /\ r \in Resource
  /\ SingleHolder(r)
  /\ DistinctSeats(r)
  /\ HeadNotified(r)

AllOrderly(st) == st \in [Nodes -> Resource] /\ \A n \in Nodes : Orderly(st[n])

(***************************************************************************)
(* The inductive invariant.  The three resource invariants depend on each  *)
(* other (a claim keeps DistinctSeats only because the claimant is the     *)
(* only holder or the head), and the file must be as orderly as memory     *)
(* because a restart copies it there.                                      *)
(***************************************************************************)
IInv ==
  /\ AllOrderly(state)
  /\ AllOrderly(disk)
  /\ maxDur \in MaxDurations
  /\ saved \in BOOLEAN
  /\ sending \in SUBSET Notice
  /\ told \in SUBSET Notice
  /\ Durable

-----------------------------------------------------------------------------
(***************************************************************************)
(* What removing one element from a sequence returns.                      *)
(***************************************************************************)
LEMMA RemoveAtProperty ==
  ASSUME NEW S, NEW s \in Seq(S), NEW i \in 1..Len(s)
  PROVE  /\ RemoveAt(s, i) \in Seq(S)
         /\ Len(RemoveAt(s, i)) = Len(s) - 1
         /\ \A j \in 1..Len(s)-1 :
              RemoveAt(s, i)[j] = IF j < i THEN s[j] ELSE s[j+1]
<1> DEFINE a == SubSeq(s, 1, i-1)
           b == SubSeq(s, i+1, Len(s))
<1>1. /\ a \in Seq(S)
      /\ Len(a) = i-1
      /\ \A j \in 1..i-1 : a[j] = s[j]
  BY SubSeqProperties
<1>2. /\ b \in Seq(S)
      /\ Len(b) = Len(s) - i
      /\ \A j \in 1..Len(s)-i : b[j] = s[i+j]
  BY SubSeqProperties
<1>3. RemoveAt(s, i) = a \o b
  BY DEF RemoveAt
<1> HIDE DEF a, b
<1>4. /\ a \o b \in Seq(S)
      /\ Len(a \o b) = Len(a) + Len(b)
      /\ \A j \in 1..Len(a)+Len(b) :
           (a \o b)[j] = IF j <= Len(a) THEN a[j] ELSE b[j - Len(a)]
  BY <1>1, <1>2, ConcatProperties
<1>5. QED BY <1>1, <1>2, <1>3, <1>4

(***************************************************************************)
(* Removing a user's booking leaves the others in place and in order.      *)
(***************************************************************************)
LEMMA WithoutBookingProperty ==
  ASSUME NEW q \in Seq(Booking), NEW u,
         \A i, j \in 1..Len(q) : q[i].user = q[j].user => i = j
  PROVE  LET w == WithoutBooking(q, u)
         IN  /\ w \in Seq(Booking)
             /\ Len(w) <= Len(q)
             /\ \A i \in 1..Len(w) :
                  \/ w[i] = q[i]
                  \/ i + 1 \in 1..Len(q) /\ w[i] = q[i+1]
             /\ \A i, j \in 1..Len(w) : w[i].user = w[j].user => i = j
             /\ \A i \in 1..Len(w) : w[i].user # u
             /\ IsFirst(q, u) =>
                  \A i \in 1..Len(w) : i + 1 \in 1..Len(q) /\ w[i] = q[i+1]
<1>1. CASE ~ Booked(q, u)
  <2>1. ~ IsFirst(q, u)
    <3>1. q # << >> => 1 \in 1..Len(q)
      BY EmptySeq, LenProperties
    <3>2. QED BY <1>1, <3>1 DEF Booked, IsFirst
  <2>2. WithoutBooking(q, u) = q
    BY <1>1 DEF WithoutBooking
  <2>3. \A i \in 1..Len(q) : q[i].user # u
    BY <1>1 DEF Booked
  <2>4. QED BY <2>1, <2>2, <2>3
<1>2. CASE Booked(q, u)
  <2> DEFINE p == Position(q, u)
             w == RemoveAt(q, p)
  <2>1. p \in 1..Len(q) /\ q[p].user = u
    BY <1>2 DEF Booked, Position
  <2>2. IsFirst(q, u) => p = 1
    BY <2>1 DEF IsFirst
  <2>3. WithoutBooking(q, u) = w
    BY <1>2 DEF WithoutBooking
  <2> HIDE DEF p
  <2>4. /\ w \in Seq(Booking)
        /\ Len(w) = Len(q) - 1
        /\ \A j \in 1..Len(q)-1 : w[j] = IF j < p THEN q[j] ELSE q[j+1]
    BY <2>1, RemoveAtProperty
  <2> HIDE DEF w
  <2>5. /\ \A i \in 1..Len(w) : i \in 1..Len(q) /\ i + 1 \in 1..Len(q)
        /\ Len(w) <= Len(q)
    BY <2>1, <2>4
  <2>6. \A i, j \in 1..Len(w) : w[i].user = w[j].user => i = j
    <3> SUFFICES ASSUME NEW i \in 1..Len(w), NEW j \in 1..Len(w),
                        w[i].user = w[j].user
                 PROVE  i = j
      OBVIOUS
    <3>1. w[i] = q[IF i < p THEN i ELSE i+1] /\ w[j] = q[IF j < p THEN j ELSE j+1]
      BY <2>4
    <3>2. (IF i < p THEN i ELSE i+1) = (IF j < p THEN j ELSE j+1)
      BY <3>1, <2>5
    <3>3. QED BY <3>2, <2>1
  <2>7. \A i \in 1..Len(w) : w[i].user # u
    <3> SUFFICES ASSUME NEW i \in 1..Len(w), w[i].user = u PROVE FALSE
      OBVIOUS
    <3>1. w[i] = q[IF i < p THEN i ELSE i+1]
      BY <2>4
    <3>2. (IF i < p THEN i ELSE i+1) = p
      BY <3>1, <2>5, <2>1
    <3>3. QED BY <3>2, <2>1
  <2>8. IsFirst(q, u) => \A i \in 1..Len(w) : i + 1 \in 1..Len(q) /\ w[i] = q[i+1]
    BY <2>2, <2>4, <2>5
  <2>9. \A i \in 1..Len(w) : w[i] = q[i] \/ (i + 1 \in 1..Len(q) /\ w[i] = q[i+1])
    BY <2>4, <2>5
  <2>10. QED
    BY <2>3, <2>4, <2>5, <2>6, <2>7, <2>8, <2>9
<1>3. QED BY <1>1, <1>2

-----------------------------------------------------------------------------
LEMMA FreshOrderly == Orderly(Fresh)
BY DEF Fresh, Orderly, Resource, SingleHolder, DistinctSeats, HeadNotified, Holds

(***************************************************************************)
(* Shrinking the set of current users, changed records allowed.            *)
(***************************************************************************)
LEMMA KeepOrderly ==
  ASSUME NEW r, Orderly(r), NEW H \in SUBSET Holding,
         \A h, k \in H : h = k,
         \A h \in H : Holds(r, h.user)
  PROVE  Orderly(Keep(r, H))
<1> DEFINE k == Keep(r, H)
<1>1. /\ r.status \in {"idle", "exclusive", "shared"}
      /\ r.bookings \in Seq(Booking)
      /\ r.current \in SUBSET Holding
      /\ r = [status |-> r.status, current |-> r.current, bookings |-> r.bookings]
  BY DEF Orderly, Resource
<1>2. /\ k \in Resource
      /\ k.current = H
      /\ k.bookings = r.bookings
      /\ k.status = IF H = {} THEN "idle" ELSE r.status
  BY <1>1 DEF Keep, Resource
<1> HIDE DEF k
<1>3. H # {} => r.current # {}
  BY DEF Holds
<1>4. SingleHolder(k)
  BY <1>2, <1>3 DEF Orderly, SingleHolder
<1>5. DistinctSeats(k)
  BY <1>2 DEF Orderly, DistinctSeats, Holds
<1>6. HeadNotified(k)
  BY <1>2, <1>3 DEF Orderly, HeadNotified, SingleHolder
<1>7. QED BY <1>2, <1>4, <1>5, <1>6 DEF k, Orderly

LEMMA VacateOrderly ==
  ASSUME NEW r, Orderly(r), NEW u
  PROVE  Orderly(Vacate(r, u))
<1> DEFINE H == {h \in r.current : h.user # u}
<1>1. H \in SUBSET Holding /\ (\A h, k \in H : h = k)
      /\ (\A h \in H : Holds(r, h.user))
  BY DEF Orderly, Resource, SingleHolder, Holds
<1>2. QED BY <1>1, KeepOrderly DEF Vacate

LEMMA ExpireOrderly ==
  ASSUME NEW r, Orderly(r)
  PROVE  Orderly(Expire(r))
<1> DEFINE live == {g \in r.current : g.left > 0}
           warn(h) == [h EXCEPT !.warned = @ \/ (EarlyNotify /\ h.left <= TimeAlert)]
           H == {warn(h) : h \in live}
<1>1. \A h \in r.current : warn(h) \in Holding /\ warn(h).user = h.user
  BY DEF Orderly, Resource, Holding
<1>2. (\A h, k \in H : h = k) /\ (\A h \in H : Holds(r, h.user))
  BY <1>1 DEF Orderly, SingleHolder, Holds
<1>3. H \in SUBSET Holding
  BY <1>1
<1>4. QED BY <1>2, <1>3, KeepOrderly DEF Expire

(***************************************************************************)
(* Replacing the bookings of an orderly resource.                          *)
(***************************************************************************)
LEMMA RebookOrderly ==
  ASSUME NEW r, Orderly(r), NEW q \in Seq(Booking),
         \A i, j \in 1..Len(q) : q[i].user = q[j].user => i = j,
         \A i \in 1..Len(q) : ~ Holds(r, q[i].user),
         \A i \in 1..Len(q) :
           q[i].waited # NotNotified => i = 1 /\ r.status = "idle"
  PROVE  Orderly([r EXCEPT !.bookings = q])
<1> DEFINE s == [r EXCEPT !.bookings = q]
<1>1. /\ s \in Resource
      /\ s.current = r.current
      /\ s.bookings = q
      /\ s.status = r.status
  BY DEF Orderly, Resource
<1> HIDE DEF s
<1>2. SingleHolder(s) /\ DistinctSeats(s) /\ HeadNotified(s)
  BY <1>1 DEF Orderly, SingleHolder, DistinctSeats, HeadNotified, Holds
<1>3. QED BY <1>1, <1>2 DEF s, Orderly

LEMMA LeftOrderly ==
  ASSUME NEW r, Orderly(r), NEW u
  PROVE  Orderly(Left(r, u))
<1> DEFINE q == r.bookings
           w == WithoutBooking(q, u)
<1>1. /\ q \in Seq(Booking)
      /\ \A i, j \in 1..Len(q) : q[i].user = q[j].user => i = j
      /\ \A i \in 1..Len(q) : ~ Holds(r, q[i].user)
      /\ \A i \in 1..Len(q) :
           q[i].waited # NotNotified => i = 1 /\ r.status = "idle"
  BY DEF Orderly, Resource, DistinctSeats, HeadNotified
<1> HIDE DEF q
<1>2. /\ w \in Seq(Booking)
      /\ Len(w) <= Len(q)
      /\ \A i \in 1..Len(w) :
           w[i] = q[i] \/ (i + 1 \in 1..Len(q) /\ w[i] = q[i+1])
      /\ \A i, j \in 1..Len(w) : w[i].user = w[j].user => i = j
  BY <1>1, WithoutBookingProperty
<1> HIDE DEF w
<1>3. \A i \in 1..Len(w) : i \in 1..Len(q)
  BY <1>1, <1>2
<1>4. \A i \in 1..Len(w) : ~ Holds(r, w[i].user)
  BY <1>1, <1>2, <1>3
<1>5. \A i \in 1..Len(w) :
        w[i].waited # NotNotified => i = 1 /\ r.status = "idle"
  <2> SUFFICES ASSUME NEW i \in 1..Len(w), w[i].waited # NotNotified
               PROVE  i = 1 /\ r.status = "idle"
    OBVIOUS
  <2>1. CASE w[i] = q[i]
    BY <2>1, <1>1, <1>3
  <2>2. CASE i + 1 \in 1..Len(q) /\ w[i] = q[i+1]
    BY <2>2, <1>1
  <2>3. QED BY <1>2, <2>1, <2>2
<1>6. Orderly([r EXCEPT !.bookings = w])
  BY <1>2, <1>4, <1>5, RebookOrderly
<1>7. QED BY <1>6, VacateOrderly DEF Left, w, q

(***************************************************************************)
(* A lock that MayLock admits: the resource is idle and the claimant is    *)
(* the head of the queue or there is none, or the claimant holds it.       *)
(***************************************************************************)
LEMMA LockedOrderly ==
  ASSUME NEW r, Orderly(r), NEW u \in Users, MayLock(r, u), NEW req,
         LockedLeft(r, u, req) \in Int
  PROVE  Orderly(Locked(r, u, req))
<1> DEFINE q == r.bookings
           w == WithoutBooking(q, u)
           h == [user |-> u, left |-> LockedLeft(r, u, req), warned |-> FALSE]
           s == Locked(r, u, req)
<1>1. /\ q \in Seq(Booking)
      /\ \A i, j \in 1..Len(q) : q[i].user = q[j].user => i = j
      /\ \A i \in 1..Len(q) : q[i].waited # NotNotified => i = 1 /\ r.status = "idle"
      /\ q # << >> => 1 \in 1..Len(q)
  BY EmptySeq, LenProperties
     DEF Orderly, Resource, DistinctSeats, HeadNotified
<1>2. Holds(r, u) => r.status # "idle"
  BY DEF Orderly, SingleHolder, Holds
<1>3. q = << >> \/ IsFirst(q, u) \/ (Holds(r, u) /\ r.status # "idle")
  BY <1>2 DEF MayLock
<1>4. h \in Holding /\ h.user = u
  BY DEF Holding
<1> HIDE DEF q, h
<1>5. /\ w \in Seq(Booking)
      /\ Len(w) <= Len(q)
      /\ \A i \in 1..Len(w) :
           w[i] = q[i] \/ (i + 1 \in 1..Len(q) /\ w[i] = q[i+1])
      /\ \A i, j \in 1..Len(w) : w[i].user = w[j].user => i = j
      /\ \A i \in 1..Len(w) : w[i].user # u
      /\ IsFirst(q, u) =>
           \A i \in 1..Len(w) : i + 1 \in 1..Len(q) /\ w[i] = q[i+1]
  BY <1>1, WithoutBookingProperty
<1>6. /\ s.status = "exclusive" /\ s.current = {h} /\ s.bookings = w
      /\ s \in Resource
  BY <1>4, <1>5 DEF Locked, Resource, h, q
<1> HIDE DEF w, s
<1>7. \A i \in 1..Len(w) : i \in 1..Len(q)
  BY <1>1, <1>5
<1>8. \A i \in 1..Len(w) : w[i].waited = NotNotified
  <2> SUFFICES ASSUME NEW i \in 1..Len(w), w[i].waited # NotNotified
               PROVE  FALSE
    OBVIOUS
  <2>1. CASE q = << >>
    BY <2>1, <1>7, EmptySeq
  <2>2. CASE IsFirst(q, u)
    BY <2>2, <1>1, <1>5
  <2>3. CASE Holds(r, u) /\ r.status # "idle"
    <3>1. CASE w[i] = q[i]
      BY <3>1, <2>3, <1>1, <1>7
    <3>2. CASE i + 1 \in 1..Len(q) /\ w[i] = q[i+1]
      BY <3>2, <2>3, <1>1
    <3>3. QED BY <1>5, <3>1, <3>2
  <2>4. QED BY <1>3, <2>1, <2>2, <2>3
<1>9. SingleHolder(s)
  BY <1>6 DEF SingleHolder
<1>10. DistinctSeats(s)
  BY <1>4, <1>5, <1>6 DEF DistinctSeats, Holds
<1>11. HeadNotified(s)
  BY <1>6, <1>8 DEF HeadNotified
<1>12. QED BY <1>6, <1>9, <1>10, <1>11 DEF s, Orderly

(***************************************************************************)
(* A booking by somebody with no seat goes to the back of the queue.       *)
(***************************************************************************)
LEMMA BookedOrderly ==
  ASSUME NEW r, Orderly(r), NEW b \in Booking, b.waited = NotNotified,
         ~ Holds(r, b.user), ~ Booked(r.bookings, b.user)
  PROVE  Orderly([r EXCEPT !.bookings = Append(@, b)])
<1> DEFINE q == r.bookings
           a == Append(q, b)
<1>1. /\ q \in Seq(Booking)
      /\ \A i, j \in 1..Len(q) : q[i].user = q[j].user => i = j
      /\ \A i \in 1..Len(q) : q[i].user # b.user /\ ~ Holds(r, q[i].user)
      /\ \A i \in 1..Len(q) : q[i].waited # NotNotified => i = 1 /\ r.status = "idle"
  BY DEF Orderly, Resource, DistinctSeats, HeadNotified, Booked
<1> HIDE DEF q
<1>2. /\ a \in Seq(Booking)
      /\ Len(a) = Len(q) + 1
      /\ \A i \in 1..Len(q) : a[i] = q[i]
      /\ a[Len(q)+1] = b
  BY <1>1, AppendProperties
<1> HIDE DEF a
<1>3. \A i \in 1..Len(a) : i \in 1..Len(q) \/ i = Len(q) + 1
  BY <1>1, <1>2
<1>4. \A i, j \in 1..Len(a) : a[i].user = a[j].user => i = j
  BY <1>1, <1>2, <1>3
<1>5. \A i \in 1..Len(a) : ~ Holds(r, a[i].user)
  BY <1>1, <1>2, <1>3
<1>6. \A i \in 1..Len(a) : a[i].waited # NotNotified => i = 1 /\ r.status = "idle"
  BY <1>1, <1>2, <1>3
<1>7. QED BY <1>2, <1>4, <1>5, <1>6, RebookOrderly DEF a, q

(***************************************************************************)
(* A take: the preempted user, who held no booking, comes first, and       *)
(* nobody in the new queue is left with a running claim window.            *)
(***************************************************************************)
LEMMA RequeuedProperty ==
  ASSUME NEW r, Orderly(r), NEW u
  PROVE  LET f == Requeued(r, u)
         IN  /\ f \in Seq(Booking)
             /\ Len(f) \in {0, 1}
             /\ \A i \in 1..Len(f) :
                  /\ i = 1
                  /\ f[i].user # u
                  /\ Holds(r, f[i].user)
                  /\ f[i].waited = NotNotified
<1>1. CASE Preempted(r, u) = {}
  BY <1>1 DEF Requeued
<1>2. CASE Preempted(r, u) # {}
  <2> DEFINE h == CHOOSE k \in Preempted(r, u) : TRUE
             b == [user |-> h.user, dur |-> h.left, waited |-> NotNotified]
  <2>1. h \in r.current /\ h.user # u /\ h.left > 0
    BY <1>2 DEF Preempted
  <2>2. h \in Holding
    BY <2>1 DEF Orderly, Resource
  <2> HIDE DEF h
  <2>3. NotNotified \in -1 .. ClaimWindow
    BY HoldingsAssumption DEF NotNotified
  <2>4. b \in Booking
    BY <2>1, <2>2, <2>3 DEF Holding, Booking
  <2>5. Holds(r, b.user) /\ b.user # u /\ b.waited = NotNotified
    BY <2>1 DEF Holds
  <2>6. Requeued(r, u) = << b >>
    BY <1>2 DEF Requeued, h
  <2> HIDE DEF b
  <2>7. QED BY <2>4, <2>5, <2>6
<1>3. QED BY <1>1, <1>2

LEMMA TakenOrderly ==
  ASSUME NEW r, Orderly(r), NEW u \in Users, ~ Holds(r, u), NEW req,
         Requested(req) \in Int
  PROVE  Orderly(Taken(r, u, req))
<1> DEFINE q == r.bookings
           w == WithoutBooking(q, u)
           f == Requeued(r, u)
           x == Unnotified(w)
           h == [user |-> u, left |-> Requested(req), warned |-> FALSE]
           s == Taken(r, u, req)
<1>1. /\ q \in Seq(Booking)
      /\ \A i, j \in 1..Len(q) : q[i].user = q[j].user => i = j
      /\ \A i \in 1..Len(q) : ~ Holds(r, q[i].user)
  BY DEF Orderly, Resource, DistinctSeats
<1> HIDE DEF q
<1>2. /\ w \in Seq(Booking)
      /\ Len(w) <= Len(q)
      /\ \A i \in 1..Len(w) :
           w[i] = q[i] \/ (i + 1 \in 1..Len(q) /\ w[i] = q[i+1])
      /\ \A i, j \in 1..Len(w) : w[i].user = w[j].user => i = j
      /\ \A i \in 1..Len(w) : w[i].user # u
  BY <1>1, WithoutBookingProperty
<1> HIDE DEF w
<1>3. \A i \in 1..Len(w) : ~ Holds(r, w[i].user)
  BY <1>1, <1>2
<1>4. NotNotified \in -1 .. ClaimWindow
  BY HoldingsAssumption DEF NotNotified
<1>5. /\ x \in Seq(Booking)
      /\ Len(x) = Len(w)
      /\ \A i \in 1..Len(w) : x[i].user = w[i].user /\ x[i].waited = NotNotified
  <2>1. \A i \in 1..Len(w) : w[i] \in Booking
    BY <1>2, ElementOfSeq
  <2>2. \A i \in 1..Len(w) : [w[i] EXCEPT !.waited = NotNotified] \in Booking
    BY <2>1, <1>4 DEF Booking
  <2>3. /\ x = [i \in 1..Len(w) |-> [w[i] EXCEPT !.waited = NotNotified]]
        /\ Len(w) \in Nat
    BY <1>2, LenProperties DEF Unnotified
  <2>4. x \in [1..Len(w) -> Booking]
    BY <2>2, <2>3
  <2>5. x \in Seq(Booking) /\ Len(x) = Len(w)
    BY <2>3, <2>4, SeqDef, IsASeq, LenProperties
  <2>6. \A i \in 1..Len(w) : x[i].user = w[i].user /\ x[i].waited = NotNotified
    BY <2>1, <2>3 DEF Booking
  <2>7. QED BY <2>5, <2>6
<1> HIDE DEF x
<1>6. /\ f \in Seq(Booking)
      /\ Len(f) \in {0, 1}
      /\ \A i \in 1..Len(f) :
           /\ i = 1
           /\ f[i].user # u
           /\ Holds(r, f[i].user)
           /\ f[i].waited = NotNotified
  BY RequeuedProperty
<1> HIDE DEF f
<1> DEFINE y == f \o x
<1>7. /\ y \in Seq(Booking)
      /\ Len(y) = Len(f) + Len(x)
      /\ \A i \in 1..Len(f)+Len(x) :
           y[i] = IF i <= Len(f) THEN f[i] ELSE x[i - Len(f)]
  BY <1>5, <1>6, ConcatProperties
<1> HIDE DEF y
<1>8. Len(x) \in Nat
  BY <1>5, LenProperties
<1>9. \A i \in 1..Len(y) :
        \/ i \in 1..Len(f) /\ y[i] = f[i]
        \/ i - Len(f) \in 1..Len(w) /\ y[i] = x[i - Len(f)] /\ i > Len(f)
  BY <1>5, <1>6, <1>7, <1>8
<1>10. \A i \in 1..Len(y) :
         i > Len(f) =>
           LET k == i - Len(f)
           IN  k \in 1..Len(w) /\ y[i].user = w[k].user /\ y[i].waited = NotNotified
  <2> SUFFICES ASSUME NEW i \in 1..Len(y), i > Len(f)
               PROVE  LET k == i - Len(f)
                      IN  /\ k \in 1..Len(w)
                          /\ y[i].user = w[k].user
                          /\ y[i].waited = NotNotified
    OBVIOUS
  <2>1. PICK k : k = i - Len(f)
    OBVIOUS
  <2>2. k \in 1..Len(w) /\ y[i] = x[k]
    BY <2>1, <1>6, <1>9
  <2>3. QED BY <2>1, <2>2, <1>5
<1>11. \A i \in 1..Len(y) : y[i].user # u /\ y[i].waited = NotNotified
  <2> SUFFICES ASSUME NEW i \in 1..Len(y)
               PROVE  y[i].user # u /\ y[i].waited = NotNotified
    OBVIOUS
  <2>1. CASE i \in 1..Len(f) /\ y[i] = f[i]
    BY <2>1, <1>6
  <2>2. CASE i > Len(f)
    <3>1. PICK k : k = i - Len(f)
      OBVIOUS
    <3>2. k \in 1..Len(w) /\ y[i].user = w[k].user /\ y[i].waited = NotNotified
      BY <2>2, <3>1, <1>10
    <3>3. QED BY <3>2, <1>2
  <2>3. QED BY <1>9, <2>1, <2>2
<1>12. \A i, j \in 1..Len(y) : y[i].user = y[j].user => i = j
  <2> SUFFICES ASSUME NEW i \in 1..Len(y), NEW j \in 1..Len(y),
                      y[i].user = y[j].user
               PROVE  i = j
    OBVIOUS
  <2>1. CASE i \in 1..Len(f) /\ j \in 1..Len(f)
    BY <2>1, <1>6
  <2>2. CASE i > Len(f) /\ j > Len(f)
    <3>1. /\ i - Len(f) \in 1..Len(w) /\ j - Len(f) \in 1..Len(w)
          /\ w[i - Len(f)].user = w[j - Len(f)].user
      BY <2>2, <1>10
    <3>2. i - Len(f) = j - Len(f)
      BY <3>1, <1>2
    <3>3. QED BY <3>2, <1>6
  <2>3. \A k \in 1..Len(y) : k > Len(f) => ~ Holds(r, y[k].user)
    BY <1>3, <1>10
  <2>4. \A k \in 1..Len(y) : k \in 1..Len(f) => Holds(r, y[k].user)
    BY <1>6, <1>9
  <2>5. QED BY <1>6, <2>1, <2>2, <2>3, <2>4
<1>13. h \in Holding /\ h.user = u
  BY DEF Holding
<1> HIDE DEF h
<1>14. /\ s.status = "exclusive" /\ s.current = {h} /\ s.bookings = y
       /\ s \in Resource
  BY <1>7, <1>13 DEF Taken, Resource, h, y, f, x, w, q
<1> HIDE DEF s
<1>15. SingleHolder(s)
  BY <1>14 DEF SingleHolder
<1>16. DistinctSeats(s)
  BY <1>11, <1>12, <1>13, <1>14 DEF DistinctSeats, Holds
<1>17. HeadNotified(s)
  BY <1>11, <1>14 DEF HeadNotified
<1>18. QED BY <1>14, <1>15, <1>16, <1>17 DEF s, Orderly

(***************************************************************************)
(* Giving the turn to the head of the queue of an idle resource.           *)
(***************************************************************************)
LEMMA NotifyOrderly ==
  ASSUME NEW r, Orderly(r), r.status = "idle", NEW q \in Seq(Booking),
         \A i, j \in 1..Len(q) : q[i].user = q[j].user => i = j,
         \A i \in 2..Len(q) : q[i].waited = NotNotified
  PROVE  Orderly([r EXCEPT !.bookings = NotifyHead(q)])
<1> DEFINE x == NotifyHead(q)
<1>1. \A v : ~ Holds(r, v)
  BY DEF Orderly, SingleHolder, Holds
<1>2. Len(q) \in Nat /\ (q # << >> => 1 \in 1..Len(q))
  BY LenProperties, EmptySeq
<1>3. \A i \in 1..Len(q) : q[i] \in Booking
  BY ElementOfSeq
<1>4. /\ x \in Seq(Booking)
      /\ Len(x) = Len(q)
      /\ \A i \in 1..Len(q) : x[i].user = q[i].user
      /\ \A i \in 2..Len(q) : x[i] = q[i]
  <2>1. CASE q = << >>
    BY <2>1, EmptySeq DEF NotifyHead
  <2>2. CASE q # << >>
    <3> DEFINE b == [q[1] EXCEPT !.waited = 0]
    <3>1. b \in Booking /\ b.user = q[1].user
      <4>1. q[1] \in Booking
        BY <1>2, <1>3, <2>2
      <4>2. 0 \in -1 .. ClaimWindow
        BY HoldingsAssumption
      <4>3. QED BY <4>1, <4>2 DEF Booking
    <3>2. x = [q EXCEPT ![1] = b]
      BY <2>2 DEF NotifyHead
    <3> HIDE DEF b, x
    <3>3. x \in Seq(Booking) /\ Len(x) = Len(q)
          /\ \A i \in 1..Len(q) : x[i] = IF i = 1 THEN b ELSE q[i]
      BY <1>2, <2>2, <3>1, <3>2, ExceptSeq
    <3>4. QED BY <3>1, <3>3
  <2>3. QED BY <2>1, <2>2
<1> HIDE DEF x
<1>5. \A i, j \in 1..Len(x) : x[i].user = x[j].user => i = j
  BY <1>4
<1>6. \A i \in 1..Len(x) : x[i].waited # NotNotified => i = 1 /\ r.status = "idle"
  BY <1>2, <1>4
<1>7. QED BY <1>1, <1>4, <1>5, <1>6, RebookOrderly DEF x

(***************************************************************************)
(* The sweep: what ran out goes, then the turn moves on.                   *)
(***************************************************************************)
LEMMA SweptOrderly ==
  ASSUME NEW r, Orderly(r)
  PROVE  Orderly(Swept(r))
<1> DEFINE e == Expire(r)
           q == e.bookings
<1>1. Orderly(e)
  BY ExpireOrderly
<1> HIDE DEF e
<1>2. /\ q \in Seq(Booking)
      /\ \A i, j \in 1..Len(q) : q[i].user = q[j].user => i = j
      /\ \A i \in 1..Len(q) : q[i].waited # NotNotified => i = 1
  BY <1>1 DEF Orderly, Resource, DistinctSeats, HeadNotified
<1>3. e = [e EXCEPT !.bookings = q]
  BY <1>1 DEF Orderly, Resource
<1>4. CASE TimedOut(e)
  <2> DEFINE t == Tail(q)
  <2>1. e.status = "idle" /\ q # << >>
    BY <1>4 DEF TimedOut
  <2> HIDE DEF q
  <2>2. /\ t \in Seq(Booking)
        /\ Len(t) = Len(q) - 1
        /\ \A i \in 1..Len(t) : t[i] = q[i+1]
    BY <1>2, <2>1, HeadTailProperties
  <2> HIDE DEF t
  <2>3. \A i \in 1..Len(t) : i + 1 \in 1..Len(q) /\ i + 1 # 1
    BY <1>2, <2>2, LenProperties
  <2>4. \A i, j \in 1..Len(t) : t[i].user = t[j].user => i = j
    BY <1>2, <2>2, <2>3
  <2>5. \A i \in 1..Len(t) : t[i].waited = NotNotified
    BY <1>2, <2>2, <2>3
  <2>6. \A i \in 2..Len(t) : t[i].waited = NotNotified
    BY <2>2, <2>5, LenProperties
  <2>7. t \in Seq(Booking) /\ e.status = "idle"
    BY <2>1, <2>2
  <2>8. Orderly([e EXCEPT !.bookings = NotifyHead(t)])
    BY ONLY <1>1, <2>4, <2>6, <2>7, NotifyOrderly
  <2>9. ~ NeedsNotice(e)
    BY <1>4, HoldingsAssumption DEF TimedOut, NeedsNotice, NotNotified
  <2>10. Advance(e) = [e EXCEPT !.bookings = NotifyHead(t)]
    BY <1>4, <2>9 DEF Advance, q, t
  <2>11. QED BY <2>8, <2>10 DEF Swept, e
<1>5. CASE ~ TimedOut(e) /\ NeedsNotice(e)
  <2>1. e.status = "idle"
    BY <1>5 DEF NeedsNotice
  <2>2. \A i \in 2..Len(q) : q[i].waited = NotNotified
    BY <1>2
  <2>3. Orderly([e EXCEPT !.bookings = NotifyHead(q)])
    BY ONLY <1>1, <1>2, <2>1, <2>2, NotifyOrderly
  <2>4. QED BY <1>5, <2>3 DEF Swept, Advance, e
<1>6. CASE ~ TimedOut(e) /\ ~ NeedsNotice(e)
  BY <1>1, <1>6 DEF Swept, Advance, e
<1>7. QED BY <1>4, <1>5, <1>6

(***************************************************************************)
(* The clock and the maximum of a restarted instance change numbers only.  *)
(***************************************************************************)
LEMMA OlderOrderly ==
  ASSUME NEW r, Orderly(r)
  PROVE  Orderly(Older(r))
<1> DEFINE H == {OlderHolding(h) : h \in r.current}
           q == r.bookings
           x == [i \in 1..Len(q) |-> OlderBooking(q[i])]
           s == Older(r)
<1>1. \A h \in r.current : OlderHolding(h) \in Holding /\ OlderHolding(h).user = h.user
  BY HoldingsAssumption DEF Orderly, Resource, Holding, OlderHolding
<1>2. \A h, k \in H : h = k
  BY DEF Orderly, SingleHolder
<1>3. H \in SUBSET Holding /\ (\A v : Holds(r, v) <=> \E h \in H : h.user = v)
  BY <1>1 DEF Holds
<1>4. H = {} <=> r.current = {}
  OBVIOUS
<1>5. q \in Seq(Booking) /\ Len(q) \in Nat
  BY LenProperties DEF Orderly, Resource
<1>6. \A i \in 1..Len(q) :
        /\ OlderBooking(q[i]) \in Booking
        /\ OlderBooking(q[i]).user = q[i].user
        /\ OlderBooking(q[i]).waited # NotNotified => q[i].waited # NotNotified
  <2> SUFFICES ASSUME NEW i \in 1..Len(q)
               PROVE  /\ OlderBooking(q[i]) \in Booking
                      /\ OlderBooking(q[i]).user = q[i].user
                      /\ OlderBooking(q[i]).waited # NotNotified => q[i].waited # NotNotified
    OBVIOUS
  <2>1. q[i] \in Booking
    BY <1>5, ElementOfSeq
  <2> DEFINE b == q[i]
             later == IF b.waited \in 0 .. ClaimWindow - 1
                      THEN b.waited + 1 ELSE b.waited
  <2> HIDE DEF q
  <2>2. b.waited \in -1 .. ClaimWindow
    BY <2>1 DEF Booking
  <2>3. later \in -1 .. ClaimWindow /\ (later # -1 => b.waited # -1)
    BY <2>2, HoldingsAssumption
  <2>4. OlderBooking(b) = [b EXCEPT !.waited = later]
    BY DEF OlderBooking
  <2> HIDE DEF later
  <2>5. OlderBooking(b) \in Booking /\ OlderBooking(b).user = b.user /\ OlderBooking(b).waited = later
    BY <2>1, <2>3, <2>4 DEF Booking
  <2>6. QED BY <2>3, <2>5 DEF NotNotified
<1>7. x \in Seq(Booking) /\ Len(x) = Len(q)
  <2>1. x \in [1..Len(q) -> Booking]
    BY <1>6
  <2>2. QED BY <1>5, <2>1, SeqDef, LenProperties
<1>8. \A i \in 1..Len(q) :
        /\ x[i].user = q[i].user
        /\ x[i].waited # NotNotified => q[i].waited # NotNotified
  BY <1>6
<1>9. s.current = H /\ s.bookings = x /\ s.status = r.status /\ s \in Resource
  <2>1. Older(r) = [r EXCEPT !.current = H, !.bookings = x]
    BY DEF Older
  <2>2. r \in Resource
    BY DEF Orderly
  <2> HIDE DEF H, x, q
  <2>3. QED BY <2>1, <2>2, <1>3, <1>7 DEF Resource
<1>10. /\ \A i, j \in 1..Len(q) : q[i].user = q[j].user => i = j
       /\ \A i \in 1..Len(q) : ~ Holds(r, q[i].user)
       /\ \A i \in 1..Len(q) :
            q[i].waited # NotNotified => i = 1 /\ r.status = "idle"
  BY DEF Orderly, DistinctSeats, HeadNotified
<1> HIDE DEF H, x, s, q
<1>11. SingleHolder(s)
  BY <1>2, <1>4, <1>9 DEF Orderly, SingleHolder
<1>12. \A v : Holds(s, v) <=> Holds(r, v)
  BY <1>3, <1>9 DEF Holds
<1>13. \A i, j \in 1..Len(x) : x[i].user = x[j].user => i = j
  BY <1>7, <1>8, <1>10
<1>14. \A i \in 1..Len(x) : ~ Holds(s, x[i].user)
  BY <1>7, <1>8, <1>10, <1>12
<1>15. \A i \in 1..Len(x) :
         x[i].waited # NotNotified => i = 1 /\ s.status = "idle"
  BY <1>7, <1>8, <1>9, <1>10
<1>16. QED BY <1>9, <1>11, <1>13, <1>14, <1>15
           DEF s, Orderly, DistinctSeats, HeadNotified

LEMMA ClampOrderly ==
  ASSUME NEW r, Orderly(r), NEW max \in Int
  PROVE  Orderly(Clamp(r, max))
<1> DEFINE cut(h) == [h EXCEPT !.left =
                        IF WithinMax(h.user, Remaining(@), max) THEN @ ELSE max]
           H == {cut(h) : h \in r.current}
<1>1. \A h \in r.current : cut(h) \in Holding /\ cut(h).user = h.user
  BY DEF Orderly, Resource, Holding
<1>2. (\A h, k \in H : h = k) /\ (\A h \in H : Holds(r, h.user)) /\ H \in SUBSET Holding
  BY <1>1 DEF Orderly, SingleHolder, Holds
<1>3. Orderly(Keep(r, H))
  BY <1>2, KeepOrderly
<1>4. H = {} => r.status = "idle"
  BY DEF Orderly, SingleHolder
<1>5. Clamp(r, max) = Keep(r, H)
  <2>1. r \in Resource /\ Clamp(r, max) = [r EXCEPT !.current = H]
    BY DEF Clamp, Orderly
  <2> HIDE DEF H
  <2>2. QED BY <1>4, <2>1 DEF Keep, Resource
<1>6. QED BY <1>3, <1>5

-----------------------------------------------------------------------------
(***************************************************************************)
(* What the steps share.                                                   *)
(***************************************************************************)
LEMMA PersistInv ==
  ASSUME IInv, NEW st, AllOrderly(st), Persist(st)
  PROVE  /\ AllOrderly(state)'
         /\ AllOrderly(disk)'
         /\ saved' \in BOOLEAN
         /\ Durable'
BY DEF IInv, Persist, Durable, AllOrderly

LEMMA CommandInv ==
  ASSUME IInv, NEW st, AllOrderly(st), Persist(st),
         told' \subseteq told,
         UNCHANGED << maxDur, sending >>
  PROVE  IInv'
<1>1. /\ AllOrderly(state)'
      /\ AllOrderly(disk)'
      /\ saved' \in BOOLEAN
      /\ Durable'
  BY PersistInv
<1>2. QED BY <1>1 DEF IInv

LEMMA RequestedType ==
  ASSUME NEW req \in Requests
  PROVE  Requested(req) \in Nat \ {0}
BY HoldingsAssumption DEF Requests, Requested, Omitted

LEMMA LockedLeftType ==
  ASSUME NEW r, Orderly(r), NEW u, NEW req \in Requests
  PROVE  LockedLeft(r, u, req) \in Int
<1>1. Granted(r, u, req) \in Int
  <2>1. CASE req = Omitted /\ Booked(r.bookings, u)
    <3> DEFINE q == r.bookings
               p == Position(q, u)
    <3>1. p \in 1..Len(q)
      BY <2>1 DEF Booked, Position
    <3>2. q \in Seq(Booking)
      BY DEF Orderly, Resource
    <3> HIDE DEF q, p
    <3>3. q[p] \in Booking
      BY <3>1, <3>2, ElementOfSeq
    <3>4. q[p].dur \in Int
      BY <3>3 DEF Booking
    <3>5. QED BY <2>1, <3>4 DEF Granted, BookingOf, q, p
  <2>2. CASE ~ (req = Omitted /\ Booked(r.bookings, u))
    BY <2>2, RequestedType DEF Granted
  <2>3. QED BY <2>1, <2>2
<1>2. LeftOf(r, u) \in Int
  <2>1. CASE Holds(r, u)
    <3>1. HoldingOf(r, u) \in r.current
      BY <2>1 DEF Holds, HoldingOf
    <3>2. HoldingOf(r, u) \in Holding
      BY <3>1 DEF Orderly, Resource
    <3>3. QED BY <2>1, <3>2 DEF LeftOf, Holding
  <2>2. CASE ~ Holds(r, u)
    BY <2>2 DEF LeftOf
  <2>3. QED BY <2>1, <2>2
<1>3. QED BY <1>1, <1>2 DEF LockedLeft

-----------------------------------------------------------------------------
(***************************************************************************)
(* The initial state.                                                      *)
(***************************************************************************)
LEMMA InitInv == Init => IInv
<1> SUFFICES ASSUME Init PROVE IInv
  OBVIOUS
<1>1. Orderly(Fresh) /\ Fresh \in Resource
  BY FreshOrderly DEF Orderly
<1>2. AllOrderly(state) /\ AllOrderly(disk)
  BY <1>1 DEF Init, AllOrderly
<1>3. QED BY <1>2 DEF Init, IInv, Durable

(***************************************************************************)
(* One lemma per group of steps: users, operators, sweep and environment.  *)
(***************************************************************************)
LEMMA UserInv ==
  ASSUME IInv, NEW u \in Users, Command(u)
  PROVE  IInv'
<1>1. \A n \in Nodes : Orderly(state[n]) /\ state[n] \in Resource
  BY DEF IInv, AllOrderly, Orderly
<1>2. ASSUME NEW targets \in Targets, NEW req \in Requests, NEW limit \in Limits,
             Lock(u, targets, req, limit)
      PROVE  IInv'
  <2> DEFINE st == Update(targets, LAMBDA r : Locked(r, u, req))
  <2>1. \A n \in targets : n \in Nodes /\ MayLock(state[n], u)
    BY <1>2 DEF Lock, Targets
  <2>2. \A n \in targets : Orderly(Locked(state[n], u, req))
    BY <1>1, <2>1, LockedLeftType, LockedOrderly
  <2>3. AllOrderly(st)
    BY <1>1, <2>2 DEF AllOrderly, Update, Orderly
  <2>4. Persist(st) /\ told' \subseteq told /\ UNCHANGED << maxDur, sending >>
    BY <1>2 DEF Lock, Renewed
  <2>5. QED BY <2>3, <2>4, CommandInv
<1>3. ASSUME NEW targets \in Targets, NEW req \in Requests, NEW limit \in Limits,
             Book(u, targets, req, limit)
      PROVE  IInv'
  <2> DEFINE b == BookingFor(u, req)
             st == Update(targets, LAMBDA r : [r EXCEPT !.bookings = Append(@, b)])
  <2>1. b \in Booking /\ b.user = u /\ b.waited = NotNotified
    BY RequestedType, HoldingsAssumption DEF BookingFor, Booking, NotNotified
  <2>2. \A n \in targets :
          n \in Nodes /\ ~ Holds(state[n], u) /\ ~ Booked(state[n].bookings, u)
    BY <1>3 DEF Book, Targets
  <2>3. Persist(st) /\ UNCHANGED << maxDur, sending, told >>
    BY <1>3 DEF Book
  <2> HIDE DEF b
  <2>4. \A n \in targets : Orderly([state[n] EXCEPT !.bookings = Append(@, b)])
    BY <1>1, <2>1, <2>2, BookedOrderly
  <2>5. AllOrderly(st)
    BY <1>1, <2>4 DEF AllOrderly, Update, Orderly
  <2>6. QED BY <2>3, <2>5, CommandInv
<1>4. ASSUME NEW targets \in Targets, NEW req \in Requests, Take(u, targets, req)
      PROVE  IInv'
  <2> DEFINE st == Update(targets, LAMBDA r : Taken(r, u, req))
  <2>1. \A n \in targets : n \in Nodes /\ ~ Holds(state[n], u)
    BY <1>4 DEF Take, Targets
  <2>2. \A n \in targets : Orderly(Taken(state[n], u, req))
    BY <1>1, <2>1, RequestedType, TakenOrderly
  <2>3. AllOrderly(st)
    BY <1>1, <2>2 DEF AllOrderly, Update, Orderly
  <2>4. Persist(st) /\ told' \subseteq told /\ UNCHANGED << maxDur, sending >>
    BY <1>4 DEF Take, Renewed
  <2>5. QED BY <2>3, <2>4, CommandInv
<1>5. ASSUME NEW targets \in Targets, Unlock(u, targets)
      PROVE  IInv'
  <2> DEFINE st == Update(targets, LAMBDA r : Left(r, u))
  <2>1. AllOrderly(st)
    BY <1>1, LeftOrderly DEF AllOrderly, Update, Orderly, Targets
  <2>2. Persist(st) /\ UNCHANGED << maxDur, sending, told >>
    BY <1>5 DEF Unlock
  <2>3. QED BY <2>1, <2>2, CommandInv
<1>6. ASSUME UnlockAll(u)
      PROVE  IInv'
  <2> DEFINE st == Update(Nodes, LAMBDA r : Left(r, u))
  <2>1. AllOrderly(st)
    BY <1>1, LeftOrderly DEF AllOrderly, Update, Orderly
  <2>2. Persist(st) /\ UNCHANGED << maxDur, sending, told >>
    BY <1>6 DEF UnlockAll
  <2>3. QED BY <2>1, <2>2, CommandInv
<1>7. QED BY <1>2, <1>3, <1>4, <1>5, <1>6 DEF Command

LEMMA OperatorInv ==
  ASSUME IInv, Operator
  PROVE  IInv'
<1>1. \A n \in Nodes : Orderly(state[n]) /\ state[n] \in Resource
  BY DEF IInv, AllOrderly, Orderly
<1>2. ASSUME NEW targets \in Targets, Kickout(targets)
      PROVE  IInv'
  <2> DEFINE st == Update(targets, LAMBDA r : Fresh)
  <2>1. AllOrderly(st)
    BY <1>1, FreshOrderly DEF AllOrderly, Update, Orderly
  <2>2. Persist(st) /\ UNCHANGED << maxDur, sending, told >>
    BY <1>2 DEF Kickout
  <2>3. QED BY <2>1, <2>2, CommandInv
<1>3. ASSUME NEW targets \in Targets, Kicklock(targets)
      PROVE  IInv'
  <2> DEFINE st == Update(targets, LAMBDA r : Keep(r, {}))
  <2>1. \A n \in Nodes : Orderly(Keep(state[n], {}))
    BY <1>1, KeepOrderly
  <2>2. AllOrderly(st)
    BY <1>1, <2>1 DEF AllOrderly, Update, Orderly
  <2>3. Persist(st) /\ UNCHANGED << maxDur, sending, told >>
    BY <1>3 DEF Kicklock
  <2>4. QED BY <2>2, <2>3, CommandInv
<1>4. ASSUME NEW u \in Users, NEW targets \in Targets, Opkick(u, targets)
      PROVE  IInv'
  <2> DEFINE st == Update(targets, LAMBDA r : Vacate(r, u))
  <2>1. AllOrderly(st)
    BY <1>1, VacateOrderly DEF AllOrderly, Update, Orderly
  <2>2. Persist(st) /\ UNCHANGED << maxDur, sending, told >>
    BY <1>4 DEF Opkick
  <2>3. QED BY <2>1, <2>2, CommandInv
<1>5. QED BY <1>2, <1>3, <1>4 DEF Operator

(***************************************************************************)
(* The message of a sweep is addressed to users about resources.           *)
(***************************************************************************)
LEMMA HeadIsUser ==
  ASSUME NEW r \in Resource, r.bookings # << >>
  PROVE  r.bookings[1].user \in Users
<1> DEFINE q == r.bookings
<1>1. q \in Seq(Booking) /\ q # << >>
  BY DEF Resource
<1> HIDE DEF q
<1>2. 1 \in 1..Len(q)
  BY <1>1, EmptySeq
<1>3. q[1] \in Booking
  BY <1>1, <1>2, ElementOfSeq
<1>4. QED BY <1>3 DEF Booking, q

LEMMA MessageType ==
  ASSUME NEW st, AllOrderly(st), NEW swept, AllOrderly(swept)
  PROVE  Message(st, swept) \subseteq Notice
<1>1. Turns(st, swept) \subseteq Notice
  <2> SUFFICES ASSUME NEW n \in Nodes, swept[n].bookings # << >>
               PROVE  << "turn", n, swept[n].bookings[1].user >> \in Notice
    BY DEF Turns
  <2>1. swept[n] \in Resource
    BY DEF AllOrderly
  <2>2. QED BY <2>1, HeadIsUser DEF Notice, Kinds
<1>2. Cancellations(st) \subseteq Notice
  <2> SUFFICES ASSUME NEW n \in Nodes, TimedOut(Expire(st[n]))
               PROVE  << "cancelled", n, st[n].bookings[1].user >> \in Notice
    BY DEF Cancellations
  <2>1. st[n] \in Resource
    BY DEF AllOrderly
  <2>2. st[n].bookings # << >>
    BY <2>1 DEF TimedOut, Expire, Keep, Resource
  <2>3. QED BY <2>1, <2>2, HeadIsUser DEF Notice, Kinds
<1>3. Endings(st) \subseteq Notice
  <2> SUFFICES ASSUME NEW n \in Nodes, NEW u \in Alerts(st[n])
               PROVE  << "ending", n, u >> \in Notice
    BY DEF Endings
  <2>1. st[n].current \subseteq Holding
    BY DEF AllOrderly, Resource
  <2>2. u \in Users
    BY <2>1 DEF Alerts, Holding
  <2>3. QED BY <2>2 DEF Notice, Kinds
<1>4. QED BY <1>1, <1>2, <1>3 DEF Message

LEMMA SweepInv ==
  ASSUME IInv, Sweep
  PROVE  IInv'
<1> DEFINE swept == [n \in Nodes |-> Swept(state[n])]
           M == Message(state, swept)
<1>1. Persist(swept) /\ sending' \in {M, {}} /\ told' \subseteq told /\ maxDur' = maxDur
  BY DEF Sweep
<1>2. \A n \in Nodes : Orderly(Swept(state[n]))
  BY SweptOrderly DEF IInv, AllOrderly
<1>3. AllOrderly(swept)
  BY <1>2 DEF AllOrderly, Orderly
<1> HIDE DEF swept
<1>4. M \subseteq Notice
  BY <1>3, MessageType DEF IInv
<1> HIDE DEF M
<1>5. /\ AllOrderly(state)'
      /\ AllOrderly(disk)'
      /\ saved' \in BOOLEAN
      /\ Durable'
  BY <1>1, <1>3, PersistInv
<1>6. QED BY <1>1, <1>4, <1>5 DEF IInv

LEMMA EnvironmentInv ==
  ASSUME IInv, Send \/ Tick \/ Restart
  PROVE  IInv'
<1>1. CASE Send
  BY <1>1 DEF Send, IInv, AllOrderly, Durable
<1>2. CASE Tick
  <2>1. \A n \in Nodes : Orderly(Older(state[n])) /\ Orderly(Older(disk[n]))
    BY OlderOrderly DEF IInv, AllOrderly
  <2>2. AllOrderly(state)' /\ AllOrderly(disk)'
    BY <1>2, <2>1 DEF Tick, AllOrderly, Orderly
  <2>3. QED BY <1>2, <2>2 DEF Tick, IInv, Durable
<1>3. CASE Restart
  <2>1. maxDur' \in MaxDurations /\ maxDur' \in Int
    BY <1>3, BaseBotAssumption DEF Restart, Unlimited
  <2>2. \A n \in Nodes : Orderly(Clamp(disk[n], maxDur'))
    BY <2>1, ClampOrderly DEF IInv, AllOrderly
  <2>3. AllOrderly(state)' /\ AllOrderly(disk)'
    BY <1>3, <2>2 DEF Restart, AllOrderly, Orderly
  <2>4. QED BY <1>3, <2>1, <2>3 DEF Restart, IInv, Durable
<1>4. QED BY <1>1, <1>2, <1>3

LEMMA NextInv == IInv /\ [Next]_vars => IInv'
<1> SUFFICES ASSUME IInv, [Next]_vars PROVE IInv'
  OBVIOUS
<1>1. CASE \E u \in Users : Command(u)
  BY <1>1, UserInv
<1>2. CASE Operator
  BY <1>2, OperatorInv
<1>3. CASE Sweep
  BY <1>3, SweepInv
<1>4. CASE Send \/ Tick \/ Restart
  BY <1>4, EnvironmentInv
<1>5. CASE UNCHANGED vars
  BY <1>5 DEF vars, IInv, AllOrderly, Durable
<1>6. QED BY <1>1, <1>2, <1>3, <1>4, <1>5 DEF Next

LEMMA SpecInv == Spec => []IInv
BY InitInv, NextInv, PTL DEF Spec

-----------------------------------------------------------------------------
(***************************************************************************)
(* Every reachable state is well typed, whatever the resources, users,     *)
(* durations and limits, and whatever fails.                               *)
(***************************************************************************)
THEOREM TypeCorrect == Spec => []TypeOK
<1>1. IInv => TypeOK
  BY DEF IInv, AllOrderly, TypeOK
<1>2. QED BY <1>1, SpecInv, PTL

(***************************************************************************)
(* No sequence of claims, takes, kicks, sweeps, failed saves and restarts  *)
(* gives a resource two current users or a status that contradicts them.   *)
(***************************************************************************)
THEOREM AlwaysExclusive == Spec => []Exclusive
<1>1. IInv => Exclusive
  BY DEF IInv, AllOrderly, Orderly, Exclusive
<1>2. QED BY <1>1, SpecInv, PTL

(***************************************************************************)
(* Nobody ever has two seats on one resource.                              *)
(***************************************************************************)
THEOREM AlwaysOneSeat == Spec => []OneSeat
<1>1. IInv => OneSeat
  BY DEF IInv, AllOrderly, Orderly, OneSeat
<1>2. QED BY <1>1, SpecInv, PTL

(***************************************************************************)
(* A claim window never runs for anybody but the head of the queue of an   *)
(* idle resource.                                                          *)
(***************************************************************************)
THEOREM WindowAlwaysForHead == Spec => []WindowOnlyForHead
<1>1. IInv => WindowOnlyForHead
  BY DEF IInv, AllOrderly, Orderly, WindowOnlyForHead
<1>2. QED BY <1>1, SpecInv, PTL

(***************************************************************************)
(* Unless the last write failed, the file holds the state in memory.       *)
(***************************************************************************)
THEOREM AlwaysDurable == Spec => []Durable
<1>1. IInv => Durable
  BY DEF IInv
<1>2. QED BY <1>1, SpecInv, PTL

(***************************************************************************)
(* The queue at rest is in order, for any resources, users, durations and  *)
(* limits: one user, one seat each, and the window is the head's           *)
(* (queue_bot.py:33-305, 410-572).                                         *)
(***************************************************************************)
THEOREM AlwaysInOrder == Spec => []QueueInOrder
BY AlwaysExclusive, AlwaysOneSeat, WindowAlwaysForHead, PTL DEF QueueInOrder

(***************************************************************************)
(* It stays so through failing writes, crashes and restarts, and what was  *)
(* acknowledged is in the file (io.py:150-260).                            *)
(***************************************************************************)
THEOREM AlwaysSavedInOrder == Spec => []SavedInOrder
BY AlwaysDurable, AlwaysInOrder, PTL DEF SavedInOrder
-----------------------------------------------------------------------------
(***************************************************************************)
(* The refinement.  One resource moves from r to s as a fair line may; the *)
(* lemmas below say so of every operator that changes a resource.          *)
(***************************************************************************)
Goes(r, s) == Abstract!Move(Owner(r), Line(r), Owner(s), Line(s))

Names(q) == [i \in 1..Len(q) |-> q[i].user]

LEMMA OwnerProperty ==
  ASSUME NEW r, Orderly(r)
  PROVE  /\ r.current = {} => Owner(r) = NoUser
         /\ r.current # {} => Owner(r) \in Users /\ Holds(r, Owner(r))
         /\ \A u : Holds(r, u) => u = Owner(r)
<1>1. CASE r.current = {}
  BY <1>1 DEF Owner, Holds
<1>2. CASE r.current # {}
  <2> DEFINE h == CHOOSE k \in r.current : TRUE
  <2>1. h \in r.current /\ Owner(r) = h.user
    BY <1>2 DEF Owner
  <2>2. h \in Holding /\ \A k \in r.current : k = h
    BY <2>1 DEF Orderly, Resource, SingleHolder
  <2> HIDE DEF h
  <2>3. h.user \in Users
    BY <2>2 DEF Holding
  <2>4. QED BY <1>2, <2>1, <2>2, <2>3 DEF Holds
<1>3. QED BY <1>1, <1>2

(***************************************************************************)
(* The users of a booking list, and of one without a booking.              *)
(***************************************************************************)
LEMMA NamesProperty ==
  ASSUME NEW q \in Seq(Booking)
  PROVE  /\ Names(q) \in Seq(Users)
         /\ Len(Names(q)) = Len(q)
         /\ \A i \in 1..Len(q) : Names(q)[i] = q[i].user
<1>1. \A i \in 1..Len(q) : q[i].user \in Users
  <2>1. \A i \in 1..Len(q) : q[i] \in Booking
    BY ElementOfSeq
  <2>2. QED BY <2>1 DEF Booking
<1>2. Len(q) \in Nat
  BY LenProperties
<1>3. Names(q) \in [1..Len(q) -> Users] /\ \A i \in 1..Len(q) : Names(q)[i] = q[i].user
  BY <1>1 DEF Names
<1> HIDE DEF Names
<1>4. Names(q) \in Seq(Users) /\ Len(Names(q)) = Len(q)
  BY <1>2, <1>3, SeqDef, LenProperties
<1>5. QED BY <1>3, <1>4

\* Two lists with the same users in the same order are one line.
LEMMA SameNames ==
  ASSUME NEW q \in Seq(Booking), NEW l \in Seq(Users), Len(l) = Len(q),
         \A i \in 1..Len(q) : l[i] = q[i].user
  PROVE  Names(q) = l
<1>1. /\ Names(q) \in Seq(Users)
      /\ Len(Names(q)) = Len(l)
      /\ \A i \in 1..Len(Names(q)) : Names(q)[i] = l[i]
  BY NamesProperty
<1>2. QED BY <1>1, SeqEqual

LEMMA NamesWithoutOne ==
  ASSUME NEW q \in Seq(Booking), NEW i \in 1..Len(q)
  PROVE  Names(RemoveAt(q, i)) = Abstract!Dropping(Names(q), i)
<1> DEFINE l == Names(q)
<1>1. l \in Seq(Users) /\ Len(l) = Len(q) /\ \A j \in 1..Len(q) : l[j] = q[j].user
  BY NamesProperty
<1> HIDE DEF l
<1>2. /\ RemoveAt(q, i) \in Seq(Booking)
      /\ Len(RemoveAt(q, i)) = Len(q) - 1
      /\ \A j \in 1..Len(q)-1 : RemoveAt(q, i)[j] = IF j < i THEN q[j] ELSE q[j+1]
  BY RemoveAtProperty
<1>3. /\ RemoveAt(l, i) \in Seq(Users)
      /\ Len(RemoveAt(l, i)) = Len(q) - 1
      /\ \A j \in 1..Len(q)-1 : RemoveAt(l, i)[j] = IF j < i THEN l[j] ELSE l[j+1]
  BY <1>1, RemoveAtProperty, ZenonT(40)
<1> DEFINE rq == RemoveAt(q, i)
           rl == RemoveAt(l, i)
<1> HIDE DEF rq, rl
<1>4. \A j \in 1..Len(q)-1 : rl[j] = rq[j].user
  <2> SUFFICES ASSUME NEW j \in 1..Len(q)-1 PROVE rl[j] = rq[j].user
    OBVIOUS
  <2>1. Len(q) \in Nat
    BY LenProperties
  <2>2. j \in 1..Len(q) /\ j + 1 \in 1..Len(q)
    BY <2>1
  <2>3. rl[j] = (IF j < i THEN l[j] ELSE l[j+1]) /\ rq[j] = (IF j < i THEN q[j] ELSE q[j+1])
    BY <1>2, <1>3 DEF rl, rq
  <2>4. QED BY <1>1, <2>2, <2>3
<1>5. Names(rq) = rl
  BY <1>2, <1>3, <1>4, SameNames DEF rq, rl
<1>6. QED BY <1>5 DEF rq, rl, Abstract!Dropping, Abstract!RemoveAt, RemoveAt, l

LEMMA NamesWithoutBooking ==
  ASSUME NEW q \in Seq(Booking), NEW u,
         \A i, j \in 1..Len(q) : q[i].user = q[j].user => i = j
  PROVE  /\ ~ Booked(q, u) => Names(WithoutBooking(q, u)) = Names(q)
         /\ Booked(q, u) =>
              \E i \in 1..Len(q) :
                /\ q[i].user = u
                /\ IsFirst(q, u) => i = 1
                /\ Names(WithoutBooking(q, u)) = Abstract!Dropping(Names(q), i)
<1>1. CASE ~ Booked(q, u)
  BY <1>1 DEF WithoutBooking
<1>2. CASE Booked(q, u)
  <2> DEFINE p == Position(q, u)
  <2>1. p \in 1..Len(q) /\ q[p].user = u
    BY <1>2 DEF Booked, Position
  <2>2. IsFirst(q, u) => p = 1
    BY <2>1 DEF IsFirst
  <2>3. WithoutBooking(q, u) = RemoveAt(q, p)
    BY <1>2 DEF WithoutBooking
  <2> HIDE DEF p
  <2>4. Names(RemoveAt(q, p)) = Abstract!Dropping(Names(q), p)
    BY <2>1, NamesWithoutOne
  <2>5. QED BY <1>2, <2>1, <2>2, <2>3, <2>4
<1>3. QED BY <1>1, <1>2

\* An orderly resource in the terms of the line.
LEMMA LineProperty ==
  ASSUME NEW r, Orderly(r)
  PROVE  /\ r.bookings \in Seq(Booking)
         /\ \A i, j \in 1..Len(r.bookings) :
              r.bookings[i].user = r.bookings[j].user => i = j
         /\ Line(r) = Names(r.bookings)
         /\ r.status = "idle" <=> r.current = {}
BY DEF Orderly, Resource, DistinctSeats, SingleHolder, Line, Names

(***************************************************************************)
(* Operators that change neither the holder nor the line.                  *)
(***************************************************************************)
LEMMA StayGoes ==
  ASSUME NEW r, NEW s, Owner(s) = Owner(r), Line(s) = Line(r)
  PROVE  Goes(r, s)
BY DEF Goes, Abstract!Move, Abstract!Stay

LEMMA FreshGoes ==
  ASSUME NEW r PROVE Goes(r, Fresh)
<1>1. Owner(Fresh) = NoUser /\ Line(Fresh) = << >>
  BY DEF Fresh, Owner, Line
<1>2. QED BY <1>1 DEF Goes, Abstract!Move, Abstract!Clear

\* The owner depends on the holders alone.
LEMMA OwnerOfCurrent ==
  ASSUME NEW r, NEW s
  PROVE  /\ s.current = {} => Owner(s) = NoUser
         /\ s.current = r.current => Owner(s) = Owner(r)
<1> DEFINE HolderIn(c) == IF c = {} THEN NoUser ELSE (CHOOSE h \in c : TRUE).user
<1>1. Owner(r) = HolderIn(r.current) /\ Owner(s) = HolderIn(s.current) /\ HolderIn({}) = NoUser
  BY DEF Owner
<1> HIDE DEF HolderIn
<1>2. QED BY <1>1

\* Taking holders away ends the lease or nothing.
LEMMA KeepGoes ==
  ASSUME NEW r, Orderly(r), NEW K, K = {} \/ K = r.current
  PROVE  Goes(r, Keep(r, K))
<1>1. r \in Resource
  BY DEF Orderly
<1>2. Keep(r, K).bookings = r.bookings /\ Keep(r, K).current = K
  BY <1>1 DEF Keep, Resource
<1>3. Line(Keep(r, K)) = Line(r)
  BY <1>2 DEF Line
<1>4. Owner(Keep(r, K)) = IF K = {} THEN NoUser ELSE Owner(r)
  BY <1>2, OwnerOfCurrent
<1>5. QED BY <1>3, <1>4 DEF Goes, Abstract!Move, Abstract!Stay, Abstract!Release

LEMMA VacateGoes ==
  ASSUME NEW r, Orderly(r), NEW u
  PROVE  Goes(r, Vacate(r, u))
<1> DEFINE K == {h \in r.current : h.user # u}
<1>1. K = {} \/ K = r.current
  BY DEF Orderly, SingleHolder
<1> HIDE DEF K
<1>2. QED BY <1>1, KeepGoes DEF Vacate, K

(***************************************************************************)
(* A resource whose holders are among the holders before.                  *)
(***************************************************************************)
LEMMA FewerHolders ==
  ASSUME NEW r, Orderly(r), NEW s, Orderly(s), \A v : Holds(s, v) => Holds(r, v)
  PROVE  /\ Owner(s) = NoUser \/ Owner(s) = Owner(r)
         /\ (\A v : Holds(r, v) => Holds(s, v)) => Owner(s) = Owner(r)
<1>1. s.current # {} => Holds(s, Owner(s))
  BY OwnerProperty
<1>2. r.current # {} => Holds(r, Owner(r))
  BY OwnerProperty
<1>3. (s.current = {} => Owner(s) = NoUser) /\ (r.current = {} => Owner(r) = NoUser)
  BY OwnerProperty
<1>4. \A v : (Holds(s, v) => v = Owner(s)) /\ (Holds(r, v) => v = Owner(r))
  BY OwnerProperty
<1>5. QED BY <1>1, <1>2, <1>3, <1>4 DEF Holds

(***************************************************************************)
(* unlock: the holder releases, a waiting user quits.                      *)
(***************************************************************************)
LEMMA LeftGoes ==
  ASSUME NEW r, Orderly(r), NEW u
  PROVE  Goes(r, Left(r, u))
<1> DEFINE q == r.bookings
           w == WithoutBooking(q, u)
           e == [r EXCEPT !.bookings = w]
           s == Left(r, u)
<1>1. r \in Resource /\ \A i \in 1..Len(q) : ~ Holds(r, q[i].user)
  BY DEF Orderly, DistinctSeats
<1>2. CASE Holds(r, u)
  <2>1. ~ Booked(q, u)
    BY <1>1, <1>2 DEF Booked
  <2>2. e = r
    BY <1>1, <2>1 DEF WithoutBooking, Resource
  <2>3. QED BY <2>2, VacateGoes DEF Left
<1>3. CASE ~ Holds(r, u)
  <2>1. {h \in r.current : h.user # u} = r.current
    BY <1>3 DEF Holds
  <2>2. s.current = r.current /\ s.bookings = w
    BY <1>1, <2>1 DEF Left, Vacate, Keep, Resource
  <2>3. Owner(s) = Owner(r) /\ Line(r) = Names(q) /\ Line(s) = Names(w)
    BY <2>2, OwnerOfCurrent DEF Line, Names
  <2> HIDE DEF s, w, e
  <2>4. CASE ~ Booked(q, u)
    <3>1. Names(w) = Names(q)
      BY <2>4 DEF w, WithoutBooking
    <3>2. QED BY <2>3, <3>1, StayGoes DEF s
  <2>5. CASE Booked(q, u)
    <3>1. PICK i \in 1..Len(q) : Names(w) = Abstract!Dropping(Names(q), i)
      BY <2>5, LineProperty, NamesWithoutBooking DEF w
    <3>2. i \in 1..Len(Line(r))
      BY <2>3, LineProperty, NamesProperty
    <3>3. QED BY <2>3, <3>1, <3>2 DEF Goes, Abstract!Move, Abstract!Quit, s
  <2>6. QED BY <2>4, <2>5
<1>4. QED BY <1>2, <1>3

(***************************************************************************)
(* lock: the holder extends, or an idle resource goes to the head.         *)
(***************************************************************************)
LEMMA LockedGoes ==
  ASSUME NEW r, Orderly(r), NEW u \in Users, MayLock(r, u), NEW req,
         LockedLeft(r, u, req) \in Int
  PROVE  Goes(r, Locked(r, u, req))
<1> DEFINE q == r.bookings
           w == WithoutBooking(q, u)
           s == Locked(r, u, req)
<1>1. Orderly(s) /\ Holds(s, u) /\ s.bookings = w
  BY LockedOrderly DEF Locked, Holds
<1> HIDE DEF s
<1>2. Owner(s) = u /\ Line(s) = Names(w) /\ Line(r) = Names(q)
  BY <1>1, OwnerProperty DEF Line, Names
<1>3. q \in Seq(Booking) /\ \A i, j \in 1..Len(q) : q[i].user = q[j].user => i = j
  BY LineProperty
<1>4. CASE Holds(r, u)
  <2>1. ~ Booked(q, u)
    BY <1>4 DEF Booked, Orderly, DistinctSeats
  <2>2. w = q /\ Owner(r) = u
    BY <1>4, <2>1, OwnerProperty DEF WithoutBooking
  <2>3. QED BY <1>2, <2>2, StayGoes DEF s
<1>5. CASE r.status = "idle" /\ q = << >>
  <2>1. Owner(r) = NoUser
    BY <1>5, LineProperty, OwnerProperty
  <2>2. w = << >> /\ Names(q) = << >>
    BY <1>5, EmptySeq DEF WithoutBooking, Booked, Names
  <2>3. Line(r) = << >> /\ Line(s) = << >>
    BY <1>2, <1>5, <2>2
  <2>4. QED BY <1>2, <2>1, <2>3 DEF Goes, Abstract!Move, Abstract!Claim, s
<1>6. CASE r.status = "idle" /\ q # << >> /\ IsFirst(q, u)
  <2>1. Owner(r) = NoUser
    BY <1>6, LineProperty, OwnerProperty
  <2> HIDE DEF q, w
  <2>2. 1 \in 1..Len(q) /\ q[1].user = u
    BY <1>3, <1>6, EmptySeq DEF IsFirst
  <2>3. Names(w) = Abstract!Dropping(Names(q), 1)
    <3>1. Booked(q, u)
      BY <2>2 DEF Booked
    <3>2. QED BY <1>3, <1>6, <3>1, NamesWithoutBooking DEF w
  <2>4. Names(q) # << >> /\ Names(q)[1] = u
    BY <1>3, <2>2, NamesProperty, EmptySeq
  <2>5. QED BY <1>2, <2>1, <2>3, <2>4 DEF Goes, Abstract!Move, Abstract!Claim, s
<1>7. QED BY <1>4, <1>5, <1>6 DEF MayLock, IsFirst

(***************************************************************************)
(* book: somebody with no seat joins the line at its back.                 *)
(***************************************************************************)
LEMMA BookGoes ==
  ASSUME NEW r, Orderly(r), NEW b \in Booking,
         ~ Holds(r, b.user), ~ Booked(r.bookings, b.user)
  PROVE  Goes(r, [r EXCEPT !.bookings = Append(@, b)])
<1> DEFINE q == r.bookings
           a == Append(q, b)
           s == [r EXCEPT !.bookings = a]
           l == Names(q)
<1>1. r \in Resource /\ q \in Seq(Booking) /\ b.user \in Users
  BY DEF Orderly, Resource, Booking
<1>2. s.current = r.current /\ s.bookings = a
  BY <1>1 DEF Resource
<1> HIDE DEF a, s
<1>3. Owner(s) = Owner(r) /\ Line(r) = l /\ Line(s) = Names(a)
  BY <1>2, OwnerOfCurrent DEF Line, Names
<1> HIDE DEF q
<1>4. l \in Seq(Users) /\ Len(l) = Len(q) /\ \A i \in 1..Len(q) : l[i] = q[i].user
  BY <1>1, NamesProperty
<1> HIDE DEF l
<1>5. /\ a \in Seq(Booking) /\ Len(a) = Len(q) + 1
      /\ a[Len(q) + 1] = b /\ \A i \in 1..Len(q) : a[i] = q[i]
  BY <1>1, AppendProperties DEF a
<1>6. /\ Append(l, b.user) \in Seq(Users) /\ Len(Append(l, b.user)) = Len(q) + 1
      /\ Append(l, b.user)[Len(q) + 1] = b.user
      /\ \A i \in 1..Len(q) : Append(l, b.user)[i] = l[i]
  BY <1>1, <1>4, AppendProperties
<1>7. Names(a) = Append(l, b.user)
  <2>1. Len(q) \in Nat
    BY <1>1, LenProperties
  <2>2. \A i \in 1..Len(q)+1 : i = Len(q)+1 \/ i \in 1..Len(q)
    BY <2>1
  <2>3. \A i \in 1..Len(q)+1 : Append(l, b.user)[i] = a[i].user
    <3> SUFFICES ASSUME NEW i \in 1..Len(q)+1 PROVE Append(l, b.user)[i] = a[i].user
      OBVIOUS
    <3>1. CASE i = Len(q) + 1
      BY <3>1, <1>5, <1>6
    <3>2. CASE i \in 1..Len(q)
      BY <3>2, <1>4, <1>5, <1>6
    <3>3. QED BY <2>2, <3>1, <3>2
  <2>4. QED BY <1>5, <1>6, <2>3, SameNames
<1>8. b.user # Owner(r)
  <2>1. r.current = {} => Owner(r) = NoUser
    BY OwnerProperty
  <2>2. r.current # {} => Holds(r, Owner(r))
    BY OwnerProperty
  <2>3. QED BY <1>1, <2>1, <2>2, BaseBotAssumption
<1>9. b.user \notin Abstract!ToSet(l)
  <2>1. DOMAIN l = 1..Len(q)
    BY <1>4, LenProperties
  <2>2. QED BY <1>4, <2>1 DEF Booked, Abstract!ToSet, q
<1>10. QED BY <1>1, <1>3, <1>7, <1>8, <1>9 DEF Goes, Abstract!Move, Abstract!Join, s, a, q

(***************************************************************************)
(* take: the taker leaves the line, and who loses the lease heads it if    *)
(* any time was left.                                                      *)
(***************************************************************************)
LEMMA UnnotifiedNames ==
  ASSUME NEW q \in Seq(Booking)
  PROVE  Unnotified(q) \in Seq(Booking) /\ Names(Unnotified(q)) = Names(q)
<1> DEFINE x == Unnotified(q)
<1>1. Len(q) \in Nat /\ NotNotified \in -1 .. ClaimWindow
  BY LenProperties, HoldingsAssumption DEF NotNotified
<1>2. \A i \in 1..Len(q) : q[i] \in Booking
  BY ElementOfSeq
<1>3. x \in [1..Len(q) -> Booking] /\ \A i \in 1..Len(q) : x[i].user = q[i].user
  BY <1>1, <1>2 DEF Unnotified, Booking
<1> HIDE DEF x
<1>4. x \in Seq(Booking) /\ Len(x) = Len(q)
  BY <1>1, <1>3, SeqDef, LenProperties
<1>5. /\ Names(q) \in Seq(Users) /\ Len(Names(q)) = Len(x)
      /\ \A i \in 1..Len(x) : Names(q)[i] = x[i].user
  BY <1>3, <1>4, NamesProperty
<1>6. Names(x) = Names(q)
  BY <1>4, <1>5, SameNames
<1>7. QED BY <1>4, <1>6 DEF x

LEMMA NamesBehind ==
  ASSUME NEW f \in Seq(Booking), Len(f) = 1, NEW x \in Seq(Booking)
  PROVE  Names(f \o x) = << f[1].user >> \o Names(x)
<1> DEFINE y == f \o x
           o == << f[1].user >>
           l == Names(x)
           m == o \o l
<1>1. f[1].user \in Users
  <2>1. 1 \in 1..Len(f)
    OBVIOUS
  <2>2. f[1] \in Booking
    BY <2>1, ElementOfSeq
  <2>3. QED BY <2>2 DEF Booking
<1>2. o \in Seq(Users) /\ Len(o) = 1 /\ o[1] = f[1].user
  BY <1>1
<1>3. l \in Seq(Users) /\ Len(l) = Len(x) /\ \A i \in 1..Len(x) : l[i] = x[i].user
  BY NamesProperty
<1> HIDE DEF o, l
<1>4. /\ y \in Seq(Booking) /\ Len(y) = 1 + Len(x)
      /\ \A i \in 1..1+Len(x) : y[i] = IF i <= 1 THEN f[i] ELSE x[i - 1]
  <2>1. /\ y \in Seq(Booking) /\ Len(y) = Len(f) + Len(x)
        /\ \A i \in 1..Len(f)+Len(x) :
             y[i] = IF i <= Len(f) THEN f[i] ELSE x[i - Len(f)]
    BY ConcatProperties
  <2> HIDE DEF y
  <2>2. QED BY <2>1
<1>5. /\ m \in Seq(Users) /\ Len(m) = 1 + Len(x)
      /\ \A i \in 1..1+Len(x) : m[i] = IF i <= 1 THEN o[i] ELSE l[i - 1]
  <2>0. o \in Seq(Users) /\ l \in Seq(Users)
    BY <1>2, <1>3
  <2>1. /\ m \in Seq(Users) /\ Len(m) = Len(o) + Len(l)
        /\ \A i \in 1..Len(o)+Len(l) :
             m[i] = IF i <= Len(o) THEN o[i] ELSE l[i - Len(o)]
    BY ONLY <2>0, ConcatProperties
  <2> HIDE DEF m
  <2>2. QED BY <1>2, <1>3, <2>1
<1> HIDE DEF y, m
<1>6. \A i \in 1..Len(y) : m[i] = y[i].user
  <2> SUFFICES ASSUME NEW i \in 1..1+Len(x) PROVE m[i] = y[i].user
    BY <1>4
  <2>1. Len(x) \in Nat
    BY LenProperties
  <2>2. CASE i = 1
    BY <2>2, <1>2, <1>4, <1>5
  <2>3. CASE i # 1
    <3>1. i - 1 \in 1..Len(x) /\ ~ (i <= 1)
      BY <2>1, <2>3
    <3>2. m[i] = l[i - 1] /\ y[i] = x[i - 1]
      BY <1>4, <1>5, <3>1
    <3>3. QED BY <1>3, <3>1, <3>2
  <2>4. QED BY <2>2, <2>3
<1>7. Names(y) = m
  BY <1>4, <1>5, <1>6, SameNames
<1>8. QED BY <1>7 DEF y, m, o, l

LEMMA TakenGoes ==
  ASSUME NEW r, Orderly(r), NEW u \in Users, ~ Holds(r, u), NEW req,
         Requested(req) \in Int
  PROVE  Goes(r, Taken(r, u, req))
<1> DEFINE q == r.bookings
           w == WithoutBooking(q, u)
           f == Requeued(r, u)
           x == Unnotified(w)
           s == Taken(r, u, req)
           l == Names(q)
           rest == Names(w)
<1>1. Orderly(s) /\ Holds(s, u) /\ s.bookings = f \o x
  BY TakenOrderly DEF Taken, Holds
<1> HIDE DEF s, f, x
<1>2. Owner(s) = u /\ Line(s) = Names(f \o x) /\ Line(r) = l
  BY <1>1, OwnerProperty DEF Line, Names
<1>3. q \in Seq(Booking) /\ \A i, j \in 1..Len(q) : q[i].user = q[j].user => i = j
  BY LineProperty
<1> HIDE DEF q
<1>4. w \in Seq(Booking) /\ \A i \in 1..Len(w) : w[i].user # u
  BY <1>3, WithoutBookingProperty
<1> HIDE DEF w
<1>5. u # Owner(r)
  <2>1. r.current = {} => Owner(r) = NoUser
    BY OwnerProperty
  <2>2. r.current # {} => Holds(r, Owner(r))
    BY OwnerProperty
  <2>3. QED BY <2>1, <2>2, BaseBotAssumption
<1>6. rest \in {l} \cup {Abstract!Dropping(l, i) : i \in {j \in 1..Len(l) : l[j] = u}}
  <2>1. Len(l) = Len(q) /\ \A i \in 1..Len(q) : l[i] = q[i].user
    BY <1>3, NamesProperty
  <2>2. CASE ~ Booked(q, u)
    BY <2>2 DEF w, WithoutBooking
  <2>3. CASE Booked(q, u)
    <3>1. PICK i \in 1..Len(q) : q[i].user = u /\ rest = Abstract!Dropping(l, i)
      BY <1>3, <2>3, NamesWithoutBooking DEF w
    <3> HIDE DEF rest, l
    <3>2. QED BY <2>1, <3>1
  <2>4. QED BY <2>2, <2>3
<1>7. u \notin Abstract!ToSet(rest)
  <2>1. rest \in Seq(Users) /\ Len(rest) = Len(w) /\ \A i \in 1..Len(w) : rest[i] = w[i].user
    BY <1>4, NamesProperty
  <2> HIDE DEF rest
  <2>2. DOMAIN rest = 1..Len(w)
    BY <2>1, LenProperties
  <2>3. QED BY <1>4, <2>1, <2>2 DEF Abstract!ToSet
<1>8. x \in Seq(Booking) /\ Names(x) = rest
  BY <1>4, UnnotifiedNames DEF x
<1>9. f \in Seq(Booking) /\ Len(f) \in {0, 1} /\ \A i \in 1..Len(f) : Holds(r, f[i].user)
  BY RequeuedProperty DEF f
<1> HIDE DEF rest, l
<1>10. Line(s) = rest \/ (Owner(r) # NoUser /\ Line(s) = << Owner(r) >> \o rest)
  <2>1. CASE Len(f) = 0
    <3>1. f = << >>
      BY <1>9, <2>1, EmptySeq
    <3>2. f \o x = x
      BY <1>8, <3>1, ConcatEmptySeq
    <3>3. QED BY <1>2, <1>8, <3>2
  <2>2. CASE Len(f) = 1
    <3>1. Holds(r, f[1].user)
      BY <1>9, <2>2
    <3>2. f[1].user = Owner(r) /\ r.current # {}
      BY <3>1, OwnerProperty DEF Holds
    <3>3. Owner(r) # NoUser
      BY <3>2, OwnerProperty, BaseBotAssumption
    <3>4. Names(f \o x) = << f[1].user >> \o Names(x)
      BY <1>8, <1>9, <2>2, NamesBehind
    <3>5. QED BY <1>2, <1>8, <3>2, <3>3, <3>4
  <2>3. QED BY <1>9, <2>1, <2>2
<1>11. Abstract!Preempt(Owner(r), l, u, Line(s))
  BY <1>5, <1>6, <1>7, <1>10 DEF Abstract!Preempt
<1>12. QED BY <1>2, <1>11 DEF Goes, Abstract!Move, s

(***************************************************************************)
(* The sweep: a lease that ran out is released, and a head that let its    *)
(* window pass quits.  Both do not happen to one resource in one sweep,    *)
(* because the window runs only while the resource is idle.                *)
(***************************************************************************)
LEMMA NotifiedNames ==
  ASSUME NEW q \in Seq(Booking)
  PROVE  Names(NotifyHead(q)) = Names(q)
<1>1. CASE q = << >>
  BY <1>1 DEF NotifyHead
<1>2. CASE q # << >>
  <2> DEFINE b == [q[1] EXCEPT !.waited = 0]
             x == [q EXCEPT ![1] = b]
  <2>1. 1 \in 1..Len(q)
    BY <1>2, EmptySeq
  <2>2. q[1] \in Booking /\ 0 \in -1 .. ClaimWindow
    BY <2>1, ElementOfSeq, HoldingsAssumption
  <2>3. b \in Booking /\ b.user = q[1].user
    BY <2>2 DEF Booking
  <2> HIDE DEF b
  <2>4. /\ x \in Seq(Booking) /\ Len(x) = Len(q)
        /\ \A i \in 1..Len(q) : x[i] = IF i = 1 THEN b ELSE q[i]
    BY <2>1, <2>3, ExceptSeq
  <2> HIDE DEF x
  <2>5. \A i \in 1..Len(x) : x[i].user = q[i].user
    BY <2>3, <2>4
  <2>6. Names(q) \in Seq(Users) /\ Len(Names(q)) = Len(x)
        /\ \A i \in 1..Len(x) : Names(q)[i] = x[i].user
    BY <2>4, <2>5, NamesProperty
  <2>7. Names(x) = Names(q)
    BY <2>4, <2>6, SameNames
  <2>8. QED BY <1>2, <2>7 DEF NotifyHead, x, b
<1>3. QED BY <1>1, <1>2

LEMMA TailNames ==
  ASSUME NEW q \in Seq(Booking), q # << >>
  PROVE  /\ Tail(q) \in Seq(Booking)
         /\ Names(Tail(q)) = Abstract!Dropping(Names(q), 1)
<1>1. Len(q) \in Nat /\ 1 \in 1..Len(q)
  BY EmptySeq
<1>2. /\ Tail(q) \in Seq(Booking) /\ Len(Tail(q)) = Len(q) - 1
      /\ \A i \in 1..Len(q)-1 : Tail(q)[i] = q[i+1]
  BY HeadTailProperties
<1>3. /\ RemoveAt(q, 1) \in Seq(Booking) /\ Len(RemoveAt(q, 1)) = Len(q) - 1
      /\ \A i \in 1..Len(q)-1 : RemoveAt(q, 1)[i] = q[i+1]
  BY <1>1, RemoveAtProperty
<1>4. Tail(q) = RemoveAt(q, 1)
  BY <1>2, <1>3, SeqEqual
<1>5. Names(RemoveAt(q, 1)) = Abstract!Dropping(Names(q), 1)
  BY <1>1, NamesWithoutOne
<1>6. QED BY <1>2, <1>4, <1>5

LEMMA SweptGoes ==
  ASSUME NEW r, Orderly(r)
  PROVE  Goes(r, Swept(r))
<1> DEFINE e == Expire(r)
           q == r.bookings
           s == Swept(r)
<1>1. Orderly(e) /\ Orderly(s) /\ r \in Resource /\ q \in Seq(Booking)
  BY ExpireOrderly, SweptOrderly, LineProperty DEF Orderly
<1>2. e.bookings = q
  BY <1>1 DEF Expire, Keep, Resource
<1>3. Owner(e) = NoUser \/ Owner(e) = Owner(r)
  <2>1. \A v : Holds(e, v) => Holds(r, v)
    BY <1>1 DEF Expire, Keep, Holds, Resource, Holding
  <2>2. QED BY <1>1, <2>1, FewerHolders
<1> HIDE DEF e, q
<1>4. e \in Resource
  BY <1>1 DEF Orderly
<1>5. Line(r) = Names(q)
  BY DEF Line, Names, q
<1>6. CASE TimedOut(e)
  <2> DEFINE t == NotifyHead(Tail(q))
  <2>1. e.status = "idle" /\ q # << >> /\ q[1].waited # NotNotified
    BY <1>2, <1>6, HoldingsAssumption DEF TimedOut, NotNotified
  <2>2. 1 \in 1..Len(q)
    BY <1>1, <2>1, EmptySeq
  <2>3. Owner(r) = NoUser
    <3>1. r.status = "idle"
      BY <2>1, <2>2 DEF Orderly, HeadNotified, q
    <3>2. QED BY <3>1, LineProperty, OwnerProperty
  <2>4. ~ NeedsNotice(e)
    BY <1>2, <2>1 DEF NeedsNotice
  <2>5. s = [e EXCEPT !.bookings = t]
    BY <1>2, <1>6, <2>4 DEF Swept, Advance, e
  <2>6. s.current = e.current /\ s.bookings = t
    BY <1>4, <2>5 DEF Resource
  <2> HIDE DEF s, t
  <2>7. Owner(s) = NoUser /\ Line(s) = Names(t)
    BY <1>3, <2>3, <2>6, OwnerOfCurrent DEF Line, Names
  <2>8. Names(t) = Abstract!Dropping(Names(q), 1)
    BY <1>1, <2>1, TailNames, NotifiedNames DEF t
  <2>9. 1 \in 1..Len(Line(r))
    BY <1>1, <1>5, <2>2, NamesProperty
  <2>10. QED
    BY <1>5, <2>3, <2>7, <2>8, <2>9 DEF Goes, Abstract!Move, Abstract!Quit, s
<1>7. CASE ~ TimedOut(e)
  <2>1. s = e \/ s = [e EXCEPT !.bookings = NotifyHead(q)]
    BY <1>2, <1>7 DEF Swept, Advance, e
  <2>2. s.current = e.current /\ s.bookings \in {q, NotifyHead(q)}
    BY <1>2, <1>4, <2>1 DEF Resource
  <2> HIDE DEF s
  <2>3. Owner(s) = Owner(e) /\ Line(s) = Names(s.bookings)
    BY <2>2, OwnerOfCurrent DEF Line, Names
  <2>4. Line(s) = Line(r)
    BY <1>1, <1>5, <2>2, <2>3, NotifiedNames
  <2>5. QED
    BY <1>3, <2>3, <2>4 DEF Goes, Abstract!Move, Abstract!Stay, Abstract!Release, s
<1>8. QED BY <1>6, <1>7

(***************************************************************************)
(* The clock and the maximum of a restarted instance move nobody.          *)
(***************************************************************************)
LEMMA OlderGoes ==
  ASSUME NEW r, Orderly(r)
  PROVE  Goes(r, Older(r))
<1> DEFINE s == Older(r)
           q == r.bookings
<1>1. Orderly(s) /\ r \in Resource /\ q \in Seq(Booking)
  BY OlderOrderly, LineProperty DEF Orderly
<1>2. \A v : Holds(s, v) <=> Holds(r, v)
  <2>1. s.current = {OlderHolding(h) : h \in r.current}
    BY <1>1 DEF Older, Resource
  <2>2. \A h \in r.current : OlderHolding(h).user = h.user
    BY <1>1 DEF OlderHolding, Resource, Holding
  <2> HIDE DEF s
  <2>3. QED BY <2>1, <2>2 DEF Holds
<1>3. s.bookings = [i \in 1..Len(q) |-> OlderBooking(q[i])]
  BY <1>1 DEF Older, Resource
<1> HIDE DEF s
<1>4. Owner(s) = Owner(r)
  BY <1>1, <1>2, FewerHolders
<1>5. s.bookings \in Seq(Booking) /\ Len(s.bookings) = Len(q)
  BY <1>1, <1>3, LineProperty, LenProperties
<1>6. \A i \in 1..Len(q) : s.bookings[i].user = q[i].user
  <2>1. \A i \in 1..Len(q) : q[i] \in Booking
    BY <1>1, ElementOfSeq
  <2>2. QED BY <1>3, <2>1 DEF OlderBooking, Booking
<1>7. Names(q) \in Seq(Users) /\ Len(Names(q)) = Len(s.bookings)
      /\ \A i \in 1..Len(s.bookings) : Names(q)[i] = s.bookings[i].user
  BY <1>1, <1>5, <1>6, NamesProperty
<1>8. Names(s.bookings) = Names(q)
  BY <1>5, <1>7, SameNames
<1>9. Line(s) = Line(r)
  BY <1>8 DEF Line, Names
<1>10. QED BY <1>4, <1>9, StayGoes DEF s

LEMMA ClampGoes ==
  ASSUME NEW r, Orderly(r), NEW max \in Int
  PROVE  Goes(r, Clamp(r, max))
<1> DEFINE s == Clamp(r, max)
<1>1. Orderly(s) /\ r \in Resource
  BY ClampOrderly DEF Orderly
<1>2. \A v : Holds(s, v) <=> Holds(r, v)
  <2> DEFINE cut(h) == [h EXCEPT !.left =
                          IF WithinMax(h.user, Remaining(@), max) THEN @ ELSE max]
  <2>1. s.current = {cut(h) : h \in r.current}
    BY <1>1 DEF Clamp, Resource
  <2>2. \A h \in r.current : cut(h).user = h.user
    BY <1>1 DEF Resource, Holding
  <2> HIDE DEF s, cut
  <2>3. QED BY <2>1, <2>2 DEF Holds
<1>3. s.bookings = r.bookings
  BY <1>1 DEF Clamp, Resource
<1> HIDE DEF s
<1>4. Owner(s) = Owner(r) /\ Line(s) = Line(r)
  BY <1>1, <1>2, <1>3, FewerHolders DEF Line
<1>5. QED BY <1>4, StayGoes DEF s

-----------------------------------------------------------------------------
(***************************************************************************)
(* A step that writes an updated state moves every resource as a line may. *)
(***************************************************************************)
AllGo(st, after) == \A n \in Nodes : Goes(st[n], after[n])

LEMMA UserGoes ==
  ASSUME IInv, NEW u \in Users, Command(u)
  PROVE  AllGo(state, state')
<1>1. \A n \in Nodes : Orderly(state[n]) /\ Goes(state[n], state[n])
  BY StayGoes DEF IInv, AllOrderly
<1>2. ASSUME NEW targets \in Targets, NEW req \in Requests, NEW limit \in Limits,
             Lock(u, targets, req, limit)
      PROVE  AllGo(state, state')
  <2>1. state' = Update(targets, LAMBDA r : Locked(r, u, req))
    BY <1>2 DEF Lock, Persist
  <2>2. \A n \in targets : Goes(state[n], Locked(state[n], u, req))
    BY <1>1, <1>2, LockedLeftType, LockedGoes DEF Lock, Targets
  <2>3. QED BY <1>1, <2>1, <2>2 DEF Update, AllGo
<1>3. ASSUME NEW targets \in Targets, NEW req \in Requests, NEW limit \in Limits,
             Book(u, targets, req, limit)
      PROVE  AllGo(state, state')
  <2> DEFINE b == BookingFor(u, req)
  <2>1. b \in Booking /\ b.user = u
    BY RequestedType, HoldingsAssumption DEF BookingFor, Booking, NotNotified
  <2>2. state' = Update(targets, LAMBDA r : [r EXCEPT !.bookings = Append(@, b)])
    BY <1>3 DEF Book, Persist
  <2>3. \A n \in targets :
          n \in Nodes /\ ~ Holds(state[n], u) /\ ~ Booked(state[n].bookings, u)
    BY <1>3 DEF Book, Targets
  <2> HIDE DEF b
  <2>4. \A n \in targets : Goes(state[n], [state[n] EXCEPT !.bookings = Append(@, b)])
    BY <1>1, <2>1, <2>3, BookGoes
  <2>5. QED BY <1>1, <2>2, <2>4 DEF Update, AllGo
<1>4. ASSUME NEW targets \in Targets, NEW req \in Requests, Take(u, targets, req)
      PROVE  AllGo(state, state')
  <2>1. state' = Update(targets, LAMBDA r : Taken(r, u, req))
    BY <1>4 DEF Take, Persist
  <2>2. \A n \in targets : Goes(state[n], Taken(state[n], u, req))
    BY <1>1, <1>4, RequestedType, TakenGoes DEF Take, Targets
  <2>3. QED BY <1>1, <2>1, <2>2 DEF Update, AllGo
<1>5. ASSUME NEW targets \in Targets, Unlock(u, targets)
      PROVE  AllGo(state, state')
  <2>1. state' = Update(targets, LAMBDA r : Left(r, u))
    BY <1>5 DEF Unlock, Persist
  <2>2. \A n \in targets : Goes(state[n], Left(state[n], u))
    BY <1>1, LeftGoes DEF Targets
  <2>3. QED BY <1>1, <2>1, <2>2 DEF Update, AllGo
<1>6. ASSUME UnlockAll(u)
      PROVE  AllGo(state, state')
  <2>1. state' = Update(Nodes, LAMBDA r : Left(r, u))
    BY <1>6 DEF UnlockAll, Persist
  <2>2. \A n \in Nodes : Goes(state[n], Left(state[n], u))
    BY <1>1, LeftGoes
  <2>3. QED BY <1>1, <2>1, <2>2 DEF Update, AllGo
<1>7. QED BY <1>2, <1>3, <1>4, <1>5, <1>6 DEF Command

LEMMA OperatorGoes ==
  ASSUME IInv, Operator
  PROVE  AllGo(state, state')
<1>1. \A n \in Nodes : Orderly(state[n]) /\ Goes(state[n], state[n])
  BY StayGoes DEF IInv, AllOrderly
<1>2. ASSUME NEW targets \in Targets, Kickout(targets)
      PROVE  AllGo(state, state')
  <2>1. state' = Update(targets, LAMBDA r : Fresh)
    BY <1>2 DEF Kickout, Persist
  <2>2. \A n \in targets : Goes(state[n], Fresh)
    BY FreshGoes
  <2>3. QED BY <1>1, <2>1, <2>2 DEF Update, AllGo
<1>3. ASSUME NEW targets \in Targets, Kicklock(targets)
      PROVE  AllGo(state, state')
  <2>1. state' = Update(targets, LAMBDA r : Keep(r, {}))
    BY <1>3 DEF Kicklock, Persist
  <2>2. \A n \in targets : Goes(state[n], Keep(state[n], {}))
    BY <1>1, KeepGoes DEF Targets
  <2>3. QED BY <1>1, <2>1, <2>2 DEF Update, AllGo
<1>4. ASSUME NEW u \in Users, NEW targets \in Targets, Opkick(u, targets)
      PROVE  AllGo(state, state')
  <2>1. state' = Update(targets, LAMBDA r : Vacate(r, u))
    BY <1>4 DEF Opkick, Persist
  <2>2. \A n \in targets : Goes(state[n], Vacate(state[n], u))
    BY <1>1, VacateGoes DEF Targets
  <2>3. QED BY <1>1, <2>1, <2>2 DEF Update, AllGo
<1>5. QED BY <1>2, <1>3, <1>4 DEF Operator

\* While every write succeeds, a restart finds in the file what was in memory.
LEMMA EnvironmentGoes ==
  ASSUME IInv, saved, Sweep \/ Send \/ Tick \/ Restart
  PROVE  AllGo(state, state')
<1>1. \A n \in Nodes : Orderly(state[n])
  BY DEF IInv, AllOrderly
<1>2. CASE Sweep
  BY <1>1, <1>2, SweptGoes DEF Sweep, Persist, AllGo
<1>3. CASE Send
  BY <1>3, StayGoes DEF Send, AllGo
<1>4. CASE Tick
  BY <1>1, <1>4, OlderGoes DEF Tick, AllGo
<1>5. CASE Restart
  <2>1. maxDur' \in Int /\ disk = state
    BY <1>5, BaseBotAssumption DEF Restart, Unlimited, IInv, Durable
  <2>2. state' = [n \in Nodes |-> Clamp(state[n], maxDur')]
    BY <1>5, <2>1 DEF Restart
  <2>3. QED BY <1>1, <2>1, <2>2, ClampGoes DEF AllGo
<1>6. QED BY <1>2, <1>3, <1>4, <1>5

\* Writes that succeed leave the file like memory, step after step.
LEMMA StaysSaved ==
  ASSUME ~ SaveFaults
  PROVE  Spec => [](IInv /\ saved)
<1>1. Init => saved
  BY DEF Init
<1>2. saved /\ [Next]_vars => saved'
  <2> USE DEF Persist
  <2>1. \A u \in Users : Command(u) => saved'
    <3> SUFFICES ASSUME NEW u \in Users, Command(u) PROVE saved'
      OBVIOUS
    <3>1. CASE UnlockAll(u)
      BY <3>1 DEF UnlockAll
    <3>2. ASSUME NEW targets \in Targets, Unlock(u, targets) PROVE saved'
      BY <3>2 DEF Unlock
    <3>3. ASSUME NEW targets \in Targets, NEW req \in Requests, Take(u, targets, req)
          PROVE  saved'
      BY <3>3 DEF Take
    <3>4. ASSUME NEW targets \in Targets, NEW req \in Requests, NEW limit \in Limits,
                 Lock(u, targets, req, limit) \/ Book(u, targets, req, limit)
          PROVE  saved'
      BY <3>4 DEF Lock, Book
    <3>5. QED BY <3>1, <3>2, <3>3, <3>4 DEF Command
  <2>2. Operator => saved'
    BY DEF Operator, Kickout, Kicklock, Opkick
  <2>3. saved /\ (Sweep \/ Send \/ Tick \/ Restart \/ UNCHANGED vars) => saved'
    BY DEF Sweep, Send, Tick, Restart, vars
  <2>4. QED BY <2>1, <2>2, <2>3 DEF Next
<1>3. QED BY <1>1, <1>2, SpecInv, PTL DEF Spec

(***************************************************************************)
(* As long as the state file can be written, the bot implements the fair   *)
(* line of every resource: whatever commands, operators, sweeps and        *)
(* restarts do in whatever order, nobody gets a resource past the head of  *)
(* its line except by a take, and whoever loses one to a take heads it     *)
(* (queue_bot.py:33-305, 410-572).                                         *)
(***************************************************************************)
THEOREM ImplementsFairLine ==
  ASSUME ~ SaveFaults
  PROVE  Spec => FairLine
<1>1. Init => Abstract!LineInit
  BY DEF Init, Fresh, Owner, Line, Abstract!LineInit
<1>2. IInv /\ saved /\ [Next]_vars => AllGo(state, state')
  BY UserGoes, OperatorGoes, EnvironmentGoes, StayGoes DEF Next, vars, AllGo
<1>3. AllGo(state, state') => Abstract!LineNext
  BY DEF AllGo, Goes, Abstract!LineNext
<1>4. IInv /\ saved /\ [Next]_vars => [Abstract!LineNext]_(Abstract!linevars)
  BY <1>2, <1>3
<1>5. QED BY <1>1, <1>4, StaysSaved, PTL DEF Spec, FairLine, Abstract!LineSpec

-----------------------------------------------------------------------------
(***************************************************************************)
(* With FORBID_RELOCK nobody gains time.  What a user is due of a resource *)
(* is a number in one of its two lists; s is no more than r if whatever s  *)
(* owes to somebody who had a seat in r, r owed at least as much.          *)
(***************************************************************************)
Due(r, u, d) ==
  \/ \E h \in r.current : h.user = u /\ d = Remaining(h.left)
  \/ \E i \in 1..Len(r.bookings) : r.bookings[i].user = u /\ d = r.bookings[i].dur

NoMore(r, s) ==
  \A u, d : Due(s, u, d) /\ Entitled(r, u) => \E e : Due(r, u, e) /\ d <= e

LEMMA EntitlementIsDue ==
  ASSUME NEW r, Orderly(r), NEW u, Entitled(r, u)
  PROVE  /\ Due(r, u, Entitlement(r, u))
         /\ \A d : Due(r, u, d) => d = Entitlement(r, u)
<1> DEFINE q == r.bookings
<1>1. /\ \A h, k \in r.current : h = k
      /\ \A i \in 1..Len(q) : ~ Holds(r, q[i].user)
      /\ \A i, j \in 1..Len(q) : q[i].user = q[j].user => i = j
  BY DEF Orderly, SingleHolder, DistinctSeats
<1>2. CASE Holds(r, u)
  <2>1. HoldingOf(r, u) \in r.current /\ HoldingOf(r, u).user = u
    BY <1>2 DEF Holds, HoldingOf
  <2>2. Entitlement(r, u) = Remaining(HoldingOf(r, u).left)
    BY <1>2 DEF Entitlement, LeftOf
  <2>3. \A h \in r.current : h = HoldingOf(r, u)
    BY <1>1, <2>1
  <2> HIDE DEF q
  <2>4. \A i \in 1..Len(q) : q[i].user # u
    BY <1>1, <1>2
  <2>5. QED BY <2>1, <2>2, <2>3, <2>4 DEF Due, q
<1>3. CASE ~ Holds(r, u)
  <2> DEFINE p == Position(q, u)
  <2>1. p \in 1..Len(q) /\ q[p].user = u
    BY <1>3 DEF Entitled, Booked, Position
  <2>2. Entitlement(r, u) = q[p].dur
    BY <1>3 DEF Entitlement, BookingOf
  <2> HIDE DEF p
  <2>3. \A i \in 1..Len(q) : q[i].user = u => i = p
    BY <1>1, <2>1
  <2>4. \A h \in r.current : h.user # u
    BY <1>3 DEF Holds
  <2>5. QED BY <2>1, <2>2, <2>3, <2>4 DEF Due
<1>4. QED BY <1>2, <1>3

LEMMA NoMoreNoGain ==
  ASSUME NEW r, Orderly(r), NEW s, Orderly(s), NoMore(r, s), NEW u,
         Entitled(r, u), Entitled(s, u)
  PROVE  Entitlement(s, u) <= Entitlement(r, u)
<1>1. Due(s, u, Entitlement(s, u))
  BY EntitlementIsDue
<1>2. PICK e : Due(r, u, e) /\ Entitlement(s, u) <= e
  BY <1>1 DEF NoMore
<1>3. e = Entitlement(r, u)
  BY <1>2, EntitlementIsDue
<1>4. QED BY <1>2, <1>3

(***************************************************************************)
(* Operators that only take away: leases that are not longer, bookings for *)
(* the same time.                                                          *)
(***************************************************************************)
LEMMA TakingAway ==
  ASSUME NEW r, NEW s, Orderly(r), Orderly(s),
         \A h \in s.current : \E g \in r.current : g.user = h.user /\ h.left <= g.left,
         \A i \in 1..Len(s.bookings) : \E j \in 1..Len(r.bookings) :
           /\ r.bookings[j].user = s.bookings[i].user
           /\ r.bookings[j].dur = s.bookings[i].dur
  PROVE  NoMore(r, s)
<1> SUFFICES ASSUME NEW u, NEW d, Due(s, u, d)
             PROVE  \E e : Due(r, u, e) /\ d <= e
  BY DEF NoMore
<1>1. ASSUME NEW h \in s.current, h.user = u, d = Remaining(h.left)
      PROVE  \E e : Due(r, u, e) /\ d <= e
  <2>1. PICK g \in r.current : g.user = h.user /\ h.left <= g.left
    OBVIOUS
  <2>2. g.left \in Int /\ h.left \in Int
    BY <1>1, <2>1 DEF Orderly, Resource, Holding
  <2>3. d <= Remaining(g.left)
    BY <1>1, <2>1, <2>2 DEF Remaining
  <2>4. Due(r, u, Remaining(g.left))
    BY <1>1, <2>1 DEF Due
  <2>5. QED BY <2>3, <2>4
<1>2. ASSUME NEW i \in 1..Len(s.bookings), s.bookings[i].user = u, d = s.bookings[i].dur
      PROVE  \E e : Due(r, u, e) /\ d <= e
  <2>1. Due(r, u, d)
    BY <1>2 DEF Due
  <2>2. s.bookings[i] \in Booking
    BY <1>2, ElementOfSeq DEF Orderly, Resource
  <2>3. d \in Int
    BY <1>2, <2>2 DEF Booking
  <2>4. QED BY <2>1, <2>3
<1>3. QED BY <1>1, <1>2 DEF Due

\* What is left of a booking list is bookings of it.
PartOf(w, q) ==
  w \in Seq(Booking) /\ \A i \in 1..Len(w) : \E j \in 1..Len(q) : w[i] = q[j]

LEMMA BookingsOf ==
  ASSUME NEW r, Orderly(r), NEW u
  PROVE  PartOf(WithoutBooking(r.bookings, u), r.bookings)
<1> DEFINE q == r.bookings
           w == WithoutBooking(q, u)
<1>1. q \in Seq(Booking) /\ \A i, j \in 1..Len(q) : q[i].user = q[j].user => i = j
  BY LineProperty
<1> HIDE DEF q
<1>2. /\ w \in Seq(Booking) /\ Len(w) <= Len(q)
      /\ \A i \in 1..Len(w) : w[i] = q[i] \/ (i + 1 \in 1..Len(q) /\ w[i] = q[i+1])
  BY <1>1, WithoutBookingProperty
<1> HIDE DEF w
<1>3. Len(w) \in Nat /\ Len(q) \in Nat
  BY <1>1, <1>2, LenProperties
<1>4. \A i \in 1..Len(w) : i \in 1..Len(q)
  BY <1>2, <1>3
<1>5. PartOf(w, q)
  BY <1>2, <1>4 DEF PartOf
<1>6. QED BY <1>5 DEF w, q

LEMMA KeepNoMore ==
  ASSUME NEW r, Orderly(r), NEW K \in SUBSET r.current
  PROVE  Orderly(Keep(r, K)) => NoMore(r, Keep(r, K))
<1> DEFINE s == Keep(r, K)
<1>1. r \in Resource
  BY DEF Orderly
<1>2. s.current = K /\ s.bookings = r.bookings
  BY <1>1 DEF Keep, Resource
<1>3. \A h \in K : h.left <= h.left
  BY <1>1 DEF Resource, Holding
<1> HIDE DEF s
<1>4. \A h \in s.current : \E g \in r.current : g.user = h.user /\ h.left <= g.left
  BY <1>2, <1>3
<1>5. QED BY <1>2, <1>4, TakingAway DEF s

LEMMA FreshNoMore ==
  ASSUME NEW r PROVE NoMore(r, Fresh)
<1>1. \A u, d : ~ Due(Fresh, u, d)
  BY EmptySeq DEF Due, Fresh
<1>2. QED BY <1>1 DEF NoMore

LEMMA VacateNoMore ==
  ASSUME NEW r, Orderly(r), NEW u
  PROVE  NoMore(r, Vacate(r, u))
BY VacateOrderly, KeepNoMore DEF Vacate

LEMMA LeftNoMore ==
  ASSUME NEW r, Orderly(r), NEW u
  PROVE  NoMore(r, Left(r, u))
<1> DEFINE w == WithoutBooking(r.bookings, u)
           s == Left(r, u)
<1>1. r \in Resource /\ Orderly(s)
  BY LeftOrderly DEF Orderly
<1>2. s.current = {h \in r.current : h.user # u} /\ s.bookings = w
  BY <1>1 DEF Left, Vacate, Keep, Resource
<1>3. \A h \in r.current : h.left <= h.left
  BY <1>1 DEF Resource, Holding
<1> HIDE DEF s
<1>4. \A h \in s.current : \E g \in r.current : g.user = h.user /\ h.left <= g.left
  BY <1>2, <1>3
<1>w. PartOf(w, r.bookings)
  BY BookingsOf
<1> HIDE DEF w
<1>5. \A i \in 1..Len(w) : \E j \in 1..Len(r.bookings) : w[i] = r.bookings[j]
  BY <1>w DEF PartOf
<1>6. \A i \in 1..Len(s.bookings) : \E j \in 1..Len(r.bookings) :
        r.bookings[j].user = s.bookings[i].user /\ r.bookings[j].dur = s.bookings[i].dur
  BY <1>2, <1>5
<1>7. QED BY <1>1, <1>4, <1>6, TakingAway DEF s

(***************************************************************************)
(* A claim: the booked time or less, and no more of a running lease.       *)
(***************************************************************************)
LEMMA LockedNoMore ==
  ASSUME NEW r, Orderly(r), NEW u, NEW req \in Requests,
         ~ Holds(r, u),
         Booked(r.bookings, u) => req <= BookingOf(r.bookings, u).dur
  PROVE  NoMore(r, Locked(r, u, req))
<1> DEFINE q == r.bookings
           w == WithoutBooking(q, u)
           g == Granted(r, u, req)
           s == Locked(r, u, req)
<1>1. LockedLeft(r, u, req) \in Int /\ LeftOf(r, u) = 0 /\ LockedLeft(r, u, req) = g + LeftOf(r, u)
  BY LockedLeftType DEF LeftOf, LockedLeft
<1>2. s.current = {[user |-> u, left |-> LockedLeft(r, u, req), warned |-> FALSE]} /\ s.bookings = w
  BY DEF Locked
<1>3. \A i \in 1..Len(w) : \E j \in 1..Len(q) : w[i] = q[j]
  <2>1. PartOf(w, q)
    BY BookingsOf
  <2> HIDE DEF w, q
  <2>2. QED BY <2>1 DEF PartOf
<1> SUFFICES ASSUME NEW v, NEW d, Due(s, v, d), Entitled(r, v)
             PROVE  \E e : Due(r, v, e) /\ d <= e
  BY DEF NoMore
<1> HIDE DEF s, w
<1>4. CASE \E i \in 1..Len(w) : w[i].user = v /\ d = w[i].dur
  <2>1. PICK j \in 1..Len(q) : q[j].user = v /\ d = q[j].dur
    BY <1>3, <1>4
  <2>2. q[j] \in Booking
    BY <2>1, ElementOfSeq, LineProperty
  <2>3. d <= d
    BY <2>1, <2>2 DEF Booking
  <2>4. Due(r, v, d)
    BY <2>1 DEF Due
  <2>5. QED BY <2>3, <2>4
<1>5. CASE v = u /\ d = Remaining(LockedLeft(r, u, req))
  <2> DEFINE b == BookingOf(q, u)
  <2>1. Booked(q, u)
    BY <1>5 DEF Entitled
  <2>2. b.dur \in Nat \ {0} /\ Due(r, u, b.dur)
    <3> DEFINE p == Position(q, u)
    <3>1. p \in 1..Len(q) /\ q[p].user = u
      BY <2>1 DEF Booked, Position
    <3> HIDE DEF p
    <3>2. q[p] \in Booking
      BY <3>1, ElementOfSeq, LineProperty
    <3>3. Due(r, u, q[p].dur)
      BY <3>1 DEF Due
    <3>4. QED BY <3>2, <3>3 DEF Booking, BookingOf, p
  <2>3. g <= b.dur /\ g \in Int
    <3>1. req \in Nat
      BY HoldingsAssumption DEF Requests, Omitted
    <3>2. CASE req = Omitted
      BY <2>1, <2>2, <3>2 DEF Granted
    <3>3. CASE req # Omitted
      BY <2>1, <3>1, <3>3, <2>2 DEF Granted, Requested
    <3>4. QED BY <3>2, <3>3
  <2> HIDE DEF b, g
  <2>4. LockedLeft(r, u, req) = g
    BY <1>1, <2>3
  <2>5. d <= b.dur
    BY <1>5, <2>2, <2>3, <2>4 DEF Remaining
  <2>6. QED BY <1>5, <2>2, <2>5
<1>6. QED BY <1>2, <1>4, <1>5 DEF Due

(***************************************************************************)
(* A booking gives time to somebody who had no seat.                       *)
(***************************************************************************)
LEMMA BookNoMore ==
  ASSUME NEW r, Orderly(r), NEW b \in Booking,
         ~ Holds(r, b.user), ~ Booked(r.bookings, b.user)
  PROVE  NoMore(r, [r EXCEPT !.bookings = Append(@, b)])
<1> DEFINE q == r.bookings
           a == Append(q, b)
           s == [r EXCEPT !.bookings = a]
<1>1. r \in Resource /\ q \in Seq(Booking)
  BY LineProperty DEF Orderly
<1>2. s.current = r.current /\ s.bookings = a
  BY <1>1 DEF Resource
<1>3. /\ Len(a) = Len(q) + 1 /\ a[Len(q) + 1] = b
      /\ \A i \in 1..Len(q) : a[i] = q[i]
  BY <1>1, AppendProperties
<1> HIDE DEF a, s
<1> SUFFICES ASSUME NEW v, NEW d, Due(s, v, d), Entitled(r, v)
             PROVE  \E e : Due(r, v, e) /\ d <= e
  BY DEF NoMore, s, a
<1>4. v # b.user
  BY DEF Entitled
<1>5. Due(r, v, d) /\ d \in Int
  <2>1. CASE \E h \in s.current : h.user = v /\ d = Remaining(h.left)
    <3>1. PICK h \in r.current : h.user = v /\ d = Remaining(h.left)
      BY <1>2, <2>1
    <3>2. h.left \in Int
      BY <1>1, <3>1 DEF Resource, Holding
    <3>3. QED BY <3>1, <3>2 DEF Due, Remaining
  <2>2. ASSUME NEW i \in 1..Len(a), a[i].user = v, d = a[i].dur
        PROVE  Due(r, v, d) /\ d \in Int
    <3>1. i \in 1..Len(q) /\ a[i] = q[i]
      <4>1. Len(q) \in Nat
        BY <1>1, LenProperties
      <4>2. i = Len(q) + 1 \/ i \in 1..Len(q)
        BY <1>3, <4>1
      <4>3. QED BY <1>3, <1>4, <2>2, <4>2
    <3>2. q[i] \in Booking
      BY <1>1, <3>1, ElementOfSeq
    <3>3. QED BY <2>2, <3>1, <3>2 DEF Due, Booking
  <2>3. QED BY <1>2, <2>1, <2>2 DEF Due
<1>6. QED BY <1>5

(***************************************************************************)
(* A take: the taker gets no more than it had booked, and who loses the    *)
(* lease is booked for what was left of it.                                *)
(***************************************************************************)
LEMMA RequeuedTime ==
  ASSUME NEW r, Orderly(r), NEW u
  PROVE  \A i \in 1..Len(Requeued(r, u)) : \E h \in r.current :
           /\ Requeued(r, u)[i].user = h.user
           /\ Requeued(r, u)[i].dur = Remaining(h.left)
<1>1. CASE Preempted(r, u) = {}
  BY <1>1 DEF Requeued
<1>2. CASE Preempted(r, u) # {}
  <2> DEFINE h == CHOOSE k \in Preempted(r, u) : TRUE
             b == [user |-> h.user, dur |-> h.left, waited |-> NotNotified]
  <2>1. h \in r.current /\ h.left > 0
    BY <1>2 DEF Preempted
  <2>2. Requeued(r, u) = << b >>
    BY <1>2 DEF Requeued
  <2> HIDE DEF h
  <2>3. b.user = h.user /\ b.dur = Remaining(h.left)
    BY <2>1 DEF Remaining
  <2> HIDE DEF b
  <2>4. QED BY <2>1, <2>2, <2>3
<1>3. QED BY <1>1, <1>2

LEMMA TakenNoMore ==
  ASSUME NEW r, Orderly(r), NEW u, ~ Holds(r, u), NEW req \in Requests,
         Booked(r.bookings, u) => Requested(req) <= BookingOf(r.bookings, u).dur
  PROVE  NoMore(r, Taken(r, u, req))
<1> DEFINE q == r.bookings
           w == WithoutBooking(q, u)
           f == Requeued(r, u)
           x == Unnotified(w)
           y == f \o x
           s == Taken(r, u, req)
<1>1. /\ s.current = {[user |-> u, left |-> Requested(req), warned |-> FALSE]}
      /\ s.bookings = y
  BY DEF Taken
<1> HIDE DEF f, x, y, s
<1>2. w \in Seq(Booking) /\ \A i \in 1..Len(w) : \E j \in 1..Len(q) : w[i] = q[j]
  <2>1. PartOf(w, q)
    BY BookingsOf
  <2> HIDE DEF w, q
  <2>2. QED BY <2>1 DEF PartOf
<1> HIDE DEF w
<1>3. /\ x \in Seq(Booking) /\ Len(x) = Len(w)
      /\ \A i \in 1..Len(w) : x[i].user = w[i].user /\ x[i].dur = w[i].dur
  <2>1. \A i \in 1..Len(w) : w[i] \in Booking
    BY <1>2, ElementOfSeq
  <2>2. x = [i \in 1..Len(w) |-> [w[i] EXCEPT !.waited = NotNotified]] /\ Len(w) \in Nat
    BY <1>2, LenProperties DEF Unnotified, x
  <2>3. Len(x) = Len(w)
    BY <2>2
  <2>4. QED BY <1>2, <2>1, <2>2, <2>3, UnnotifiedNames DEF Booking, x
<1>4. f \in Seq(Booking)
  BY RequeuedProperty DEF f
<1>5. \A i \in 1..Len(f) : \E h \in r.current : f[i].user = h.user /\ f[i].dur = Remaining(h.left)
  BY RequeuedTime DEF f
<1>6. /\ Len(y) = Len(f) + Len(x)
      /\ \A i \in 1..Len(f)+Len(x) : y[i] = IF i <= Len(f) THEN f[i] ELSE x[i - Len(f)]
  <2>1. f \in Seq(Booking) /\ x \in Seq(Booking)
    BY <1>3, <1>4
  <2>2. QED BY ONLY <2>1, ConcatProperties DEF y
<1> SUFFICES ASSUME NEW v, NEW d, Due(s, v, d), Entitled(r, v)
             PROVE  \E e : Due(r, v, e) /\ d <= e
  BY DEF NoMore, s
<1>7. ASSUME NEW i \in 1..Len(y), y[i].user = v, d = y[i].dur
      PROVE  \E e : Due(r, v, e) /\ d <= e
  <2>1. Len(f) \in Nat /\ Len(x) \in Nat
    BY <1>3, <1>4, LenProperties
  <2>2. i \in 1..Len(f) \/ (i - Len(f) \in 1..Len(w) /\ ~ (i <= Len(f)))
    BY <1>3, <1>6, <2>1
  <2>3. CASE i \in 1..Len(f)
    <3>1. y[i] = f[i]
      BY <1>6, <2>1, <2>3
    <3>2. PICK h \in r.current : v = h.user /\ d = Remaining(h.left)
      BY <1>5, <1>7, <2>3, <3>1
    <3>3. h.left \in Int
      BY <3>2 DEF Orderly, Resource, Holding
    <3>4. Due(r, v, d) /\ d <= d
      BY <3>2, <3>3 DEF Due, Remaining
    <3>5. QED BY <3>4
  <2>4. ASSUME i - Len(f) \in 1..Len(w), ~ (i <= Len(f))
        PROVE  \E e : Due(r, v, e) /\ d <= e
    <3>1. y[i] = x[i - Len(f)]
      BY <1>3, <1>6, <2>1, <2>4
    <3>2. PICK j \in 1..Len(q) : q[j].user = v /\ q[j].dur = d
      BY <1>2, <1>3, <1>7, <2>4, <3>1
    <3>3. q[j] \in Booking
      BY <3>2, ElementOfSeq, LineProperty
    <3>4. Due(r, v, d) /\ d <= d
      BY <3>2, <3>3 DEF Due, Booking
    <3>5. QED BY <3>4
  <2>5. QED BY <2>2, <2>3, <2>4
<1>8. CASE v = u /\ d = Remaining(Requested(req))
  <2> DEFINE p == Position(q, u)
  <2>1. Booked(q, u)
    BY <1>8 DEF Entitled
  <2>2. p \in 1..Len(q) /\ q[p].user = u /\ Requested(req) <= q[p].dur
    BY <2>1 DEF Booked, Position, BookingOf
  <2> HIDE DEF p
  <2>3. Due(r, u, q[p].dur)
    BY <2>2 DEF Due
  <2>4. d <= q[p].dur
    BY <1>8, <2>2, RequestedType DEF Remaining
  <2>5. QED BY <1>8, <2>3, <2>4
<1>9. QED BY <1>1, <1>7, <1>8 DEF Due

(***************************************************************************)
(* The sweep, the clock and a restart only take time away.                 *)
(***************************************************************************)
LEMMA NotifiedBookings ==
  ASSUME NEW q \in Seq(Booking)
  PROVE  /\ Len(NotifyHead(q)) = Len(q)
         /\ \A i \in 1..Len(q) : NotifyHead(q)[i].user = q[i].user /\ NotifyHead(q)[i].dur = q[i].dur
<1>1. CASE q = << >>
  BY <1>1 DEF NotifyHead
<1>2. CASE q # << >>
  <2> DEFINE b == [q[1] EXCEPT !.waited = 0]
             x == [q EXCEPT ![1] = b]
  <2>1. 1 \in 1..Len(q)
    BY <1>2, EmptySeq
  <2>2. q[1] \in Booking /\ 0 \in -1 .. ClaimWindow
    BY <2>1, ElementOfSeq, HoldingsAssumption
  <2>3. b \in Booking /\ b.user = q[1].user /\ b.dur = q[1].dur
    BY <2>2 DEF Booking
  <2> HIDE DEF b
  <2>4. Len(x) = Len(q) /\ \A i \in 1..Len(q) : x[i] = IF i = 1 THEN b ELSE q[i]
    BY <2>1, <2>3, ExceptSeq
  <2>5. NotifyHead(q) = x
    BY <1>2 DEF NotifyHead, b
  <2> HIDE DEF x
  <2>6. QED BY <2>3, <2>4, <2>5
<1>3. QED BY <1>1, <1>2

LEMMA SweptNoMore ==
  ASSUME NEW r, Orderly(r)
  PROVE  NoMore(r, Swept(r))
<1> DEFINE e == Expire(r)
           q == r.bookings
           s == Swept(r)
<1>1. Orderly(e) /\ Orderly(s) /\ r \in Resource /\ q \in Seq(Booking)
  BY ExpireOrderly, SweptOrderly, LineProperty DEF Orderly
<1>2. e.bookings = q
  BY <1>1 DEF Expire, Keep, Resource
<1>3. \A h \in e.current : \E g \in r.current : g.user = h.user /\ h.left <= g.left
  BY <1>1 DEF Expire, Keep, Resource, Holding
<1> HIDE DEF e, q
<1>4. e \in Resource
  BY <1>1 DEF Orderly
<1>5. \/ s = e
      \/ s = [e EXCEPT !.bookings = NotifyHead(q)]
      \/ q # << >> /\ s = [e EXCEPT !.bookings = NotifyHead(Tail(q))]
  BY <1>2 DEF Swept, Advance, TimedOut, e
<1> HIDE DEF s
<1>6. s.current = e.current
  BY <1>4, <1>5 DEF Resource
<1>7. \/ s.bookings \in {q, NotifyHead(q)}
      \/ q # << >> /\ s.bookings = NotifyHead(Tail(q))
  <2>1. CASE s = e
    BY <1>2, <2>1
  <2>2. CASE s = [e EXCEPT !.bookings = NotifyHead(q)]
    BY <1>4, <2>2 DEF Resource
  <2>3. CASE q # << >> /\ s = [e EXCEPT !.bookings = NotifyHead(Tail(q))]
    BY <1>4, <2>3 DEF Resource
  <2>4. QED BY <1>5, <2>1, <2>2, <2>3
<1>8. \A i \in 1..Len(s.bookings) : \E j \in 1..Len(q) :
        q[j].user = s.bookings[i].user /\ q[j].dur = s.bookings[i].dur
  <2>1. CASE s.bookings \in {q, NotifyHead(q)}
    BY <1>1, <2>1, NotifiedBookings
  <2>2. CASE q # << >> /\ s.bookings = NotifyHead(Tail(q))
    <3> DEFINE t == Tail(q)
    <3>1. /\ t \in Seq(Booking) /\ Len(t) = Len(q) - 1
          /\ \A i \in 1..Len(t) : t[i] = q[i+1]
      BY <1>1, <2>2, HeadTailProperties
    <3> HIDE DEF t
    <3>2. \A i \in 1..Len(t) : i + 1 \in 1..Len(q)
      BY <1>1, <3>1, LenProperties
    <3>3. /\ Len(s.bookings) = Len(t)
          /\ \A i \in 1..Len(t) : s.bookings[i].user = t[i].user /\ s.bookings[i].dur = t[i].dur
      BY <2>2, <3>1, NotifiedBookings DEF t
    <3>4. QED BY <3>1, <3>2, <3>3
  <2>3. QED BY <1>7, <2>1, <2>2
<1>9. \A h \in s.current : \E g \in r.current : g.user = h.user /\ h.left <= g.left
  BY ONLY <1>3, <1>6
<1>10. QED BY <1>1, <1>8, <1>9, TakingAway DEF s, q

LEMMA OlderNoMore ==
  ASSUME NEW r, Orderly(r)
  PROVE  NoMore(r, Older(r))
<1> DEFINE s == Older(r)
           q == r.bookings
<1>1. Orderly(s) /\ r \in Resource /\ q \in Seq(Booking)
  BY OlderOrderly, LineProperty DEF Orderly
<1>2. \A h \in s.current : \E g \in r.current : g.user = h.user /\ h.left <= g.left
  <2>1. s.current = {OlderHolding(h) : h \in r.current}
    BY <1>1 DEF Older, Resource
  <2>2. \A h \in r.current : OlderHolding(h).user = h.user /\ OlderHolding(h).left <= h.left
    <3> SUFFICES ASSUME NEW h \in r.current
                 PROVE  OlderHolding(h).user = h.user /\ OlderHolding(h).left <= h.left
      OBVIOUS
    <3>1. h \in Holding
      BY <1>1 DEF Resource
    <3>2. QED BY <3>1 DEF OlderHolding, Holding
  <2> HIDE DEF s
  <2>3. QED BY <2>1, <2>2
<1>3. s.bookings = [i \in 1..Len(q) |-> OlderBooking(q[i])]
  BY <1>1 DEF Older, Resource
<1> HIDE DEF s
<1>4. Len(s.bookings) = Len(q)
  BY <1>1, <1>3, LenProperties
<1>5. \A i \in 1..Len(q) : s.bookings[i].user = q[i].user /\ s.bookings[i].dur = q[i].dur
  <2>1. \A i \in 1..Len(q) : q[i] \in Booking
    BY <1>1, ElementOfSeq
  <2>2. QED BY <1>3, <2>1 DEF OlderBooking, Booking
<1>6. QED BY <1>1, <1>2, <1>4, <1>5, TakingAway DEF s

LEMMA ClampNoMore ==
  ASSUME NEW r, Orderly(r), NEW max \in (Nat \ {0}) \cup {Unlimited}
  PROVE  NoMore(r, Clamp(r, max))
<1> DEFINE s == Clamp(r, max)
           cut(h) == [h EXCEPT !.left =
                        IF WithinMax(h.user, Remaining(@), max) THEN @ ELSE max]
<1>1. Orderly(s) /\ r \in Resource
  BY ClampOrderly DEF Orderly, Unlimited
<1>2. s.current = {cut(h) : h \in r.current} /\ s.bookings = r.bookings
  BY <1>1 DEF Clamp, Resource
<1>3. \A h \in r.current : cut(h).user = h.user /\ cut(h).left <= h.left
  BY <1>1 DEF Resource, Holding, WithinMax, Remaining, Unlimited
<1> HIDE DEF s, cut
<1>4. \A h \in s.current : \E g \in r.current : g.user = h.user /\ h.left <= g.left
  BY <1>2, <1>3
<1>5. QED BY <1>1, <1>2, <1>4, TakingAway DEF s

-----------------------------------------------------------------------------
NoneMore(st, after) == \A n \in Nodes : NoMore(st[n], after[n])

LEMMA SameNoMore ==
  ASSUME NEW r, Orderly(r)
  PROVE  NoMore(r, r)
<1>1. \A h \in r.current : h.left <= h.left
  BY DEF Orderly, Resource, Holding
<1>2. QED BY <1>1, TakingAway

LEMMA UserGainsNothing ==
  ASSUME IInv, ForbidRelock, NEW u \in Users, Command(u)
  PROVE  NoneMore(state, state')
<1>1. \A n \in Nodes : Orderly(state[n]) /\ NoMore(state[n], state[n])
  BY SameNoMore DEF IInv, AllOrderly
<1>2. ASSUME NEW targets \in Targets, NEW req \in Requests, NEW limit \in Limits,
             Lock(u, targets, req, limit)
      PROVE  NoneMore(state, state')
  <2>1. state' = Update(targets, LAMBDA r : Locked(r, u, req))
    BY <1>2 DEF Lock, Persist
  <2>2. \A n \in targets : NoMore(state[n], Locked(state[n], u, req))
    <3>1. \A n \in targets : /\ n \in Nodes /\ ~ Holds(state[n], u)
                             /\ Booked(state[n].bookings, u) =>
                                  req <= BookingOf(state[n].bookings, u).dur
      BY <1>2 DEF Lock, Targets, PolicyAllows, NoRelock
    <3>2. QED BY <1>1, <3>1, LockedNoMore
  <2>3. QED BY <1>1, <2>1, <2>2 DEF Update, NoneMore
<1>3. ASSUME NEW targets \in Targets, NEW req \in Requests, NEW limit \in Limits,
             Book(u, targets, req, limit)
      PROVE  NoneMore(state, state')
  <2> DEFINE b == BookingFor(u, req)
  <2>1. b \in Booking /\ b.user = u
    BY RequestedType, HoldingsAssumption DEF BookingFor, Booking, NotNotified
  <2>2. state' = Update(targets, LAMBDA r : [r EXCEPT !.bookings = Append(@, b)])
    BY <1>3 DEF Book, Persist
  <2>3. \A n \in targets :
          n \in Nodes /\ ~ Holds(state[n], u) /\ ~ Booked(state[n].bookings, u)
    BY <1>3 DEF Book, Targets
  <2> HIDE DEF b
  <2>4. \A n \in targets : NoMore(state[n], [state[n] EXCEPT !.bookings = Append(@, b)])
    BY <1>1, <2>1, <2>3, BookNoMore
  <2>5. QED BY <1>1, <2>2, <2>4 DEF Update, NoneMore
<1>4. ASSUME NEW targets \in Targets, NEW req \in Requests, Take(u, targets, req)
      PROVE  NoneMore(state, state')
  <2>1. state' = Update(targets, LAMBDA r : Taken(r, u, req))
    BY <1>4 DEF Take, Persist
  <2>2. \A n \in targets : NoMore(state[n], Taken(state[n], u, req))
    <3>1. \A n \in targets : /\ n \in Nodes /\ ~ Holds(state[n], u)
                             /\ Booked(state[n].bookings, u) =>
                                  Requested(req) <= BookingOf(state[n].bookings, u).dur
      BY <1>4 DEF Take, Targets, PolicyAllows, NoRelock
    <3>2. QED BY <1>1, <3>1, TakenNoMore
  <2>3. QED BY <1>1, <2>1, <2>2 DEF Update, NoneMore
<1>5. ASSUME NEW targets \in Targets, Unlock(u, targets)
      PROVE  NoneMore(state, state')
  <2>1. state' = Update(targets, LAMBDA r : Left(r, u))
    BY <1>5 DEF Unlock, Persist
  <2>2. \A n \in targets : NoMore(state[n], Left(state[n], u))
    BY <1>1, LeftNoMore DEF Targets
  <2>3. QED BY <1>1, <2>1, <2>2 DEF Update, NoneMore
<1>6. ASSUME UnlockAll(u)
      PROVE  NoneMore(state, state')
  <2>1. state' = Update(Nodes, LAMBDA r : Left(r, u))
    BY <1>6 DEF UnlockAll, Persist
  <2>2. \A n \in Nodes : NoMore(state[n], Left(state[n], u))
    BY <1>1, LeftNoMore
  <2>3. QED BY <1>1, <2>1, <2>2 DEF Update, NoneMore
<1>7. QED BY <1>2, <1>3, <1>4, <1>5, <1>6 DEF Command

LEMMA OperatorGivesNothing ==
  ASSUME IInv, Operator
  PROVE  NoneMore(state, state')
<1>1. \A n \in Nodes : Orderly(state[n]) /\ NoMore(state[n], state[n])
  BY SameNoMore DEF IInv, AllOrderly
<1>2. ASSUME NEW targets \in Targets, Kickout(targets)
      PROVE  NoneMore(state, state')
  <2>1. state' = Update(targets, LAMBDA r : Fresh)
    BY <1>2 DEF Kickout, Persist
  <2>2. \A n \in targets : NoMore(state[n], Fresh)
    BY FreshNoMore
  <2>3. QED BY <1>1, <2>1, <2>2 DEF Update, NoneMore
<1>3. ASSUME NEW targets \in Targets, Kicklock(targets)
      PROVE  NoneMore(state, state')
  <2>1. state' = Update(targets, LAMBDA r : Keep(r, {}))
    BY <1>3 DEF Kicklock, Persist
  <2>2. \A n \in targets : NoMore(state[n], Keep(state[n], {}))
    BY <1>1, KeepOrderly, KeepNoMore DEF Targets
  <2>3. QED BY <1>1, <2>1, <2>2 DEF Update, NoneMore
<1>4. ASSUME NEW u \in Users, NEW targets \in Targets, Opkick(u, targets)
      PROVE  NoneMore(state, state')
  <2>1. state' = Update(targets, LAMBDA r : Vacate(r, u))
    BY <1>4 DEF Opkick, Persist
  <2>2. \A n \in targets : NoMore(state[n], Vacate(state[n], u))
    BY <1>1, VacateNoMore DEF Targets
  <2>3. QED BY <1>1, <2>1, <2>2 DEF Update, NoneMore
<1>5. QED BY <1>2, <1>3, <1>4 DEF Operator

LEMMA TimeOnlyPasses ==
  ASSUME IInv, saved, Sweep \/ Send \/ Tick \/ Restart
  PROVE  NoneMore(state, state')
<1>1. \A n \in Nodes : Orderly(state[n])
  BY DEF IInv, AllOrderly
<1>2. CASE Sweep
  BY <1>1, <1>2, SweptNoMore DEF Sweep, Persist, NoneMore
<1>3. CASE Send
  BY <1>1, <1>3, SameNoMore DEF Send, NoneMore
<1>4. CASE Tick
  BY <1>1, <1>4, OlderNoMore DEF Tick, NoneMore
<1>5. CASE Restart
  <2>1. maxDur' \in (Nat \ {0}) \cup {Unlimited} /\ disk = state
    BY <1>5, BaseBotAssumption DEF Restart, IInv, Durable
  <2>2. state' = [n \in Nodes |-> Clamp(state[n], maxDur')]
    BY <1>5, <2>1 DEF Restart
  <2>3. QED BY <1>1, <2>1, <2>2, ClampNoMore DEF NoneMore
<1>6. QED BY <1>2, <1>3, <1>4, <1>5

(***************************************************************************)
(* With FORBID_RELOCK, and as long as the state file can be written, no    *)
(* step of anybody, for any durations, adds to what somebody is entitled   *)
(* to of a resource: not a claim of a booking, not a take, not being       *)
(* preempted and not a restart (queue_bot.py:33-305, 410-572,              *)
(* resource_policy.py:16-33).                                              *)
(***************************************************************************)
THEOREM NobodyGainsTime ==
  ASSUME ~ SaveFaults
  PROVE  Spec => EntitlementNeverGrows
<1> DEFINE A == \A n \in Nodes, u \in Users :
                  ForbidRelock /\ Entitled(state[n], u) /\ Entitled(state'[n], u)
                    => Entitlement(state'[n], u) <= Entitlement(state[n], u)
<1>1. IInv /\ saved /\ IInv' /\ [Next]_vars => A
  <2> SUFFICES ASSUME IInv, saved, IInv', [Next]_vars, ForbidRelock PROVE A
    OBVIOUS
  <2>1. \A n \in Nodes : Orderly(state[n]) /\ Orderly(state'[n])
    BY DEF IInv, AllOrderly
  <2>2. NoneMore(state, state')
    <3>1. CASE UNCHANGED vars
      BY <2>1, <3>1, SameNoMore DEF vars, NoneMore
    <3>2. CASE Next
      BY <3>2, UserGainsNothing, OperatorGivesNothing, TimeOnlyPasses DEF Next
    <3>3. QED BY <3>1, <3>2
  <2>3. QED BY <2>1, <2>2, NoMoreNoGain DEF NoneMore
<1>2. IInv /\ saved /\ IInv' /\ [Next]_vars => [A]_vars
  BY <1>1
<1>3. QED BY <1>2, StaysSaved, PTL DEF Spec, EntitlementNeverGrows

-----------------------------------------------------------------------------
(***************************************************************************)
(* Waiting.  Nobody waits longer in s than in r, for the holder and for    *)
(* the bookings ahead.                                                     *)
(***************************************************************************)
NoLonger(r, s) ==
  \A u : Booked(r.bookings, u) /\ Booked(s.bookings, u) => Wait(s, u) <= Wait(r, u)

Times(q) == [i \in 1..Len(q) |-> q[i].dur]

OneBookingEach(q) ==
  q \in Seq(Booking) /\ \A i, j \in 1..Len(q) : q[i].user = q[j].user => i = j

\* The first n bookings of w are bookings of q from place lo on, in their order.
InOrder(w, q, n, lo, to) ==
  /\ \A i \in 1..n : /\ to[i] \in lo..Len(q)
                     /\ w[i].user = q[to[i]].user /\ w[i].dur = q[to[i]].dur
  /\ \A i, j \in 1..n : i < j => to[i] < to[j]

LEMMA PlaceInLine ==
  ASSUME NEW q, OneBookingEach(q), NEW u, Booked(q, u)
  PROVE  /\ Position(q, u) \in 1..Len(q) /\ q[Position(q, u)].user = u
         /\ \A i \in 1..Len(q) : q[i].user = u => i = Position(q, u)
<1> DEFINE p == Position(q, u)
<1>1. p \in 1..Len(q) /\ q[p].user = u
  BY DEF Booked, Position
<1> HIDE DEF p
<1>2. QED BY <1>1 DEF OneBookingEach, p

LEMMA TimesAre ==
  ASSUME NEW q, OneBookingEach(q)
  PROVE  Len(q) \in Nat /\ \A i \in 1..Len(q) : Times(q)[i] = q[i].dur /\ q[i].dur \in Nat
<1>1. \A i \in 1..Len(q) : q[i] \in Booking
  BY ElementOfSeq DEF OneBookingEach
<1>2. QED BY <1>1, LenProperties DEF Times, Booking, OneBookingEach

(***************************************************************************)
(* The bookings ahead of a user, if they were ahead of it before, asked    *)
(* for no more than those that were.                                       *)
(***************************************************************************)
LEMMA AheadShrinks ==
  ASSUME NEW q, OneBookingEach(q), NEW w, OneBookingEach(w), NEW u, Booked(w, u),
         NEW lo \in Nat \ {0}, NEW to, InOrder(w, q, Position(w, u), lo, to)
  PROVE  /\ Booked(q, u) /\ lo <= Position(q, u)
         /\ SumFunctionOnSet(Times(w), 1 .. Position(w, u) - 1)
              <= SumFunctionOnSet(Times(q), lo .. Position(q, u) - 1)
<1> DEFINE m == Position(w, u)
           p == Position(q, u)
           S == 1 .. m - 1
           T == lo .. p - 1
<1>1. m \in 1..Len(w) /\ w[m].user = u /\ Len(w) \in Nat /\ Len(q) \in Nat
  BY PlaceInLine, TimesAre
<1>2. /\ \A i \in 1..m : to[i] \in lo..Len(q) /\ w[i].user = q[to[i]].user /\ w[i].dur = q[to[i]].dur
      /\ \A i, j \in 1..m : i < j => to[i] < to[j]
  BY DEF InOrder
<1> HIDE DEF m
<1>3. to[m] \in 1..Len(q) /\ to[m] >= lo /\ q[to[m]].user = u
  BY <1>1, <1>2
<1>4. Booked(q, u)
  BY <1>3 DEF Booked
<1>5. p = to[m]
  BY <1>3, <1>4, PlaceInLine
<1> HIDE DEF p
<1>6. \A i \in S : to[i] \in T /\ i \in 1..Len(w) /\ to[i] \in 1..Len(q) /\ w[i].dur = q[to[i]].dur
  <2> SUFFICES ASSUME NEW i \in S PROVE to[i] \in T /\ i \in 1..Len(w) /\ to[i] \in 1..Len(q) /\ w[i].dur = q[to[i]].dur
    OBVIOUS
  <2>1. i \in 1..m /\ m \in 1..m /\ i < m /\ i \in 1..Len(w)
    BY <1>1
  <2>2. to[i] \in lo..Len(q) /\ w[i].dur = q[to[i]].dur /\ to[i] < to[m]
    BY <1>2, <2>1
  <2>3. QED BY <1>1, <1>3, <1>5, <2>1, <2>2
<1>7. \A i, j \in S : to[i] = to[j] => i = j
  <2> SUFFICES ASSUME NEW i \in S, NEW j \in S, to[i] = to[j], i < j \/ j < i PROVE FALSE
    BY <1>1
  <2>1. i \in 1..m /\ j \in 1..m
    BY <1>1
  <2>2. to[i] \in lo..Len(q) /\ to[j] \in lo..Len(q) /\ (to[i] < to[j] \/ to[j] < to[i])
    BY <1>2, <2>1
  <2>3. QED BY <1>1, <2>2
<1>8. \A z \in T : z \in 1..Len(q)
  BY <1>1, <1>3, <1>5
<1> DEFINE f == Times(w)
           h == Times(q)
<1>9. \A i \in S : f[i] \in Int /\ f[i] <= h[to[i]]
  BY <1>6, TimesAre
<1>10. \A z \in T : h[z] \in Nat
  BY <1>8, TimesAre
<1>11. IsFiniteSet(S) /\ IsFiniteSet(T)
  <2>1. m - 1 \in Int /\ p - 1 \in Int
    BY <1>1, <1>3, <1>5
  <2>2. QED BY <2>1, FS_Interval
<1> HIDE DEF S, T, f, h
<1>12. SumFunctionOnSet(f, S) <= SumFunctionOnSet(h, T)
  BY <1>6, <1>7, <1>9, <1>10, <1>11, SumInjected
<1>13. QED BY <1>1, <1>3, <1>4, <1>5, <1>12 DEF S, T, f, h, m, p

LEMMA AheadIsNat ==
  ASSUME NEW q, OneBookingEach(q), NEW u, Booked(q, u), NEW lo \in Nat \ {0}
  PROVE  SumFunctionOnSet(Times(q), lo .. Position(q, u) - 1) \in Nat
<1> DEFINE p == Position(q, u)
           S == lo .. p - 1
           f == Times(q)
<1>1. p \in 1..Len(q) /\ Len(q) \in Nat
  BY PlaceInLine, TimesAre
<1> HIDE DEF p
<1>2. IsFiniteSet(S) /\ \A i \in S : i \in 1..Len(q)
  <2>1. p - 1 \in Int /\ \A i \in S : i \in 1..Len(q)
    BY <1>1
  <2>2. QED BY <2>1, FS_Interval
<1>3. \A i \in S : f[i] \in Nat
  BY <1>2, TimesAre
<1> HIDE DEF S, f
<1>4. SumFunctionOnSet(f, S) \in Nat
  BY <1>2, <1>3, SumNat
<1>5. QED BY <1>4 DEF S, f, p

LEMMA WaitIs ==
  ASSUME NEW r, NEW u
  PROVE  Wait(r, u) = HeldFor(r) + SumFunctionOnSet(Times(r.bookings), 1 .. Position(r.bookings, u) - 1)
BY DEF Wait, Times

\* A lease that is not longer, or none any more, is not waited for longer.
LEMMA HeldForLess ==
  ASSUME NEW r, Orderly(r), NEW s, Orderly(s),
         \A h \in s.current : \E g \in r.current : g.user = h.user /\ h.left <= g.left
  PROVE  HeldFor(r) \in Nat /\ HeldFor(s) \in Nat /\ HeldFor(s) <= HeldFor(r)
<1>1. /\ \A h \in r.current \cup s.current : h.left \in Int
      /\ \A h, k \in r.current : h = k
  BY DEF Orderly, Resource, Holding, SingleHolder
<1>2. HeldFor(r) \in Nat /\ HeldFor(s) \in Nat
  BY <1>1 DEF HeldFor, Remaining
<1>3. HeldFor(s) <= HeldFor(r)
  <2>1. CASE s.current = {}
    BY <1>2, <2>1 DEF HeldFor
  <2>2. CASE s.current # {}
    <3> DEFINE h == CHOOSE k \in s.current : TRUE
               g == CHOOSE k \in r.current : TRUE
    <3>1. h \in s.current
      BY <2>2
    <3>2. PICK k \in r.current : h.left <= k.left
      BY <3>1
    <3>3. g = k
      BY <1>1, <3>2
    <3> HIDE DEF h, g
    <3>4. h.left \in Int /\ g.left \in Int /\ h.left <= g.left
      BY <1>1, <3>1, <3>2, <3>3
    <3>5. HeldFor(s) = Remaining(h.left) /\ HeldFor(r) = Remaining(g.left)
      BY <2>2, <3>2 DEF HeldFor, h, g
    <3>6. QED BY <3>4, <3>5 DEF Remaining
  <2>3. QED BY <2>1, <2>2
<1>4. QED BY <1>2, <1>3

LEMMA OrderlyOneEach ==
  ASSUME NEW r, Orderly(r) PROVE OneBookingEach(r.bookings)
BY LineProperty DEF OneBookingEach

(***************************************************************************)
(* Operators that take leases and bookings away and leave the rest in its  *)
(* order.                                                                  *)
(***************************************************************************)
LEMMA LessAhead ==
  ASSUME NEW r, Orderly(r), NEW s, Orderly(s), HeldFor(s) <= HeldFor(r),
         HeldFor(r) \in Nat, HeldFor(s) \in Nat,
         \A u : Booked(r.bookings, u) /\ Booked(s.bookings, u) =>
           \E to : InOrder(s.bookings, r.bookings, Position(s.bookings, u), 1, to)
  PROVE  NoLonger(r, s)
<1> DEFINE q == r.bookings
           w == s.bookings
<1>1. OneBookingEach(q) /\ OneBookingEach(w)
  BY OrderlyOneEach
<1> SUFFICES ASSUME NEW u, Booked(q, u), Booked(w, u) PROVE Wait(s, u) <= Wait(r, u)
  BY DEF NoLonger
<1>2. PICK to : InOrder(w, q, Position(w, u), 1, to)
  OBVIOUS
<1>w. Wait(r, u) = HeldFor(r) + SumFunctionOnSet(Times(q), 1 .. Position(q, u) - 1)
      /\ Wait(s, u) = HeldFor(s) + SumFunctionOnSet(Times(w), 1 .. Position(w, u) - 1)
  BY WaitIs
<1> HIDE DEF q, w
<1>3. SumFunctionOnSet(Times(w), 1 .. Position(w, u) - 1) <= SumFunctionOnSet(Times(q), 1 .. Position(q, u) - 1)
  BY <1>1, <1>2, AheadShrinks
<1>4. SumFunctionOnSet(Times(w), 1 .. Position(w, u) - 1) \in Nat /\ SumFunctionOnSet(Times(q), 1 .. Position(q, u) - 1) \in Nat
  BY <1>1, AheadIsNat
<1>5. QED BY <1>w, <1>3, <1>4

\* The bookings stay, or gain others behind them.
LEMMA SameBookings ==
  ASSUME NEW r, Orderly(r), NEW s, Orderly(s),
         \A h \in s.current : \E g \in r.current : g.user = h.user /\ h.left <= g.left,
         Len(r.bookings) <= Len(s.bookings),
         \A i \in 1..Len(r.bookings) : s.bookings[i].user = r.bookings[i].user
                                       /\ s.bookings[i].dur = r.bookings[i].dur
  PROVE  NoLonger(r, s)
<1> DEFINE q == r.bookings
           w == s.bookings
           to == [i \in 1..Len(q) |-> i]
<1>1. OneBookingEach(q) /\ OneBookingEach(w)
  BY OrderlyOneEach
<1>2. ASSUME NEW u, Booked(q, u), Booked(w, u) PROVE InOrder(w, q, Position(w, u), 1, to)
  <2> HIDE DEF q, w
  <2>1. PICK k \in 1..Len(q) : q[k].user = u
    BY <1>2 DEF Booked
  <2>2. Len(q) \in Nat /\ Len(w) \in Nat
    BY <1>1, TimesAre
  <2>3. k \in 1..Len(w) /\ w[k].user = u
    BY <2>1, <2>2 DEF q, w
  <2>4. Position(w, u) = k
    BY <1>1, <1>2, <2>3, PlaceInLine
  <2>5. \A i \in 1..k : i \in 1..Len(q) /\ to[i] = i
    BY <2>1, <2>2
  <2>6. \A i \in 1..k : w[i].user = q[i].user /\ w[i].dur = q[i].dur
    BY <2>5 DEF q, w
  <2> HIDE DEF to
  <2>7. QED BY <2>2, <2>4, <2>5, <2>6 DEF InOrder
<1>3. HeldFor(r) \in Nat /\ HeldFor(s) \in Nat /\ HeldFor(s) <= HeldFor(r)
  BY HeldForLess
<1> HIDE DEF to
<1>4. \A u : Booked(r.bookings, u) /\ Booked(s.bookings, u) =>
           \E t : InOrder(s.bookings, r.bookings, Position(s.bookings, u), 1, t)
  BY <1>2
<1>5. QED BY <1>3, <1>4, LessAhead

\* What is left of a booking list without one of its users is in its order.
LEMMA WithoutInOrder ==
  ASSUME NEW q, OneBookingEach(q), NEW u
  PROVE  \E to : InOrder(WithoutBooking(q, u), q, Len(WithoutBooking(q, u)), 1, to)
<1> DEFINE w == WithoutBooking(q, u)
<1>1. Len(q) \in Nat /\ q \in Seq(Booking)
  BY TimesAre DEF OneBookingEach
<1>2. CASE ~ Booked(q, u)
  <2> DEFINE to == [i \in 1..Len(q) |-> i]
  <2>1. w = q
    BY <1>2 DEF WithoutBooking
  <2>2. InOrder(q, q, Len(q), 1, to)
    BY <1>1 DEF InOrder
  <2>3. QED BY <2>1, <2>2
<1>3. CASE Booked(q, u)
  <2> DEFINE p == Position(q, u)
             to == [i \in 1..Len(q) |-> IF i < p THEN i ELSE i + 1]
  <2>1. p \in 1..Len(q)
    BY <1>3, PlaceInLine
  <2>2. w = RemoveAt(q, p)
    BY <1>3 DEF WithoutBooking
  <2> HIDE DEF p, w
  <2>3. Len(w) = Len(q) - 1 /\ \A j \in 1..Len(q)-1 : w[j] = IF j < p THEN q[j] ELSE q[j+1]
    BY <1>1, <2>1, <2>2, RemoveAtProperty
  <2>4. \A i \in 1..Len(w) : to[i] \in 1..Len(q) /\ to[i] = (IF i < p THEN i ELSE i + 1)
    BY <1>1, <2>1, <2>3
  <2>5. \A i, j \in 1..Len(w) : i < j => to[i] < to[j]
    BY <1>1, <2>1, <2>3, <2>4
  <2> HIDE DEF to
  <2>6. \A i \in 1..Len(w) : w[i] = q[to[i]]
    BY <1>1, <2>3, <2>4
  <2>7. InOrder(w, q, Len(w), 1, to)
    BY <2>4, <2>5, <2>6 DEF InOrder
  <2>8. QED BY <2>7 DEF w
<1>4. QED BY <1>2, <1>3

\* Orders of a whole list are orders of its beginnings.
LEMMA OrderOfBeginning ==
  ASSUME NEW q, NEW w, OneBookingEach(w), NEW lo \in Nat, NEW to, InOrder(w, q, Len(w), lo, to),
         NEW u, Booked(w, u)
  PROVE  InOrder(w, q, Position(w, u), lo, to)
<1> DEFINE m == Position(w, u)
<1>1. m \in 1..Len(w) /\ Len(w) \in Nat
  BY PlaceInLine, TimesAre
<1> HIDE DEF m
<1>2. \A i \in 1..m : i \in 1..Len(w)
  BY <1>1
<1>3. InOrder(w, q, m, lo, to)
  BY <1>2 DEF InOrder
<1>4. QED BY <1>3 DEF m

LEMMA FewerBookings ==
  ASSUME NEW r, Orderly(r), NEW s, Orderly(s),
         \A h \in s.current : \E g \in r.current : g.user = h.user /\ h.left <= g.left,
         NEW to, InOrder(s.bookings, r.bookings, Len(s.bookings), 1, to)
  PROVE  NoLonger(r, s)
<1>1. OneBookingEach(s.bookings)
  BY OrderlyOneEach
<1>2. HeldFor(r) \in Nat /\ HeldFor(s) \in Nat /\ HeldFor(s) <= HeldFor(r)
  BY HeldForLess
<1>3. \A u : Booked(r.bookings, u) /\ Booked(s.bookings, u) =>
           \E t : InOrder(s.bookings, r.bookings, Position(s.bookings, u), 1, t)
  BY <1>1, OrderOfBeginning
<1>4. QED BY <1>2, <1>3, LessAhead

(***************************************************************************)
(* The head of the queue of an idle resource gets it for no more than it   *)
(* booked: those behind it waited for that time already.                   *)
(***************************************************************************)
LEMMA HeadGoesFirst ==
  ASSUME NEW r, Orderly(r), r.current = {}, NEW s, Orderly(s), r.bookings # << >>,
         HeldFor(s) \in Nat, HeldFor(s) <= r.bookings[1].dur,
         NEW to, InOrder(s.bookings, r.bookings, Len(s.bookings), 2, to)
  PROVE  NoLonger(r, s)
<1> DEFINE q == r.bookings
           w == s.bookings
<1>1. OneBookingEach(q) /\ OneBookingEach(w)
  BY OrderlyOneEach
<1> SUFFICES ASSUME NEW u, Booked(w, u) PROVE Wait(s, u) <= Wait(r, u)
  BY DEF NoLonger
<1>2. InOrder(w, q, Position(w, u), 2, to)
  BY <1>1, OrderOfBeginning
<1>w. Wait(r, u) = HeldFor(r) + SumFunctionOnSet(Times(q), 1 .. Position(q, u) - 1)
      /\ Wait(s, u) = HeldFor(s) + SumFunctionOnSet(Times(w), 1 .. Position(w, u) - 1)
  BY WaitIs
<1>3. HeldFor(r) = 0
  BY DEF HeldFor
<1>d. HeldFor(s) \in Nat /\ HeldFor(s) <= q[1].dur
  OBVIOUS
<1> HIDE DEF q, w
<1>4. /\ Booked(q, u) /\ 2 <= Position(q, u)
      /\ SumFunctionOnSet(Times(w), 1 .. Position(w, u) - 1) <= SumFunctionOnSet(Times(q), 2 .. Position(q, u) - 1)
  BY <1>1, <1>2, AheadShrinks
<1>5. /\ SumFunctionOnSet(Times(w), 1 .. Position(w, u) - 1) \in Nat
      /\ SumFunctionOnSet(Times(q), 2 .. Position(q, u) - 1) \in Nat
      /\ SumFunctionOnSet(Times(q), 1 .. Position(q, u) - 1) \in Nat
  BY <1>1, <1>4, AheadIsNat
<1> DEFINE p == Position(q, u)
           S == 1 .. p - 1
           f == Times(q)
<1>6. p \in 1..Len(q) /\ Len(q) \in Nat /\ 2 <= p
  BY <1>1, <1>4, PlaceInLine, TimesAre
<1>s. SumFunctionOnSet(f, 1 .. p - 1) \in Nat /\ SumFunctionOnSet(f, 2 .. p - 1) \in Nat
  BY <1>5
<1> HIDE DEF p
<1>7. 1 \in S /\ S \ {1} = 2 .. p - 1 /\ IsFiniteSet(S) /\ \A i \in S : i \in 1..Len(q)
  <2>1. p - 1 \in Int /\ 1 \in S /\ S \ {1} = 2 .. p - 1 /\ \A i \in S : i \in 1..Len(q)
    BY <1>6
  <2>2. IsFiniteSet(1 .. p - 1)
    BY <2>1, FS_Interval
  <2>3. QED BY <2>1, <2>2
<1>8. (\A i \in S : f[i] \in Int) /\ f[1] = q[1].dur /\ q[1].dur \in Nat
  BY <1>1, <1>7, TimesAre
<1> HIDE DEF S, f
<1>9. SumFunctionOnSet(f, S) = f[1] + SumFunctionOnSet(f, S \ {1})
  BY <1>7, <1>8, SumTakeOut
<1>10. SumFunctionOnSet(f, S) = q[1].dur + SumFunctionOnSet(f, 2 .. p - 1)
  BY <1>7, <1>8, <1>9
<1>11. SumFunctionOnSet(Times(q), 1 .. Position(q, u) - 1) = q[1].dur + SumFunctionOnSet(Times(q), 2 .. Position(q, u) - 1)
  BY <1>10 DEF S, f, p
<1>12. QED BY <1>w, <1>d, <1>3, <1>4, <1>5, <1>8, <1>11

-----------------------------------------------------------------------------
LEMMA SameNoLonger ==
  ASSUME NEW r, Orderly(r) PROVE NoLonger(r, r)
<1>1. /\ \A h \in r.current : h.left <= h.left
      /\ Len(r.bookings) \in Nat
  BY LineProperty, LenProperties DEF Orderly, Resource, Holding
<1>2. QED BY <1>1, SameBookings

LEMMA FreshNoLonger ==
  ASSUME NEW r PROVE NoLonger(r, Fresh)
BY EmptySeq DEF NoLonger, Fresh, Booked

LEMMA KeepNoLonger ==
  ASSUME NEW r, Orderly(r), NEW K \in SUBSET r.current, Orderly(Keep(r, K))
  PROVE  NoLonger(r, Keep(r, K))
<1> DEFINE s == Keep(r, K)
<1>1. r \in Resource
  BY DEF Orderly
<1>2. s.current = K /\ s.bookings = r.bookings
  BY <1>1 DEF Keep, Resource
<1>3. (\A h \in K : h.left <= h.left) /\ Len(r.bookings) \in Nat
  BY <1>1, LineProperty, LenProperties DEF Resource, Holding
<1> HIDE DEF s
<1>4. \A h \in s.current : \E g \in r.current : g.user = h.user /\ h.left <= g.left
  BY <1>2, <1>3
<1>5. Orderly(s) /\ Len(r.bookings) <= Len(s.bookings)
  BY <1>2, <1>3 DEF s
<1>6. NoLonger(r, s)
  BY <1>2, <1>4, <1>5, SameBookings
<1>7. QED BY <1>6 DEF s

LEMMA VacateNoLonger ==
  ASSUME NEW r, Orderly(r), NEW u
  PROVE  NoLonger(r, Vacate(r, u))
BY VacateOrderly, KeepNoLonger DEF Vacate

LEMMA LeftNoLonger ==
  ASSUME NEW r, Orderly(r), NEW u
  PROVE  NoLonger(r, Left(r, u))
<1> DEFINE w == WithoutBooking(r.bookings, u)
           s == Left(r, u)
<1>1. r \in Resource /\ Orderly(s)
  BY LeftOrderly DEF Orderly
<1>2. s.current = {h \in r.current : h.user # u} /\ s.bookings = w
  BY <1>1 DEF Left, Vacate, Keep, Resource
<1>3. \A h \in r.current : h.left <= h.left
  BY <1>1 DEF Resource, Holding
<1> HIDE DEF s
<1>4. \A h \in s.current : \E g \in r.current : g.user = h.user /\ h.left <= g.left
  BY <1>2, <1>3
<1>5. \E to : InOrder(w, r.bookings, Len(w), 1, to)
  BY OrderlyOneEach, WithoutInOrder
<1> HIDE DEF w
<1>6. PICK to : InOrder(s.bookings, r.bookings, Len(s.bookings), 1, to)
  BY <1>2, <1>5
<1>7. NoLonger(r, s)
  BY <1>1, <1>4, <1>6, FewerBookings
<1>8. QED BY <1>7 DEF s

\* A booking goes behind all others.
LEMMA BookNoLonger ==
  ASSUME NEW r, Orderly(r), NEW b \in Booking, NEW s, Orderly(s),
         s = [r EXCEPT !.bookings = Append(@, b)]
  PROVE  NoLonger(r, s)
<1> DEFINE q == r.bookings
           a == Append(q, b)
<1>1. r \in Resource /\ q \in Seq(Booking)
  BY LineProperty DEF Orderly
<1>2. s.current = r.current /\ s.bookings = a
  BY <1>1 DEF Resource
<1>3. /\ Len(a) = Len(q) + 1 /\ Len(q) \in Nat
      /\ \A i \in 1..Len(q) : a[i] = q[i]
  BY <1>1, AppendProperties, LenProperties
<1>4. \A h \in r.current : h.left <= h.left
  BY <1>1 DEF Resource, Holding
<1> HIDE DEF a
<1>5. Len(q) <= Len(s.bookings)
  BY <1>2, <1>3
<1>6. QED BY <1>2, <1>3, <1>4, <1>5, SameBookings

(***************************************************************************)
(* A claim or a take that precedence allows: of the head of the queue.     *)
(***************************************************************************)
LEMMA AllowedIsFirst ==
  ASSUME NEW r, Orderly(r), NEW u, MayLock(r, u), ~ Holds(r, u)
  PROVE  r.current = {} /\ (r.bookings = << >> \/ IsFirst(r.bookings, u))
BY LineProperty DEF MayLock

LEMMA NobodyWaits ==
  ASSUME NEW r, NEW s, r.bookings = << >> PROVE NoLonger(r, s)
BY EmptySeq DEF NoLonger, Booked

LEMMA FirstBooking ==
  ASSUME NEW q, OneBookingEach(q), NEW u, IsFirst(q, u)
  PROVE  /\ Booked(q, u) /\ BookingOf(q, u) = q[1] /\ q[1].dur \in Nat \ {0}
         /\ \E to : InOrder(WithoutBooking(q, u), q, Len(WithoutBooking(q, u)), 2, to)
<1> DEFINE w == WithoutBooking(q, u)
           to == [i \in 1..Len(w) |-> i + 1]
<1>1. Len(q) \in Nat /\ q # << >> /\ q[1].user = u /\ q \in Seq(Booking)
      /\ \A i, j \in 1..Len(q) : q[i].user = q[j].user => i = j
  BY TimesAre DEF OneBookingEach, IsFirst
<1>2. 1 \in 1..Len(q) /\ q[1] \in Booking
  BY <1>1, EmptySeq, ElementOfSeq
<1>3. Booked(q, u) /\ Position(q, u) = 1
  BY <1>1, <1>2, PlaceInLine DEF Booked
<1>4. /\ w \in Seq(Booking)
      /\ \A i \in 1..Len(w) : i + 1 \in 1..Len(q) /\ w[i] = q[i+1]
  BY <1>1, WithoutBookingProperty
<1> HIDE DEF w
<1>5. InOrder(w, q, Len(w), 2, to)
  <2>1. Len(w) \in Nat
    BY <1>4, LenProperties
  <2>2. \A i \in 1..Len(w) : to[i] = i + 1 /\ to[i] \in 2..Len(q) /\ w[i] = q[to[i]]
    BY <1>1, <1>4, <2>1
  <2> HIDE DEF to
  <2>3. QED BY <2>1, <2>2 DEF InOrder
<1>6. QED BY <1>2, <1>3, <1>5 DEF BookingOf, Booking, w

LEMMA LockedNoLonger ==
  ASSUME NEW r, Orderly(r), NEW u, NEW req \in Requests, Orderly(Locked(r, u, req)),
         MayLock(r, u), ~ Holds(r, u),
         Booked(r.bookings, u) => req <= BookingOf(r.bookings, u).dur
  PROVE  NoLonger(r, Locked(r, u, req))
<1> DEFINE q == r.bookings
           s == Locked(r, u, req)
           h == [user |-> u, left |-> LockedLeft(r, u, req), warned |-> FALSE]
<1>1. r.current = {} /\ (q = << >> \/ IsFirst(q, u))
  BY AllowedIsFirst
<1>2. CASE q = << >>
  BY <1>2, NobodyWaits
<1>3. CASE q # << >> /\ IsFirst(q, u)
  <2>1. /\ Booked(q, u) /\ BookingOf(q, u) = q[1] /\ q[1].dur \in Nat \ {0}
        /\ \E to : InOrder(WithoutBooking(q, u), q, Len(WithoutBooking(q, u)), 2, to)
    BY <1>3, OrderlyOneEach, FirstBooking
  <2>2. s.current = {h} /\ s.bookings = WithoutBooking(q, u) /\ Orderly(s)
    BY DEF Locked
  <2>3. h.left \in Int /\ h.left <= q[1].dur
    <3>1. req \in Nat /\ req <= q[1].dur
      BY <2>1, HoldingsAssumption DEF Requests, Omitted
    <3>2. Granted(r, u, req) = IF req = Omitted THEN q[1].dur ELSE req
      BY <2>1 DEF Granted, Requested
    <3>3. LeftOf(r, u) = 0
      BY DEF LeftOf
    <3>4. Granted(r, u, req) \in Int /\ Granted(r, u, req) <= q[1].dur
      BY <2>1, <3>1, <3>2
    <3>5. LockedLeft(r, u, req) = Granted(r, u, req)
      BY <3>3, <3>4 DEF LockedLeft
    <3>6. QED BY <3>4, <3>5
  <2> HIDE DEF s, h
  <2>4. HeldFor(s) = Remaining(h.left)
    BY <2>2 DEF HeldFor
  <2>5. HeldFor(s) \in Nat /\ HeldFor(s) <= q[1].dur
    BY <2>1, <2>3, <2>4 DEF Remaining
  <2>6. PICK to : InOrder(s.bookings, r.bookings, Len(s.bookings), 2, to)
    BY <2>1, <2>2
  <2>7. NoLonger(r, s)
    BY <1>1, <1>3, <2>2, <2>5, <2>6, HeadGoesFirst
  <2>8. QED BY <2>7 DEF s
<1>4. QED BY <1>1, <1>2, <1>3

LEMMA TakenNoLonger ==
  ASSUME NEW r, Orderly(r), NEW u, NEW req \in Requests, Orderly(Taken(r, u, req)),
         MayLock(r, u), ~ Holds(r, u),
         Booked(r.bookings, u) => Requested(req) <= BookingOf(r.bookings, u).dur
  PROVE  NoLonger(r, Taken(r, u, req))
<1> DEFINE q == r.bookings
           s == Taken(r, u, req)
           w == WithoutBooking(q, u)
           x == Unnotified(w)
           h == [user |-> u, left |-> Requested(req), warned |-> FALSE]
<1>1. r.current = {} /\ (q = << >> \/ IsFirst(q, u))
  BY AllowedIsFirst
<1>2. CASE q = << >>
  BY <1>2, NobodyWaits
<1>3. CASE q # << >> /\ IsFirst(q, u)
  <2>1. /\ Booked(q, u) /\ BookingOf(q, u) = q[1] /\ q[1].dur \in Nat \ {0}
        /\ \E to : InOrder(w, q, Len(w), 2, to)
    BY <1>3, OrderlyOneEach, FirstBooking
  <2>2. Requeued(r, u) = << >>
    BY <1>1 DEF Requeued, Preempted
  <2>w. w \in Seq(Booking)
    BY LineProperty, WithoutBookingProperty
  <2> HIDE DEF w
  <2>3. /\ Len(x) = Len(w) /\ x \in Seq(Booking)
        /\ \A i \in 1..Len(w) : x[i].user = w[i].user /\ x[i].dur = w[i].dur
    <3>1. (\A i \in 1..Len(w) : w[i] \in Booking) /\ Len(w) \in Nat
      BY <2>w, ElementOfSeq, LenProperties
    <3>2. \A i \in 1..Len(w) : /\ [w[i] EXCEPT !.waited = NotNotified] \in Booking
                               /\ [w[i] EXCEPT !.waited = NotNotified].user = w[i].user
                               /\ [w[i] EXCEPT !.waited = NotNotified].dur = w[i].dur
      BY <3>1, HoldingsAssumption DEF Booking, NotNotified
    <3>3. x = [i \in 1..Len(w) |-> [w[i] EXCEPT !.waited = NotNotified]]
      BY DEF Unnotified
    <3>4. Len(x) = Len(w)
      BY <3>1, <3>3
    <3>5. \A i \in 1..Len(w) : x[i] = [w[i] EXCEPT !.waited = NotNotified]
      BY <3>3
    <3> HIDE DEF x
    <3>6. x \in Seq(Booking)
      BY <3>1, <3>2, <3>3
    <3>7. QED BY <3>2, <3>4, <3>5, <3>6
  <2> HIDE DEF x
  <2>4. s.current = {h} /\ s.bookings = x /\ Orderly(s)
    <3>1. s.bookings = << >> \o x
      BY <2>2 DEF Taken, x, w
    <3>2. QED BY <2>3, <3>1 DEF Taken
  <2>5. h.left \in Int /\ h.left <= q[1].dur
    BY <2>1, RequestedType
  <2> HIDE DEF s, h
  <2>6. HeldFor(s) = Remaining(h.left)
    BY <2>4 DEF HeldFor
  <2>7. HeldFor(s) \in Nat /\ HeldFor(s) <= q[1].dur
    BY <2>1, <2>5, <2>6 DEF Remaining
  <2>8. PICK to : InOrder(w, q, Len(w), 2, to)
    BY <2>1
  <2>9. InOrder(s.bookings, r.bookings, Len(s.bookings), 2, to)
    BY <2>3, <2>4, <2>8 DEF InOrder
  <2>10. NoLonger(r, s)
    BY <1>1, <1>3, <2>4, <2>7, <2>9, HeadGoesFirst
  <2>11. QED BY <2>10 DEF s
<1>4. QED BY <1>1, <1>2, <1>3

(***************************************************************************)
(* The sweep, the clock and a restart.                                     *)
(***************************************************************************)
LEMMA SweptNoLonger ==
  ASSUME NEW r, Orderly(r)
  PROVE  NoLonger(r, Swept(r))
<1> DEFINE e == Expire(r)
           q == r.bookings
           s == Swept(r)
<1>1. Orderly(e) /\ Orderly(s) /\ r \in Resource /\ q \in Seq(Booking) /\ Len(q) \in Nat
  BY ExpireOrderly, SweptOrderly, LineProperty, LenProperties DEF Orderly
<1>2. e.bookings = q
  BY <1>1 DEF Expire, Keep, Resource
<1>3. \A h \in e.current : \E g \in r.current : g.user = h.user /\ h.left <= g.left
  BY <1>1 DEF Expire, Keep, Resource, Holding
<1> HIDE DEF e, q
<1>4. e \in Resource
  BY <1>1 DEF Orderly
<1>5. \/ s = e
      \/ s = [e EXCEPT !.bookings = NotifyHead(q)]
      \/ q # << >> /\ s = [e EXCEPT !.bookings = NotifyHead(Tail(q))]
  BY <1>2 DEF Swept, Advance, TimedOut, e
<1> HIDE DEF s
<1>6. s.current = e.current
  BY <1>4, <1>5 DEF Resource
<1>7. \/ s.bookings \in {q, NotifyHead(q)}
      \/ q # << >> /\ s.bookings = NotifyHead(Tail(q))
  <2>1. CASE s = e
    BY <1>2, <2>1
  <2>2. CASE s = [e EXCEPT !.bookings = NotifyHead(q)]
    BY <1>4, <2>2 DEF Resource
  <2>3. CASE q # << >> /\ s = [e EXCEPT !.bookings = NotifyHead(Tail(q))]
    BY <1>4, <2>3 DEF Resource
  <2>4. QED BY <1>5, <2>1, <2>2, <2>3
<1>8. \A h \in s.current : \E g \in r.current : g.user = h.user /\ h.left <= g.left
  BY ONLY <1>3, <1>6
<1>9. CASE s.bookings \in {q, NotifyHead(q)}
  <2>1. /\ Len(q) <= Len(s.bookings)
        /\ \A i \in 1..Len(q) : s.bookings[i].user = q[i].user /\ s.bookings[i].dur = q[i].dur
    BY <1>1, <1>9, NotifiedBookings
  <2>2. NoLonger(r, s)
    BY <1>1, <1>8, <2>1, SameBookings DEF q
  <2>3. QED BY <2>2 DEF s
<1>10. CASE q # << >> /\ s.bookings = NotifyHead(Tail(q))
  <2> DEFINE t == Tail(q)
             to == [i \in 1..Len(t) |-> i + 1]
  <2>1. /\ t \in Seq(Booking) /\ Len(t) = Len(q) - 1
        /\ \A i \in 1..Len(t) : t[i] = q[i+1]
    BY <1>1, <1>10, HeadTailProperties
  <2> HIDE DEF t
  <2>2. /\ Len(s.bookings) = Len(t)
        /\ \A i \in 1..Len(t) : s.bookings[i].user = t[i].user /\ s.bookings[i].dur = t[i].dur
    BY <1>10, <2>1, NotifiedBookings DEF t
  <2>3. \A i \in 1..Len(t) : to[i] = i + 1 /\ to[i] \in 1..Len(q) /\ t[i] = q[to[i]]
    BY <1>1, <2>1
  <2>4. \A i, j \in 1..Len(t) : i < j => to[i] < to[j]
    BY <1>1, <2>1, <2>3
  <2> HIDE DEF to
  <2>5. InOrder(s.bookings, q, Len(s.bookings), 1, to)
    BY <2>2, <2>3, <2>4 DEF InOrder
  <2>6. NoLonger(r, s)
    BY <1>1, <1>8, <2>5, FewerBookings DEF q
  <2>7. QED BY <2>6 DEF s
<1>11. QED BY <1>7, <1>9, <1>10

LEMMA OlderNoLonger ==
  ASSUME NEW r, Orderly(r)
  PROVE  NoLonger(r, Older(r))
<1> DEFINE s == Older(r)
           q == r.bookings
<1>1. Orderly(s) /\ r \in Resource /\ q \in Seq(Booking)
  BY OlderOrderly, LineProperty DEF Orderly
<1>2. \A h \in s.current : \E g \in r.current : g.user = h.user /\ h.left <= g.left
  <2>1. s.current = {OlderHolding(h) : h \in r.current}
    BY <1>1 DEF Older, Resource
  <2>2. \A h \in r.current : OlderHolding(h).user = h.user /\ OlderHolding(h).left <= h.left
    <3> SUFFICES ASSUME NEW h \in r.current
                 PROVE  OlderHolding(h).user = h.user /\ OlderHolding(h).left <= h.left
      OBVIOUS
    <3>1. h \in Holding
      BY <1>1 DEF Resource
    <3>2. QED BY <3>1 DEF OlderHolding, Holding
  <2> HIDE DEF s
  <2>3. QED BY <2>1, <2>2
<1>3. s.bookings = [i \in 1..Len(q) |-> OlderBooking(q[i])]
  BY <1>1 DEF Older, Resource
<1> HIDE DEF s
<1>4. Len(s.bookings) = Len(q) /\ Len(q) <= Len(s.bookings)
  BY <1>1, <1>3, LenProperties
<1>5. \A i \in 1..Len(q) : s.bookings[i].user = q[i].user /\ s.bookings[i].dur = q[i].dur
  <2>1. \A i \in 1..Len(q) : q[i] \in Booking
    BY <1>1, ElementOfSeq
  <2>2. QED BY <1>3, <2>1 DEF OlderBooking, Booking
<1>6. QED BY <1>1, <1>2, <1>4, <1>5, SameBookings DEF s

LEMMA ClampNoLonger ==
  ASSUME NEW r, Orderly(r), NEW max \in (Nat \ {0}) \cup {Unlimited}
  PROVE  NoLonger(r, Clamp(r, max))
<1> DEFINE s == Clamp(r, max)
           cut(h) == [h EXCEPT !.left =
                        IF WithinMax(h.user, Remaining(@), max) THEN @ ELSE max]
<1>1. Orderly(s) /\ r \in Resource
  BY ClampOrderly DEF Orderly, Unlimited
<1>2. s.current = {cut(h) : h \in r.current} /\ s.bookings = r.bookings
  BY <1>1 DEF Clamp, Resource
<1>3. \A h \in r.current : cut(h).user = h.user /\ cut(h).left <= h.left
  BY <1>1 DEF Resource, Holding, WithinMax, Remaining, Unlimited
<1> HIDE DEF s, cut
<1>4. \A h \in s.current : \E g \in r.current : g.user = h.user /\ h.left <= g.left
  BY <1>2, <1>3
<1>5. Len(r.bookings) <= Len(s.bookings)
  BY <1>2, LineProperty, LenProperties
<1>6. QED BY <1>1, <1>2, <1>4, <1>5, SameBookings DEF s

-----------------------------------------------------------------------------
\* Where nobody takes over, nobody waits longer.
NoneLonger(st, after) ==
  \A n \in Nodes : ~ TakenOver(st[n], after[n]) => NoLonger(st[n], after[n])

LEMMA UserDelaysNobody ==
  ASSUME IInv, IInv', ForbidRelock, NEW u \in Users, Command(u)
  PROVE  NoneLonger(state, state')
<1>1. \A n \in Nodes : Orderly(state[n]) /\ Orderly(state'[n]) /\ NoLonger(state[n], state[n])
  BY SameNoLonger DEF IInv, AllOrderly
<1>2. ASSUME NEW targets \in Targets, NEW req \in Requests, NEW limit \in Limits,
             Lock(u, targets, req, limit)
      PROVE  NoneLonger(state, state')
  <2>1. state' = Update(targets, LAMBDA r : Locked(r, u, req))
    BY <1>2 DEF Lock, Persist
  <2>2. \A n \in targets : /\ n \in Nodes /\ ~ Holds(state[n], u) /\ MayLock(state[n], u)
                           /\ Booked(state[n].bookings, u) =>
                                req <= BookingOf(state[n].bookings, u).dur
    BY <1>2 DEF Lock, Targets, PolicyAllows, NoRelock
  <2>3. \A n \in targets : state'[n] = Locked(state[n], u, req)
    BY <2>1, <2>2 DEF Update
  <2>4. \A n \in targets : NoLonger(state[n], state'[n])
    BY <1>1, <2>2, <2>3, LockedNoLonger
  <2>5. \A n \in Nodes \ targets : state'[n] = state[n]
    BY <2>1 DEF Update
  <2>6. QED BY <1>1, <2>4, <2>5 DEF NoneLonger
<1>3. ASSUME NEW targets \in Targets, NEW req \in Requests, NEW limit \in Limits,
             Book(u, targets, req, limit)
      PROVE  NoneLonger(state, state')
  <2> DEFINE b == BookingFor(u, req)
  <2>1. b \in Booking
    BY RequestedType, HoldingsAssumption DEF BookingFor, Booking, NotNotified
  <2>2. state' = Update(targets, LAMBDA r : [r EXCEPT !.bookings = Append(@, b)])
    BY <1>3 DEF Book, Persist
  <2> HIDE DEF b
  <2>3. \A n \in targets : n \in Nodes /\ state'[n] = [state[n] EXCEPT !.bookings = Append(@, b)]
    BY <2>2 DEF Update, Targets
  <2>4. ASSUME NEW n \in targets PROVE NoLonger(state[n], state'[n])
    <3>1. Orderly(state[n]) /\ Orderly(state'[n])
      BY <1>1, <2>3
    <3>2. state'[n] = [state[n] EXCEPT !.bookings = Append(@, b)]
      BY <2>3
    <3>3. QED BY ONLY <2>1, <3>1, <3>2, BookNoLonger
  <2>5. \A n \in Nodes \ targets : state'[n] = state[n]
    BY <2>2 DEF Update
  <2>6. QED BY <1>1, <2>4, <2>5 DEF NoneLonger
<1>4. ASSUME NEW targets \in Targets, NEW req \in Requests, Take(u, targets, req)
      PROVE  NoneLonger(state, state')
  <2>1. state' = Update(targets, LAMBDA r : Taken(r, u, req))
    BY <1>4 DEF Take, Persist
  <2>2. \A n \in targets : /\ n \in Nodes /\ ~ Holds(state[n], u)
                           /\ Booked(state[n].bookings, u) =>
                                Requested(req) <= BookingOf(state[n].bookings, u).dur
    BY <1>4 DEF Take, Targets, PolicyAllows, NoRelock
  <2>3. \A n \in targets : state'[n] = Taken(state[n], u, req)
    BY <2>1, <2>2 DEF Update
  <2>4. ASSUME NEW n \in targets, ~ TakenOver(state[n], state'[n])
        PROVE  NoLonger(state[n], state'[n])
    <3>1. Holds(Taken(state[n], u, req), u)
      BY DEF Taken, Holds
    <3>2. MayLock(state[n], u)
      BY <2>3, <2>4, <3>1 DEF TakenOver
    <3>3. QED BY <1>1, <2>2, <2>3, <3>2, TakenNoLonger
  <2>5. \A n \in Nodes \ targets : state'[n] = state[n]
    BY <2>1 DEF Update
  <2>6. QED BY <1>1, <2>4, <2>5 DEF NoneLonger
<1>5. ASSUME NEW targets \in Targets, Unlock(u, targets)
      PROVE  NoneLonger(state, state')
  <2>1. state' = Update(targets, LAMBDA r : Left(r, u))
    BY <1>5 DEF Unlock, Persist
  <2>2. \A n \in targets : NoLonger(state[n], Left(state[n], u))
    BY <1>1, LeftNoLonger DEF Targets
  <2>3. QED BY <1>1, <2>1, <2>2 DEF Update, NoneLonger
<1>6. ASSUME UnlockAll(u)
      PROVE  NoneLonger(state, state')
  <2>1. state' = Update(Nodes, LAMBDA r : Left(r, u))
    BY <1>6 DEF UnlockAll, Persist
  <2>2. \A n \in Nodes : NoLonger(state[n], Left(state[n], u))
    BY <1>1, LeftNoLonger
  <2>3. QED BY <1>1, <2>1, <2>2 DEF Update, NoneLonger
<1>7. QED BY <1>2, <1>3, <1>4, <1>5, <1>6 DEF Command

LEMMA OperatorDelaysNobody ==
  ASSUME IInv, Operator
  PROVE  NoneLonger(state, state')
<1>1. \A n \in Nodes : Orderly(state[n]) /\ NoLonger(state[n], state[n])
  BY SameNoLonger DEF IInv, AllOrderly
<1>2. ASSUME NEW targets \in Targets, Kickout(targets)
      PROVE  NoneLonger(state, state')
  <2>1. state' = Update(targets, LAMBDA r : Fresh)
    BY <1>2 DEF Kickout, Persist
  <2>2. \A n \in targets : NoLonger(state[n], Fresh)
    BY FreshNoLonger
  <2>3. QED BY <1>1, <2>1, <2>2 DEF Update, NoneLonger
<1>3. ASSUME NEW targets \in Targets, Kicklock(targets)
      PROVE  NoneLonger(state, state')
  <2>1. state' = Update(targets, LAMBDA r : Keep(r, {}))
    BY <1>3 DEF Kicklock, Persist
  <2>2. \A n \in targets : NoLonger(state[n], Keep(state[n], {}))
    BY <1>1, KeepOrderly, KeepNoLonger DEF Targets
  <2>3. QED BY <1>1, <2>1, <2>2 DEF Update, NoneLonger
<1>4. ASSUME NEW u \in Users, NEW targets \in Targets, Opkick(u, targets)
      PROVE  NoneLonger(state, state')
  <2>1. state' = Update(targets, LAMBDA r : Vacate(r, u))
    BY <1>4 DEF Opkick, Persist
  <2>2. \A n \in targets : NoLonger(state[n], Vacate(state[n], u))
    BY <1>1, VacateNoLonger DEF Targets
  <2>3. QED BY <1>1, <2>1, <2>2 DEF Update, NoneLonger
<1>5. QED BY <1>2, <1>3, <1>4 DEF Operator

LEMMA TimeDelaysNobody ==
  ASSUME IInv, saved, Sweep \/ Send \/ Tick \/ Restart
  PROVE  NoneLonger(state, state')
<1>1. \A n \in Nodes : Orderly(state[n])
  BY DEF IInv, AllOrderly
<1>2. CASE Sweep
  BY <1>1, <1>2, SweptNoLonger DEF Sweep, Persist, NoneLonger
<1>3. CASE Send
  BY <1>1, <1>3, SameNoLonger DEF Send, NoneLonger
<1>4. CASE Tick
  BY <1>1, <1>4, OlderNoLonger DEF Tick, NoneLonger
<1>5. CASE Restart
  <2>1. maxDur' \in (Nat \ {0}) \cup {Unlimited} /\ disk = state
    BY <1>5, BaseBotAssumption DEF Restart, IInv, Durable
  <2>2. state' = [n \in Nodes |-> Clamp(state[n], maxDur')]
    BY <1>5, <2>1 DEF Restart
  <2>3. QED BY <1>1, <2>1, <2>2, ClampNoLonger DEF NoneLonger
<1>6. QED BY <1>2, <1>3, <1>4, <1>5

(***************************************************************************)
(* With FORBID_RELOCK, and as long as the state file can be written, the   *)
(* wait _current_usage displays to somebody in the queue is put back by    *)
(* nothing but a take of that resource out of turn: claims, bookings,      *)
(* releases, kicks, the sweep, the clock and a restart leave it or shorten *)
(* it, however long the queue and whatever was booked (queue_bot.py:33-305,*)
(* 410-572, resource_policy.py:16-33).                                     *)
(***************************************************************************)
THEOREM OnlyTakesDelay ==
  ASSUME ~ SaveFaults
  PROVE  Spec => WaitOnlyGrowsByTake
<1> DEFINE A == \A n \in Nodes, u \in Users :
                  /\ ForbidRelock
                  /\ Booked(state[n].bookings, u)
                  /\ Booked(state'[n].bookings, u)
                  /\ ~ TakenOver(state[n], state'[n])
                  => Wait(state'[n], u) <= Wait(state[n], u)
<1>1. IInv /\ saved /\ IInv' /\ [Next]_vars => A
  <2> SUFFICES ASSUME IInv, saved, IInv', [Next]_vars, ForbidRelock PROVE A
    OBVIOUS
  <2>1. \A n \in Nodes : Orderly(state[n])
    BY DEF IInv, AllOrderly
  <2>2. NoneLonger(state, state')
    <3>1. CASE UNCHANGED vars
      BY <2>1, <3>1, SameNoLonger DEF vars, NoneLonger
    <3>2. CASE Next
      BY <3>2, UserDelaysNobody, OperatorDelaysNobody, TimeDelaysNobody DEF Next
    <3>3. QED BY <3>1, <3>2
  <2>3. QED BY <2>2 DEF NoneLonger, NoLonger
<1>2. IInv /\ saved /\ IInv' /\ [Next]_vars => [A]_vars
  BY <1>1
<1>3. QED BY <1>2, StaysSaved, PTL DEF Spec, WaitOnlyGrowsByTake

(***************************************************************************)
(* The two together: nobody gains time, neither with a resource nor at the *)
(* cost of the queue (queue_bot.py:33-305, resource_policy.py:16-33).      *)
(***************************************************************************)
THEOREM NobodyGains ==
  ASSUME ~ SaveFaults
  PROVE  Spec => NoGain
BY NobodyGainsTime, OnlyTakesDelay DEF NoGain

-----------------------------------------------------------------------------
(***************************************************************************)
(* Seats and turns.  s serves u if nobody but u has a seat in s that it    *)
(* had not in r, and nobody was given the turn.                            *)
(***************************************************************************)
Notified(r, u) ==
  \E i \in 1..Len(r.bookings) :
    r.bookings[i].user = u /\ r.bookings[i].waited # NotNotified

NoTurns(r, s) == \A v : Notified(s, v) => Notified(r, v)

NoNewSeats(r, s) == \A v : Entitled(s, v) => Entitled(r, v)

Serves(r, s, u) == \A v : v # u /\ Entitled(s, v) => Entitled(r, v)

\* Of a resource somebody has, nobody has the turn.
LEMMA NoTurnOfHeld ==
  ASSUME NEW r, Orderly(r), r.status # "idle", NEW u
  PROVE  ~ Notified(r, u)
BY DEF Orderly, HeadNotified, Notified

\* Fewer holders, and bookings that were there with nothing more said to them.
LEMMA FewerSeats ==
  ASSUME NEW r, NEW s,
         \A h \in s.current : \E g \in r.current : g.user = h.user,
         \A i \in 1..Len(s.bookings) : \E j \in 1..Len(r.bookings) :
           /\ r.bookings[j].user = s.bookings[i].user
           /\ s.bookings[i].waited # NotNotified => r.bookings[j].waited # NotNotified
  PROVE  NoNewSeats(r, s) /\ NoTurns(r, s)
BY DEF NoNewSeats, NoTurns, Entitled, Holds, Booked, Notified

LEMMA FreshSeats ==
  \A r : NoNewSeats(r, Fresh) /\ NoTurns(r, Fresh)
BY EmptySeq DEF NoNewSeats, NoTurns, Entitled, Holds, Booked, Notified, Fresh

LEMMA KeepSeats ==
  ASSUME NEW r, Orderly(r), NEW K \in SUBSET r.current
  PROVE  NoNewSeats(r, Keep(r, K)) /\ NoTurns(r, Keep(r, K))
<1>1. Keep(r, K).current = K /\ Keep(r, K).bookings = r.bookings
  BY DEF Keep, Orderly, Resource
<1>2. QED BY <1>1, FewerSeats

LEMMA VacateSeats ==
  ASSUME NEW r, Orderly(r), NEW u
  PROVE  NoNewSeats(r, Vacate(r, u)) /\ NoTurns(r, Vacate(r, u))
BY KeepSeats DEF Vacate

LEMMA LeftSeats ==
  ASSUME NEW r, Orderly(r), NEW u
  PROVE  NoNewSeats(r, Left(r, u)) /\ NoTurns(r, Left(r, u))
<1> DEFINE w == WithoutBooking(r.bookings, u)
<1>1. Left(r, u).current = {h \in r.current : h.user # u} /\ Left(r, u).bookings = w
  BY DEF Left, Vacate, Keep, Orderly, Resource
<1>2. \A i \in 1..Len(w) : \E j \in 1..Len(r.bookings) : w[i] = r.bookings[j]
  <2>1. PartOf(w, r.bookings)
    BY BookingsOf
  <2> HIDE DEF w
  <2>2. QED BY <2>1 DEF PartOf
<1> HIDE DEF w
<1> DEFINE s == Left(r, u)
<1>3. \A h \in s.current : \E g \in r.current : g.user = h.user
  BY <1>1
<1>4. \A i \in 1..Len(s.bookings) : \E j \in 1..Len(r.bookings) :
        /\ r.bookings[j].user = s.bookings[i].user
        /\ s.bookings[i].waited # NotNotified => r.bookings[j].waited # NotNotified
  <2>1. s.bookings = w
    BY <1>1
  <2>2. QED BY ONLY <2>1, <1>2
<1> HIDE DEF s
<1>5. NoNewSeats(r, s) /\ NoTurns(r, s)
  BY ONLY <1>3, <1>4, FewerSeats
<1>6. QED BY <1>5 DEF s

LEMMA OlderSeats ==
  ASSUME NEW r, Orderly(r)
  PROVE  NoNewSeats(r, Older(r)) /\ NoTurns(r, Older(r))
<1> DEFINE q == r.bookings
           s == Older(r)
<1>1. r \in Resource /\ q \in Seq(Booking)
  BY LineProperty DEF Orderly
<1>2. s.current = {OlderHolding(h) : h \in r.current}
  BY <1>1 DEF Older, Resource
<1>3. \A h \in r.current : OlderHolding(h).user = h.user
  BY <1>1 DEF OlderHolding, Resource, Holding
<1>4. s.bookings = [i \in 1..Len(q) |-> OlderBooking(q[i])]
  BY <1>1 DEF Older, Resource
<1>5. \A i \in 1..Len(q) :
        /\ OlderBooking(q[i]).user = q[i].user
        /\ OlderBooking(q[i]).waited # NotNotified => q[i].waited # NotNotified
  <2>1. \A i \in 1..Len(q) : q[i] \in Booking
    BY <1>1, ElementOfSeq
  <2>2. QED BY <2>1, HoldingsAssumption DEF OlderBooking, Booking, NotNotified
<1> HIDE DEF s, q
<1>6. Len(s.bookings) = Len(q) /\ \A i \in 1..Len(q) : s.bookings[i] = OlderBooking(q[i])
  BY <1>1, <1>4, LenProperties
<1>7. QED BY <1>2, <1>3, <1>5, <1>6, FewerSeats DEF s, q

LEMMA ClampSeats ==
  ASSUME NEW r, Orderly(r), NEW max
  PROVE  NoNewSeats(r, Clamp(r, max))
<1> DEFINE cut(h) == [h EXCEPT !.left =
                        IF WithinMax(h.user, Remaining(@), max) THEN @ ELSE max]
<1>1. Clamp(r, max).current = {cut(h) : h \in r.current} /\ Clamp(r, max).bookings = r.bookings
  BY DEF Clamp, Orderly, Resource
<1>2. \A h \in r.current : cut(h).user = h.user
  BY DEF Orderly, Resource, Holding
<1> HIDE DEF cut
<1>3. QED BY <1>1, <1>2 DEF NoNewSeats, Entitled, Holds, Booked

\* What gives u a seat gives nobody else one, and nobody the turn.
LEMMA LockedSeats ==
  ASSUME NEW r, Orderly(r), NEW u, NEW req, Orderly(Locked(r, u, req))
  PROVE  Serves(r, Locked(r, u, req), u) /\ NoTurns(r, Locked(r, u, req))
<1> DEFINE w == WithoutBooking(r.bookings, u)
           s == Locked(r, u, req)
<1>1. s.status = "exclusive" /\ s.bookings = w /\ \A h \in s.current : h.user = u
  BY DEF Locked
<1>2. NoTurns(r, s)
  BY <1>1, NoTurnOfHeld DEF NoTurns
<1>3. \A i \in 1..Len(w) : \E j \in 1..Len(r.bookings) : w[i] = r.bookings[j]
  <2>1. PartOf(w, r.bookings)
    BY BookingsOf
  <2> HIDE DEF w, s
  <2>2. QED BY <2>1 DEF PartOf
<1> HIDE DEF w, s
<1>4. Serves(r, s, u)
  BY <1>1, <1>3 DEF Serves, Entitled, Holds, Booked
<1>5. QED BY <1>2, <1>4 DEF s

LEMMA BookedSeats ==
  ASSUME NEW r, Orderly(r), NEW b \in Booking, b.waited = NotNotified
  PROVE  /\ Serves(r, [r EXCEPT !.bookings = Append(@, b)], b.user)
         /\ NoTurns(r, [r EXCEPT !.bookings = Append(@, b)])
<1> DEFINE q == r.bookings
           a == Append(q, b)
           s == [r EXCEPT !.bookings = a]
<1>1. r \in Resource /\ q \in Seq(Booking)
  BY LineProperty DEF Orderly
<1>2. s.current = r.current /\ s.bookings = a
  BY <1>1 DEF Resource
<1>3. /\ Len(a) = Len(q) + 1 /\ a[Len(q) + 1] = b
      /\ \A i \in 1..Len(q) : a[i] = q[i]
  BY <1>1, AppendProperties
<1>4. Len(q) \in Nat
  BY <1>1, LenProperties
<1> HIDE DEF a, s, q
<1>5. \A i \in 1..Len(a) : i \in 1..Len(q) \/ a[i] = b
  BY <1>3, <1>4
<1>6. Serves(r, s, b.user) /\ NoTurns(r, s)
  BY <1>2, <1>3, <1>5 DEF Serves, NoTurns, Entitled, Holds, Booked, Notified, q
<1>7. QED BY <1>6 DEF s, a, q

LEMMA TakenSeats ==
  ASSUME NEW r, Orderly(r), NEW u, NEW req, Orderly(Taken(r, u, req))
  PROVE  Serves(r, Taken(r, u, req), u) /\ NoTurns(r, Taken(r, u, req))
<1> DEFINE q == r.bookings
           w == WithoutBooking(q, u)
           f == Requeued(r, u)
           x == Unnotified(w)
           y == f \o x
           s == Taken(r, u, req)
<1>1. s.status = "exclusive" /\ s.bookings = y /\ \A h \in s.current : h.user = u
  BY DEF Taken
<1>2. NoTurns(r, s)
  BY <1>1, NoTurnOfHeld DEF NoTurns
<1>3. w \in Seq(Booking) /\ \A i \in 1..Len(w) : \E j \in 1..Len(q) : w[i] = q[j]
  <2>1. PartOf(w, q)
    BY BookingsOf
  <2> HIDE DEF w, q, s, f, x, y
  <2>2. QED BY <2>1 DEF PartOf
<1>4. f \in Seq(Booking) /\ \A i \in 1..Len(f) : Holds(r, f[i].user)
  BY RequeuedProperty
<1> HIDE DEF q, w, f, s
<1>5. /\ x \in Seq(Booking) /\ Len(x) = Len(w)
      /\ \A i \in 1..Len(w) : x[i].user = w[i].user
  <2>1. \A i \in 1..Len(w) : w[i] \in Booking
    BY <1>3, ElementOfSeq
  <2>2. x = [i \in 1..Len(w) |-> [w[i] EXCEPT !.waited = NotNotified]] /\ Len(w) \in Nat
    BY <1>3, LenProperties DEF Unnotified
  <2>3. Len(x) = Len(w)
    BY <2>2
  <2>4. x \in Seq(Booking)
    BY <1>3, UnnotifiedNames
  <2>5. QED BY <2>1, <2>2, <2>3, <2>4 DEF Booking
<1> HIDE DEF x
<1>6. /\ Len(y) = Len(f) + Len(x)
      /\ \A i \in 1..Len(f)+Len(x) : y[i] = IF i <= Len(f) THEN f[i] ELSE x[i - Len(f)]
  <2>1. f \in Seq(Booking) /\ x \in Seq(Booking)
    BY <1>4, <1>5
  <2>2. QED BY ONLY <2>1, ConcatProperties
<1>7. Len(f) \in Nat /\ Len(x) \in Nat
  BY <1>4, <1>5, LenProperties
<1> HIDE DEF y
<1>8. \A i \in 1..Len(y) : Entitled(r, y[i].user)
  <2> SUFFICES ASSUME NEW i \in 1..Len(y)
               PROVE  Entitled(r, y[i].user)
    OBVIOUS
  <2>1. CASE i <= Len(f)
    BY <1>4, <1>6, <1>7, <2>1 DEF Entitled
  <2>2. CASE ~ (i <= Len(f))
    <3>1. i - Len(f) \in 1..Len(w) /\ y[i] = x[i - Len(f)]
      BY <1>5, <1>6, <1>7, <2>2
    <3>2. Booked(q, y[i].user)
      BY <1>3, <1>5, <3>1 DEF Booked
    <3>3. QED BY <3>2 DEF Entitled, q
  <2>3. QED BY <2>1, <2>2
<1>9. Serves(r, s, u)
  BY <1>1, <1>8 DEF Serves, Entitled, Holds, Booked
<1>10. QED BY <1>2, <1>9 DEF s

\* The sweep gives the turn to the head it moves up or tells, and to nobody else.
Turned(r) == TimedOut(Expire(r)) \/ NeedsNotice(Expire(r))

LEMMA SweptSeats ==
  ASSUME NEW r, Orderly(r)
  PROVE  /\ NoNewSeats(r, Swept(r))
         /\ ~ Turned(r) => NoTurns(r, Swept(r))
         /\ \A u : Turned(r) /\ Notified(Swept(r), u) =>
              Swept(r).bookings # << >> /\ u = Swept(r).bookings[1].user
<1> DEFINE e == Expire(r)
           q == r.bookings
           s == Swept(r)
<1>1. Orderly(e) /\ Orderly(s) /\ r \in Resource /\ q \in Seq(Booking) /\ e \in Resource
  BY ExpireOrderly, SweptOrderly, LineProperty DEF Orderly
<1>2. e.bookings = q
  BY <1>1 DEF Expire, Keep, Resource
<1>3. \A h \in e.current : \E g \in r.current : g.user = h.user
  BY <1>1 DEF Expire, Keep, Resource, Holding
<1>4. ~ Turned(r) => s = e
  BY DEF Turned, Swept, Advance
<1>5. \/ s = e
      \/ s = [e EXCEPT !.bookings = NotifyHead(q)]
      \/ q # << >> /\ s = [e EXCEPT !.bookings = NotifyHead(Tail(q))]
  BY <1>2 DEF Swept, Advance, TimedOut
<1> HIDE DEF e, s, q
<1>6. s.current = e.current
  BY <1>1, <1>5 DEF Resource
<1>7. \A i \in 1..Len(s.bookings) : \E j \in 1..Len(q) : q[j].user = s.bookings[i].user
  <2>1. CASE s = e
    BY <1>2, <2>1
  <2>2. CASE s = [e EXCEPT !.bookings = NotifyHead(q)]
    <3>1. s.bookings = NotifyHead(q)
      BY <1>1, <2>2 DEF Resource
    <3>2. QED BY <1>1, <3>1, NotifiedBookings
  <2>3. CASE q # << >> /\ s = [e EXCEPT !.bookings = NotifyHead(Tail(q))]
    <3> DEFINE t == Tail(q)
    <3>1. /\ t \in Seq(Booking) /\ Len(t) = Len(q) - 1
          /\ \A i \in 1..Len(t) : t[i] = q[i+1]
      BY <1>1, <2>3, HeadTailProperties
    <3>2. s.bookings = NotifyHead(t)
      BY <1>1, <2>3 DEF Resource
    <3> HIDE DEF t
    <3>3. \A i \in 1..Len(t) : i + 1 \in 1..Len(q)
      BY <1>1, <3>1, LenProperties
    <3>4. QED BY <3>1, <3>2, <3>3, NotifiedBookings
  <2>4. QED BY <1>5, <2>1, <2>2, <2>3
<1>8. NoNewSeats(r, s)
  BY <1>3, <1>6, <1>7 DEF NoNewSeats, Entitled, Booked, Holds, q
<1>9. ~ Turned(r) => NoTurns(r, s)
  BY <1>2, <1>4 DEF NoTurns, Notified, q
<1>10. ASSUME NEW u, Notified(s, u)
       PROVE  s.bookings # << >> /\ u = s.bookings[1].user
  <2>1. PICK i \in 1..Len(s.bookings) : s.bookings[i].user = u /\ s.bookings[i].waited # NotNotified
    BY <1>10 DEF Notified
  <2>2. i = 1
    BY <1>1, <2>1 DEF Orderly, HeadNotified
  <2>3. s.bookings # << >>
    BY <2>1, EmptySeq
  <2>4. QED BY <2>1, <2>2, <2>3
<1>11. QED BY <1>8, <1>9, <1>10 DEF s

-----------------------------------------------------------------------------
(***************************************************************************)
(* The commands of users: seats only for themselves, and that within the   *)
(* policy.                                                                 *)
(***************************************************************************)
\* The policy let u have the seats it has got.
Permitted(u) ==
  \/ \A n \in Nodes : NoNewSeats(state[n], state'[n])
  \/ \E targets \in Targets :
       /\ WithinCap(state, u, targets)
       /\ \A n \in Nodes \ targets : state'[n] = state[n]

LEMMA UserSeats ==
  ASSUME IInv, NEW u \in Users, Command(u)
  PROVE  /\ \A n \in Nodes : Serves(state[n], state'[n], u)
         /\ \A n \in Nodes : NoTurns(state[n], state'[n])
         /\ Permitted(u)
         /\ sending' = sending
         /\ \A n \in Nodes : \A v : << "turn", n, v >> \in told => << "turn", n, v >> \in told'
<1> DEFINE Claim == /\ \A n \in Nodes : Serves(state[n], state'[n], u)
                    /\ \A n \in Nodes : NoTurns(state[n], state'[n])
                    /\ Permitted(u)
                    /\ sending' = sending
                    /\ \A n \in Nodes : \A v : << "turn", n, v >> \in told
                                             => << "turn", n, v >> \in told'
<1>1. \A n \in Nodes : Orderly(state[n])
  BY DEF IInv, AllOrderly
<1>2. \A n \in Nodes : Orderly(state'[n])
  BY UserInv DEF IInv, AllOrderly
<1>3. ASSUME NEW targets \in Targets, WithinCap(state, u, targets),
             \A n \in targets : /\ Serves(state[n], state'[n], u)
                                /\ NoTurns(state[n], state'[n]),
             \A n \in Nodes \ targets : state'[n] = state[n],
             sending' = sending, told' = told \/ told' = Renewed(u, targets)
      PROVE  Claim
  <2>1. \A n \in Nodes \ targets : /\ Serves(state[n], state'[n], u)
                                   /\ NoTurns(state[n], state'[n])
    BY <1>3 DEF Serves, NoTurns
  <2>2. Permitted(u)
    BY <1>3 DEF Permitted
  <2>3. QED BY <1>3, <2>1, <2>2 DEF Renewed
<1>4. ASSUME NEW targets \in SUBSET Nodes,
             state' = Update(targets, LAMBDA r : Left(r, u)),
             sending' = sending, told' = told
      PROVE  Claim
  <2>1. \A n \in Nodes : NoNewSeats(state[n], state'[n]) /\ NoTurns(state[n], state'[n])
    BY <1>1, <1>4, LeftSeats DEF Update, NoNewSeats, NoTurns
  <2>2. QED BY <1>4, <2>1 DEF Permitted, NoNewSeats, Serves
<1> HIDE DEF Claim
<1>5. ASSUME NEW targets \in Targets, NEW req \in Requests, NEW limit \in Limits,
             Lock(u, targets, req, limit)
      PROVE  Claim
  <2>1. state' = Update(targets, LAMBDA r : Locked(r, u, req))
    BY <1>5 DEF Lock, Persist
  <2>2. \A n \in targets : n \in Nodes /\ state'[n] = Locked(state[n], u, req)
    BY <2>1 DEF Update, Targets
  <2>3. \A n \in targets : Serves(state[n], state'[n], u) /\ NoTurns(state[n], state'[n])
    BY <1>1, <1>2, <2>2, LockedSeats
  <2>4. \A n \in Nodes \ targets : state'[n] = state[n]
    BY <2>1 DEF Update
  <2>5. QED BY <1>3, <1>5, <2>3, <2>4 DEF Lock, PolicyAllows
<1>6. ASSUME NEW targets \in Targets, NEW req \in Requests, NEW limit \in Limits,
             Book(u, targets, req, limit)
      PROVE  Claim
  <2> DEFINE b == BookingFor(u, req)
  <2>1. state' = Update(targets, LAMBDA r : [r EXCEPT !.bookings = Append(@, b)])
    BY <1>6 DEF Book, Persist
  <2>2. b \in Booking /\ b.user = u /\ b.waited = NotNotified
    BY RequestedType, HoldingsAssumption DEF BookingFor, Booking, NotNotified
  <2> HIDE DEF b
  <2>3. \A n \in targets :
          n \in Nodes /\ state'[n] = [state[n] EXCEPT !.bookings = Append(@, b)]
    BY <2>1 DEF Update, Targets
  <2>4. \A n \in targets :
          /\ Serves(state[n], [state[n] EXCEPT !.bookings = Append(@, b)], u)
          /\ NoTurns(state[n], [state[n] EXCEPT !.bookings = Append(@, b)])
    BY <1>1, <2>2, <2>3, BookedSeats
  <2>5. \A n \in Nodes \ targets : state'[n] = state[n]
    BY <2>1 DEF Update
  <2>6. \A n \in targets : Serves(state[n], state'[n], u) /\ NoTurns(state[n], state'[n])
    BY <2>3, <2>4
  <2>7. QED BY <1>3, <1>6, <2>5, <2>6 DEF Book, PolicyAllows
<1>7. ASSUME NEW targets \in Targets, NEW req \in Requests, Take(u, targets, req)
      PROVE  Claim
  <2>1. state' = Update(targets, LAMBDA r : Taken(r, u, req))
    BY <1>7 DEF Take, Persist
  <2>2. \A n \in targets : n \in Nodes /\ state'[n] = Taken(state[n], u, req)
    BY <2>1 DEF Update, Targets
  <2>3. \A n \in targets : Serves(state[n], state'[n], u) /\ NoTurns(state[n], state'[n])
    BY <1>1, <1>2, <2>2, TakenSeats
  <2>4. \A n \in Nodes \ targets : state'[n] = state[n]
    BY <2>1 DEF Update
  <2>5. QED BY <1>3, <1>7, <2>3, <2>4 DEF Take, PolicyAllows
<1>8. ASSUME NEW targets \in Targets, Unlock(u, targets)
      PROVE  Claim
  BY <1>4, <1>8 DEF Unlock, Persist, Targets
<1>9. ASSUME UnlockAll(u)
      PROVE  Claim
  BY <1>4, <1>9 DEF UnlockAll, Persist
<1>10. Claim
  BY <1>5, <1>6, <1>7, <1>8, <1>9 DEF Command
<1>11. QED BY <1>10 DEF Claim

LEMMA OperatorSeats ==
  ASSUME IInv, Operator
  PROVE  /\ \A n \in Nodes : NoNewSeats(state[n], state'[n]) /\ NoTurns(state[n], state'[n])
         /\ sending' = sending /\ told' = told
<1>1. \A n \in Nodes : Orderly(state[n])
  BY DEF IInv, AllOrderly
<1>2. \A n \in Nodes : NoNewSeats(state[n], state[n]) /\ NoTurns(state[n], state[n])
  BY DEF NoNewSeats, NoTurns
<1>3. ASSUME NEW targets \in Targets, Kickout(targets)
      PROVE  \A n \in Nodes : NoNewSeats(state[n], state'[n]) /\ NoTurns(state[n], state'[n])
  <2>1. state' = Update(targets, LAMBDA r : Fresh)
    BY <1>3 DEF Kickout, Persist
  <2>2. QED BY <1>2, <2>1, FreshSeats DEF Update
<1>4. ASSUME NEW targets \in Targets, Kicklock(targets)
      PROVE  \A n \in Nodes : NoNewSeats(state[n], state'[n]) /\ NoTurns(state[n], state'[n])
  <2>1. state' = Update(targets, LAMBDA r : Keep(r, {}))
    BY <1>4 DEF Kicklock, Persist
  <2>2. \A n \in Nodes : NoNewSeats(state[n], Keep(state[n], {})) /\ NoTurns(state[n], Keep(state[n], {}))
    BY <1>1, KeepSeats
  <2>3. QED BY <1>2, <2>1, <2>2 DEF Update
<1>5. ASSUME NEW u \in Users, NEW targets \in Targets, Opkick(u, targets)
      PROVE  \A n \in Nodes : NoNewSeats(state[n], state'[n]) /\ NoTurns(state[n], state'[n])
  <2>1. state' = Update(targets, LAMBDA r : Vacate(r, u))
    BY <1>5 DEF Opkick, Persist
  <2>2. QED BY <1>1, <1>2, <2>1, VacateSeats DEF Update
<1>6. sending' = sending /\ told' = told
  BY DEF Operator, Kickout, Kicklock, Opkick
<1>7. QED BY <1>3, <1>4, <1>5, <1>6 DEF Operator

-----------------------------------------------------------------------------
\* Whoever is marked as told it is its turn was told, or is in the message that
\* is under way.
TurnHeard ==
  \A n \in Nodes : \A u :
    Notified(state[n], u) => << "turn", n, u >> \in told \cup sending

LEMMA SweepHeard ==
  ASSUME IInv, Sweep, ~ SaveFaults, TurnHeard
  PROVE  TurnHeard'
<1> DEFINE swept == [n \in Nodes |-> Swept(state[n])]
<1>1. /\ sending = {} /\ sending' = Message(state, swept)
      /\ told' = told \ Turns(state, swept) /\ state' = swept
  BY DEF Sweep, Persist
<1> SUFFICES ASSUME NEW n \in Nodes, NEW u, Notified(state'[n], u)
             PROVE  << "turn", n, u >> \in told' \cup sending'
  BY DEF TurnHeard
<1>2. Orderly(state[n]) /\ swept[n] = Swept(state[n]) /\ Notified(Swept(state[n]), u)
  BY <1>1 DEF IInv, AllOrderly
<1> HIDE DEF swept
<1>3. CASE Turned(state[n])
  <2>1. swept[n].bookings # << >> /\ u = swept[n].bookings[1].user
    BY <1>2, <1>3, SweptSeats
  <2>2. << "turn", n, u >> \in Turns(state, swept)
    BY <1>3, <2>1 DEF Turns, Turned
  <2>3. QED BY <1>1, <2>2 DEF Message
<1>4. CASE ~ Turned(state[n])
  <2>1. Notified(state[n], u)
    BY <1>2, <1>4, SweptSeats DEF NoTurns
  <2>2. << "turn", n, u >> \in told
    BY <1>1, <2>1 DEF TurnHeard
  <2>3. << "turn", n, u >> \notin Turns(state, swept)
    BY <1>4 DEF Turns, Turned
  <2>4. QED BY <1>1, <2>2, <2>3
<1>5. QED BY <1>3, <1>4

(***************************************************************************)
(* As long as neither the file nor the platform fails and the process does *)
(* not restart, no head of a queue loses its turn without having been told *)
(* it had it, in whatever order commands and sweeps come: a take that      *)
(* withdraws the turn lets the next sweep announce it anew                 *)
(* (queue_bot.py:410-572).  The history must keep the notices the property *)
(* speaks of.                                                              *)
(***************************************************************************)
THEOREM NoTurnLostUnheard ==
  ASSUME ~ SaveFaults, ~ SendFaults, ~ Restarts, "turn" \in Tracked
  PROVE  Spec => []NoSilentTimeout
<1>1. Init => TurnHeard
  BY EmptySeq DEF Init, Fresh, TurnHeard, Notified
<1>2. IInv /\ TurnHeard /\ [Next]_vars => TurnHeard'
  <2> SUFFICES ASSUME IInv, TurnHeard, [Next]_vars PROVE TurnHeard'
    OBVIOUS
  <2>1. ASSUME NEW u \in Users, Command(u) PROVE TurnHeard'
    BY <2>1, UserSeats DEF TurnHeard, NoTurns
  <2>2. CASE Operator
    BY <2>2, OperatorSeats DEF TurnHeard, NoTurns
  <2>3. CASE Sweep
    BY <2>3, SweepHeard
  <2>4. CASE Send
    <3>1. state' = state /\ sending' = {} /\ told' = told \cup {m \in sending : m[1] \in Tracked}
      BY <2>4 DEF Send
    <3>2. QED BY <3>1 DEF TurnHeard
  <2>5. CASE Tick
    <3>1. told' = told /\ sending' = sending
      BY <2>5 DEF Tick
    <3>2. \A n \in Nodes : NoTurns(state[n], state'[n])
      BY <2>5, OlderSeats DEF Tick, IInv, AllOrderly
    <3>3. QED BY <3>1, <3>2 DEF TurnHeard, NoTurns
  <2>6. CASE UNCHANGED vars
    BY <2>6 DEF vars, TurnHeard
  <2>7. QED BY <2>1, <2>2, <2>3, <2>4, <2>5, <2>6 DEF Next, Restart
<1>3. IInv /\ TurnHeard => NoSilentTimeout
  <2> SUFFICES ASSUME IInv, TurnHeard, sending = {}, NEW n \in Nodes, TimedOut(state[n])
               PROVE  << "turn", n, state[n].bookings[1].user >> \in told
    BY DEF NoSilentTimeout
  <2> DEFINE q == state[n].bookings
  <2>1. q \in Seq(Booking) /\ q # << >> /\ q[1].waited >= ClaimWindow
    BY DEF IInv, AllOrderly, Resource, TimedOut
  <2> HIDE DEF q
  <2>2. 1 \in 1..Len(q)
    BY <2>1, EmptySeq
  <2>3. q[1].waited # NotNotified
    BY <2>1, HoldingsAssumption DEF NotNotified
  <2>4. Notified(state[n], q[1].user)
    BY <2>2, <2>3 DEF Notified, q
  <2>5. QED BY <2>4 DEF TurnHeard, q
<1>4. QED BY <1>1, <1>2, <1>3, SpecInv, PTL DEF Spec

-----------------------------------------------------------------------------
LEMMA ClaimIsSeat ==
  \A st, u : \A n \in Claims(st, u) : n \in Nodes /\ Entitled(st[n], u)
BY DEF Claims, Entitled, Holds, Booked

\* A seat u had not and the policy let it have leaves it within the cap.
LEMMA PermittedCap ==
  ASSUME IsFiniteSet(Nodes), NEW u, Permitted(u), Cap # Unlimited,
         NEW n \in Nodes, Entitled(state'[n], u), ~ Entitled(state[n], u)
  PROVE  Cardinality(Claims(state', u)) <= Cap
<1>1. PICK targets \in Targets :
        /\ WithinCap(state, u, targets)
        /\ \A m \in Nodes \ targets : state'[m] = state[m]
  BY DEF Permitted, NoNewSeats
<1>2. n \in targets /\ n \notin Claims(state, u)
  BY <1>1, ClaimIsSeat
<1>3. Cardinality(Claims(state, u) \cup targets) <= Cap
  BY <1>1, <1>2 DEF WithinCap
<1>4. Claims(state', u) \subseteq Claims(state, u) \cup targets
  BY <1>1 DEF Claims
<1>5. Claims(state, u) \cup targets \subseteq Nodes
  BY DEF Claims, Targets
<1>6. IsFiniteSet(Claims(state, u) \cup targets)
  BY <1>5, FS_Subset
<1>7. /\ IsFiniteSet(Claims(state', u))
      /\ Cardinality(Claims(state', u)) <= Cardinality(Claims(state, u) \cup targets)
  BY <1>4, <1>6, FS_Subset
<1>8. Cardinality(Claims(state', u)) \in Int /\ Cardinality(Claims(state, u) \cup targets) \in Int
  BY <1>6, <1>7, FS_CardinalityType
<1>9. QED BY <1>3, <1>7, <1>8, HoldingsAssumption

(***************************************************************************)
(* MAX_RESOURCES_PER_USER holds for every seat given by a lock, a booking  *)
(* or a take, however many resources the command names; nothing else ever  *)
(* gives anybody a seat (base_bot.py and resource_policy.py:36-60; a take  *)
(* books the preempted user, who had the lease already).  As long as the   *)
(* state file can be written: a restart from an older file brings back     *)
(* seats that were given up.                                               *)
(***************************************************************************)
THEOREM NewSeatsWithinCap ==
  ASSUME ~ SaveFaults, IsFiniteSet(Nodes)
  PROVE  Spec => CapOnNewSeats
<1> DEFINE A == \A u \in Users :
                  (\E n \in Nodes : Entitled(state'[n], u) /\ ~ Entitled(state[n], u))
                    => \/ Cap = Unlimited
                       \/ Cardinality(Claims(state', u)) <= Cap
<1>1. IInv /\ saved /\ [Next]_vars => A
  <2> SUFFICES ASSUME IInv, saved, [Next]_vars PROVE A
    OBVIOUS
  <2>1. ASSUME NEW v \in Users, Command(v) PROVE A
    <3>1. Permitted(v) /\ \A n \in Nodes : Serves(state[n], state'[n], v)
      BY <2>1, UserSeats
    <3> SUFFICES ASSUME NEW u \in Users, NEW n \in Nodes,
                        Entitled(state'[n], u), ~ Entitled(state[n], u), Cap # Unlimited
                 PROVE  Cardinality(Claims(state', u)) <= Cap
      OBVIOUS
    <3>2. u = v
      BY <3>1 DEF Serves
    <3>3. QED BY <3>1, <3>2, PermittedCap
  <2>2. ASSUME \A n \in Nodes : NoNewSeats(state[n], state'[n]) PROVE A
    BY <2>2 DEF NoNewSeats
  <2>3. \A n \in Nodes : Orderly(state[n])
    BY DEF IInv, AllOrderly
  <2> HIDE DEF A
  <2>4. CASE Operator
    BY <2>2, <2>4, OperatorSeats
  <2>5. CASE Sweep
    <3>1. \A n \in Nodes : state'[n] = Swept(state[n])
      BY <2>5 DEF Sweep, Persist
    <3>2. QED BY <2>2, <2>3, <3>1, SweptSeats
  <2>6. CASE Tick
    <3>1. \A n \in Nodes : state'[n] = Older(state[n])
      BY <2>6 DEF Tick
    <3>2. QED BY <2>2, <2>3, <3>1, OlderSeats
  <2>7. CASE Restart
    <3>1. \A n \in Nodes : state'[n] = Clamp(state[n], maxDur')
      BY <2>7 DEF Restart, IInv, Durable
    <3>2. QED BY <2>2, <2>3, <3>1, ClampSeats
  <2>8. CASE Send \/ UNCHANGED vars
    BY <2>2, <2>8 DEF Send, vars, NoNewSeats
  <2>9. QED BY <2>1, <2>4, <2>5, <2>6, <2>7, <2>8 DEF Next
<1>2. IInv /\ saved /\ [Next]_vars => [A]_vars
  BY <1>1
<1>3. QED BY <1>2, StaysSaved, PTL DEF Spec, CapOnNewSeats
=============================================================================
