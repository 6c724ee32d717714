-------------------------- MODULE DeviceBotProofs --------------------------
(***************************************************************************)
(* Theorems about DeviceBot and NodeBot, for every set of resources and    *)
(* users and every configuration.  Every step either shrinks a resource    *)
(* (somebody leaves, a lease ages, runs out or is cut) or is a lock or a   *)
(* shared lock of it; the lemmas of the first part show for each operator  *)
(* which of the two it is, and that it keeps the resource sound.           *)
(***************************************************************************)
EXTENDS DeviceBot, SequenceTheorems, TLAPS

Sound(r) == r \in Resource /\ ModeMatches(r)

AllSound(st) == st \in [Nodes -> Resource] /\ \A n \in Nodes : Sound(st[n])

(***************************************************************************)
(* The inductive invariant.  The file must be as sound as memory because a *)
(* restart copies it there; Durable and the last conjunct say that without *)
(* write faults a restart finds the state it left.                         *)
(***************************************************************************)
IInv ==
  /\ AllSound(state)
  /\ AllSound(disk)
  /\ saved \in BOOLEAN
  /\ Durable
  /\ SaveFaults \/ saved

\* What a step does to one resource, in memory.
Shrinks(r, s) ==
  Abstract!Leave(Owner(r), Sharers(r), Owner(s), Sharers(s))

Grants(r, s) ==
  \/ Abstract!Acquire(Owner(r), Sharers(r), Owner(s), Sharers(s))
  \/ Abstract!Share(Owner(r), Sharers(r), Owner(s), Sharers(s))

Moves(st, new) ==
  \A n \in Nodes : Shrinks(st[n], new[n]) \/ Grants(st[n], new[n])

-----------------------------------------------------------------------------
(***************************************************************************)
(* The operators on one resource.                                          *)
(***************************************************************************)
LEMMA ShrunkSound ==
  ASSUME NEW r, Sound(r), NEW s \in Resource,
         s.bookings = << >>,
         \A h \in s.current : Holds(r, h.user),
         \A h, k \in s.current : h.user = k.user => h = k,
         s.status = IF s.current = {} THEN "idle" ELSE r.status
  PROVE  Sound(s) /\ Shrinks(r, s)
<1>1. r.current = {} <=> r.status = "idle"
  BY DEF Sound, ModeMatches
<1>2. r.status = "exclusive" => \A h, k \in r.current : h = k
  BY DEF Sound, ModeMatches
<1>3. s.current # {} => r.current # {}
  BY DEF Holds
<1>4. s.status = "exclusive" => \A h, k \in s.current : h = k
  BY <1>2 DEF Holds
<1>5. Sound(s)
  BY <1>1, <1>3, <1>4 DEF Sound, ModeMatches
<1>6. Owner(s) \in {Owner(r), NoUser}
  <2>1. CASE s.status = "exclusive"
    <3>1. PICK h \in s.current : Owner(s) = h.user
      BY <2>1 DEF Owner
    <3>2. r.status = "exclusive"
      BY <2>1
    <3>3. PICK g \in r.current : g.user = h.user
      BY <3>1 DEF Holds
    <3>4. Owner(r) = g.user
      BY <1>2, <3>2, <3>3 DEF Owner
    <3>5. QED BY <3>1, <3>3, <3>4
  <2>2. CASE s.status # "exclusive"
    BY <2>2 DEF Owner
  <2>3. QED BY <2>1, <2>2
<1>7. Sharers(s) \subseteq Sharers(r)
  BY DEF Sharers, Holds
<1>8. QED BY <1>5, <1>6, <1>7 DEF Shrinks, Abstract!Leave

LEMMA UnchangedShrinks ==
  ASSUME NEW r
  PROVE  Shrinks(r, r)
BY DEF Shrinks, Abstract!Leave

LEMMA FreshSound ==
  Sound(Fresh) /\ \A r : Sound(r) => Shrinks(r, Fresh)
<1>1. Fresh \in Resource /\ Sound(Fresh)
  BY EmptySeq DEF Fresh, Resource, Sound, ModeMatches
<1>2. ASSUME NEW r, Sound(r) PROVE Shrinks(r, Fresh)
  BY <1>1, <1>2, ShrunkSound DEF Fresh
<1>3. QED BY <1>1, <1>2

\* Keep, for holdings that come from the resource's own.
LEMMA KeepSound ==
  ASSUME NEW r, Sound(r), NEW H \in SUBSET Holding,
         \A h \in H : Holds(r, h.user),
         \A h, k \in H : h.user = k.user => h = k
  PROVE  Sound(Keep(r, H)) /\ Shrinks(r, Keep(r, H))
<1>1. /\ Keep(r, H) \in Resource
      /\ Keep(r, H).current = H
      /\ Keep(r, H).bookings = << >>
      /\ Keep(r, H).status = IF H = {} THEN "idle" ELSE r.status
  BY DEF Keep, Sound, ModeMatches, Resource
<1>2. QED BY <1>1, ShrunkSound

LEMMA VacateSound ==
  ASSUME NEW r, Sound(r), NEW u
  PROVE  Sound(Vacate(r, u)) /\ Shrinks(r, Vacate(r, u))
<1> DEFINE H == {h \in r.current : h.user # u}
<1>1. /\ H \in SUBSET Holding
      /\ \A h \in H : Holds(r, h.user)
      /\ \A h, k \in H : h.user = k.user => h = k
  BY DEF Sound, Resource, ModeMatches, Holds
<1> HIDE DEF H
<1>2. Sound(Keep(r, H)) /\ Shrinks(r, Keep(r, H))
  BY <1>1, KeepSound
<1>3. QED BY <1>2 DEF Vacate, H

LEMMA LeftSound ==
  ASSUME NEW r, Sound(r), NEW u
  PROVE  Sound(Left(r, u)) /\ Shrinks(r, Left(r, u))
<1>1. r \in Resource /\ r.bookings = << >>
  BY DEF Sound, ModeMatches
<1>2. WithoutBooking(r.bookings, u) = << >>
  BY <1>1, EmptySeq, LenProperties DEF WithoutBooking, Booked
<1>3. [r EXCEPT !.bookings = WithoutBooking(@, u)] = r
  BY <1>1, <1>2 DEF Resource
<1>4. QED BY <1>3, VacateSound DEF Left

LEMMA ExpireSound ==
  ASSUME NEW r, Sound(r)
  PROVE  Sound(Expire(r)) /\ Shrinks(r, Expire(r))
<1> DEFINE marked(h) ==
             [h EXCEPT !.warned = @ \/ (EarlyNotify /\ h.left <= TimeAlert)]
           H == {marked(h) : h \in {g \in r.current : g.left > 0}}
<1>1. \A h \in r.current : marked(h) \in Holding /\ marked(h).user = h.user
  BY HoldingsAssumption DEF Sound, Resource, Holding
<1>2. Expire(r) = Keep(r, H)
  BY DEF Expire
<1>3. \A h, k \in r.current : h.user = k.user => h = k
  BY DEF Sound, ModeMatches
<1> HIDE DEF marked
<1>4. /\ H \in SUBSET Holding
      /\ \A h \in H : Holds(r, h.user)
      /\ \A h, k \in H : h.user = k.user => h = k
  BY <1>1, <1>3 DEF Holds
<1> HIDE DEF H
<1>5. QED BY <1>2, <1>4, KeepSound

\* Records of the same users: nobody came and nobody left.
LEMMA SameUsersSound ==
  ASSUME NEW r, Sound(r), NEW H \in SUBSET Holding,
         \A h \in H : Holds(r, h.user),
         \A h, k \in H : h.user = k.user => h = k,
         H = {} => r.current = {}
  PROVE  /\ Sound([r EXCEPT !.current = H])
         /\ Shrinks(r, [r EXCEPT !.current = H])
<1>1. [r EXCEPT !.current = H] = Keep(r, H)
  BY DEF Keep, Sound, ModeMatches, Resource
<1>2. QED BY <1>1, KeepSound

LEMMA OlderSound ==
  ASSUME NEW r, Sound(r)
  PROVE  Sound(Older(r)) /\ Shrinks(r, Older(r))
<1> DEFINE H == {OlderHolding(h) : h \in r.current}
           x == [i \in 1..Len(r.bookings) |-> OlderBooking(r.bookings[i])]
<1>1. \A h \in r.current : OlderHolding(h) \in Holding /\ OlderHolding(h).user = h.user
  BY HoldingsAssumption DEF Sound, Resource, Holding, OlderHolding
<1>2. /\ H \in SUBSET Holding
      /\ \A h \in H : Holds(r, h.user)
      /\ \A h, k \in H : h.user = k.user => h = k
      /\ H = {} => r.current = {}
  BY <1>1 DEF Sound, ModeMatches, Holds
<1>3. r \in Resource /\ r.bookings = << >>
  BY DEF Sound, ModeMatches
<1>4. x = << >>
  BY <1>3
<1>5. Older(r) = [r EXCEPT !.current = H, !.bookings = x]
  BY DEF Older
<1> HIDE DEF H, x
<1>6. Older(r) = [r EXCEPT !.current = H]
  BY <1>3, <1>4, <1>5 DEF Resource
<1>7. QED BY <1>2, <1>6, SameUsersSound

LEMMA ClampSound ==
  ASSUME NEW r, Sound(r), NEW max \in Int
  PROVE  Sound(Clamp(r, max)) /\ Shrinks(r, Clamp(r, max))
<1> DEFINE cut(h) == [h EXCEPT !.left =
                        IF WithinMax(h.user, Remaining(@), max) THEN @ ELSE max]
           H == {cut(h) : h \in r.current}
<1>1. \A h \in r.current : cut(h) \in Holding /\ cut(h).user = h.user
  BY DEF Sound, Resource, Holding
<1>2. Clamp(r, max) = [r EXCEPT !.current = H]
  BY DEF Clamp
<1>3. \A h, k \in r.current : h.user = k.user => h = k
  BY DEF Sound, ModeMatches
<1> HIDE DEF cut
<1>4. /\ H \in SUBSET Holding
      /\ \A h \in H : Holds(r, h.user)
      /\ \A h, k \in H : h.user = k.user => h = k
      /\ H = {} => r.current = {}
  BY <1>1, <1>3 DEF Holds
<1> HIDE DEF H
<1>5. QED BY <1>2, <1>4, SameUsersSound

-----------------------------------------------------------------------------
(***************************************************************************)
(* The two commands that put somebody on a resource.                       *)
(***************************************************************************)
LEMMA LeaseType ==
  ASSUME NEW r, Sound(r), NEW u \in Users, NEW req \in Requests
  PROVE  Lease(r, u, req) \in Holding /\ Lease(r, u, req).user = u
<1>1. Requested(req) \in Int
  BY HoldingsAssumption DEF Requests, Requested, Omitted
<1>2. LeftOf(r, u) \in Int
  <2>1. CASE Holds(r, u)
    <3>1. HoldingOf(r, u) \in r.current
      BY <2>1 DEF Holds, HoldingOf
    <3>2. HoldingOf(r, u) \in Holding
      BY <3>1 DEF Sound, Resource
    <3>3. QED BY <2>1, <3>2 DEF LeftOf, Holding
  <2>2. CASE ~ Holds(r, u)
    BY <2>2 DEF LeftOf
  <2>3. QED BY <2>1, <2>2
<1>3. LockedLeft(r, u, req) \in Int
  BY <1>1, <1>2 DEF LockedLeft
<1>4. QED BY <1>3 DEF Lease, Holding

LEMMA LockedSound ==
  ASSUME NEW r, Sound(r), NEW u \in Users, NEW req \in Requests, MayLock(r, u)
  PROVE  LET s == Locked(r, u, req)
         IN  Sound(s) /\ (Shrinks(r, s) \/ Grants(r, s))
<1> DEFINE s == Locked(r, u, req)
           lease == Lease(r, u, req)
<1>1. lease \in Holding /\ lease.user = u
  BY LeaseType
<1> HIDE DEF lease
<1>2. /\ s \in Resource
      /\ s.status = "exclusive"
      /\ s.current = {lease}
      /\ s.bookings = << >>
  BY <1>1 DEF Locked, lease, Sound, ModeMatches, Resource
<1> HIDE DEF s
<1>3. Sound(s)
  BY <1>2 DEF Sound, ModeMatches
<1>4. Owner(s) = u /\ Sharers(s) = {}
  BY <1>1, <1>2 DEF Owner, Sharers
<1>5. CASE r.status = "idle"
  <2>1. Owner(r) = NoUser /\ Sharers(r) = {}
    BY <1>5 DEF Owner, Sharers
  <2>2. Grants(r, s)
    BY <1>4, <2>1 DEF Grants, Abstract!Acquire
  <2>3. QED BY <1>3, <2>2 DEF s
<1>6. CASE Holds(r, u) /\ r.status = "exclusive"
  <2>1. Owner(r) = u
    BY <1>6 DEF Owner, Holds, Sound, ModeMatches
  <2>2. Shrinks(r, s)
    BY <1>4, <2>1 DEF Shrinks, Abstract!Leave
  <2>3. QED BY <1>3, <2>2 DEF s
<1>7. QED BY <1>5, <1>6 DEF MayLock

LEMMA SharedSound ==
  ASSUME NEW r, Sound(r), NEW u \in Users, NEW req \in Requests, MayShare(r)
  PROVE  LET s == Shared(r, u, req)
         IN  Sound(s) /\ Grants(r, s)
<1> DEFINE s == Shared(r, u, req)
           lease == Lease(r, u, req)
           others == {h \in r.current : h.user # u}
<1>1. lease \in Holding /\ lease.user = u
  BY LeaseType
<1> HIDE DEF lease
<1>2. r \in Resource /\ s = [r EXCEPT !.status = "shared", !.current = others \cup {lease}]
  BY DEF Shared, lease, Sound
<1>3. others \subseteq Holding
  BY DEF Sound, Resource
<1> HIDE DEF s, others
<1>4. /\ s \in Resource
      /\ s.status = "shared"
      /\ s.current = others \cup {lease}
      /\ s.bookings = r.bookings
  BY <1>1, <1>2, <1>3 DEF Resource
<1>5. \A h, k \in s.current : h.user = k.user => h = k
  BY <1>1, <1>4 DEF others, Sound, ModeMatches
<1>6. Sound(s)
  BY <1>4, <1>5 DEF Sound, ModeMatches
<1>7. r.status \in {"idle", "shared"}
  BY <1>2 DEF MayShare, Resource
<1>8. Sharers(r) = {h.user : h \in r.current}
  BY <1>7 DEF Sharers, Sound, ModeMatches
<1>9. Sharers(s) = Sharers(r) \cup {u}
  BY <1>1, <1>4, <1>8 DEF Sharers, others
<1>10. Owner(r) = NoUser /\ Owner(s) = NoUser
  BY <1>4, <1>7 DEF Owner
<1>11. QED BY <1>6, <1>9, <1>10 DEF Grants, Abstract!Share, s
-----------------------------------------------------------------------------
(***************************************************************************)
(* The steps.                                                              *)
(***************************************************************************)
LEMMA InitInv == Init => IInv
BY FreshSound DEF Init, AllSound, IInv, Durable, Sound

\* Every command and the sweep apply one operator to the resources they name.
LEMMA PersistInv ==
  ASSUME IInv, NEW new, AllSound(new), Moves(state, new), Persist(new)
  PROVE  IInv' /\ Moves(state, state')
BY DEF IInv, Persist, Durable, AllSound

LEMMA ShrinkingInv ==
  ASSUME IInv, NEW new,
         new \in [Nodes -> Resource],
         \A n \in Nodes : Sound(new[n]) /\ (Shrinks(state[n], new[n]) \/ Grants(state[n], new[n])),
         Persist(new)
  PROVE  IInv' /\ Moves(state, state')
<1>1. AllSound(new) /\ Moves(state, new)
  BY DEF AllSound, Moves
<1>2. QED BY <1>1, PersistInv

LEMMA UserInv ==
  ASSUME IInv, NEW u \in Users, Command(u)
  PROVE  IInv' /\ Moves(state, state')
<1>1. \A n \in Nodes : Sound(state[n]) /\ state[n] \in Resource
  BY DEF IInv, AllSound, Sound
<1>2. ASSUME NEW targets \in Targets, NEW req \in Requests, NEW limit \in Limits,
             Lock(u, targets, req, limit)
      PROVE  IInv' /\ Moves(state, state')
  <2> DEFINE new == Update(targets, LAMBDA r : Locked(r, u, req))
  <2>1. \A n \in targets : n \in Nodes /\ MayLock(state[n], u)
    BY <1>2 DEF Lock, Targets
  <2>2. \A n \in targets :
          LET s == Locked(state[n], u, req)
          IN  Sound(s) /\ (Shrinks(state[n], s) \/ Grants(state[n], s))
    BY <1>1, <2>1, LockedSound
  <2>3. \A n \in Nodes :
          Sound(new[n]) /\ (Shrinks(state[n], new[n]) \/ Grants(state[n], new[n]))
    BY <1>1, <2>2, UnchangedShrinks DEF Update
  <2>4. new \in [Nodes -> Resource]
    BY <2>3 DEF Update, Sound
  <2>5. Persist(new)
    BY <1>2 DEF Lock
  <2> HIDE DEF new
  <2>6. QED BY <2>3, <2>4, <2>5, ShrinkingInv
<1>3. ASSUME NEW targets \in Targets, NEW req \in Requests, NEW limit \in Limits,
             Slock(u, targets, req, limit)
      PROVE  IInv' /\ Moves(state, state')
  <2> DEFINE new == Update(targets, LAMBDA r : Shared(r, u, req))
  <2>1. \A n \in targets : n \in Nodes /\ MayShare(state[n])
    BY <1>3 DEF Slock, Targets
  <2>2. \A n \in targets :
          LET s == Shared(state[n], u, req) IN Sound(s) /\ Grants(state[n], s)
    BY <1>1, <2>1, SharedSound
  <2>3. \A n \in Nodes :
          Sound(new[n]) /\ (Shrinks(state[n], new[n]) \/ Grants(state[n], new[n]))
    BY <1>1, <2>2, UnchangedShrinks DEF Update
  <2>4. new \in [Nodes -> Resource]
    BY <2>3 DEF Update, Sound
  <2>5. Persist(new)
    BY <1>3 DEF Slock
  <2> HIDE DEF new
  <2>6. QED BY <2>3, <2>4, <2>5, ShrinkingInv
<1>4. ASSUME NEW targets \in SUBSET Nodes,
             Persist(Update(targets, LAMBDA r : Left(r, u)))
      PROVE  IInv' /\ Moves(state, state')
  <2> DEFINE new == Update(targets, LAMBDA r : Left(r, u))
  <2>1. \A n \in Nodes : Sound(new[n]) /\ Shrinks(state[n], new[n])
    BY <1>1, LeftSound, UnchangedShrinks DEF Update
  <2>2. new \in [Nodes -> Resource]
    BY <2>1 DEF Update, Sound
  <2>3. Persist(new)
    BY <1>4
  <2> HIDE DEF new
  <2>4. QED BY <2>1, <2>2, <2>3, ShrinkingInv
<1>5. ASSUME NEW targets \in Targets, Unlock(u, targets)
      PROVE  IInv' /\ Moves(state, state')
  BY <1>4, <1>5 DEF Unlock, Targets
<1>6. ASSUME UnlockAll(u)
      PROVE  IInv' /\ Moves(state, state')
  BY <1>4, <1>6 DEF UnlockAll
<1>7. QED BY <1>2, <1>3, <1>5, <1>6 DEF Command, Acquisition

LEMMA VacatingInv ==
  ASSUME IInv, NEW u, NEW targets \in SUBSET Nodes, NEW new,
         new = [n \in Nodes |-> IF n \in targets THEN Vacate(state[n], u) ELSE state[n]],
         Persist(new)
  PROVE  IInv' /\ Moves(state, state')
<1>1. \A n \in Nodes : Sound(state[n])
  BY DEF IInv, AllSound
<1>2. \A n \in Nodes : Sound(new[n]) /\ Shrinks(state[n], new[n])
  BY <1>1, VacateSound, UnchangedShrinks
<1>3. new \in [Nodes -> Resource]
  BY <1>2 DEF Sound
<1>4. QED BY <1>2, <1>3, ShrinkingInv

LEMMA FreeMachinesInv ==
  ASSUME IInv, NEW u \in Users, NEW list, FreeMachines(u, list)
  PROVE  IInv' /\ Moves(state, state')
<1> DEFINE targets == CardsOf(Named(list))
           new == [n \in Nodes |-> IF n \in targets THEN Vacate(state[n], u) ELSE state[n]]
<1>1. targets \subseteq Nodes
  BY DEF CardsOf
<1>2. Persist(new)
  BY DEF FreeMachines, Update
<1> HIDE DEF targets
<1>3. QED BY <1>1, <1>2, VacatingInv

LEMMA OperatorInv ==
  ASSUME IInv, Operator
  PROVE  IInv' /\ Moves(state, state')
<1>1. ASSUME NEW targets \in Targets, Kickout(targets)
      PROVE  IInv' /\ Moves(state, state')
  <2> DEFINE new == Update(targets, LAMBDA r : Fresh)
  <2>1. \A n \in Nodes : Sound(state[n])
    BY DEF IInv, AllSound
  <2>2. \A n \in Nodes : Sound(new[n]) /\ Shrinks(state[n], new[n])
    BY <2>1, FreshSound, UnchangedShrinks DEF Update
  <2>3. new \in [Nodes -> Resource]
    BY <2>2 DEF Update, Sound
  <2>4. Persist(new)
    BY <1>1 DEF Kickout
  <2> HIDE DEF new
  <2>5. QED BY <2>2, <2>3, <2>4, ShrinkingInv
<1>2. ASSUME NEW u \in Users, NEW targets \in Targets, Opkick(u, targets)
      PROVE  IInv' /\ Moves(state, state')
  <2> DEFINE new == [n \in Nodes |->
                       IF n \in targets THEN Vacate(state[n], u) ELSE state[n]]
  <2>1. Persist(new)
    BY <1>2 DEF Opkick, Update
  <2>2. targets \subseteq Nodes
    BY DEF Targets
  <2>3. QED BY <2>1, <2>2, VacatingInv
<1>3. QED BY <1>1, <1>2 DEF Operator

LEMMA SweepInv ==
  ASSUME IInv, Sweep
  PROVE  IInv' /\ Moves(state, state')
<1> DEFINE new == [n \in Nodes |-> Expire(state[n])]
<1>1. \A n \in Nodes : Sound(new[n]) /\ Shrinks(state[n], new[n])
  BY ExpireSound DEF IInv, AllSound
<1>2. new \in [Nodes -> Resource]
  BY <1>1 DEF Sound
<1>3. Persist(new)
  BY DEF Sweep
<1> HIDE DEF new
<1>4. QED BY <1>1, <1>2, <1>3, ShrinkingInv

\* The one step that needs the file to be the state: a restart.
LEMMA RestartInv ==
  ASSUME IInv, Restart
  PROVE  IInv' /\ (~ SaveFaults => Moves(state, state'))
<1> DEFINE new == [n \in Nodes |-> Clamp(disk[n], maxDur')]
<1>1. maxDur' \in Int
  BY BaseBotAssumption DEF Restart, Unlimited
<1>2. \A n \in Nodes : Sound(new[n]) /\ Shrinks(disk[n], new[n])
  BY <1>1, ClampSound DEF IInv, AllSound
<1>3. AllSound(new)
  BY <1>2 DEF AllSound, Sound
<1>4. state' = new /\ disk' = new /\ saved' = TRUE
  BY DEF Restart
<1> HIDE DEF new
<1>5. ~ SaveFaults => disk = state
  BY DEF IInv, Durable
<1>6. ~ SaveFaults => Moves(state, state')
  BY <1>2, <1>4, <1>5 DEF Moves
<1>7. QED BY <1>3, <1>4, <1>6 DEF IInv, AllSound, Durable

LEMMA EnvironmentInv ==
  ASSUME IInv, Environment
  PROVE  IInv' /\ (~ SaveFaults => Moves(state, state'))
<1>1. CASE Sweep
  BY <1>1, SweepInv
<1>2. CASE Send
  <2>1. state' = state /\ disk' = disk /\ saved' = saved
    BY <1>2 DEF Send
  <2>2. Moves(state, state')
    BY <2>1, UnchangedShrinks DEF Moves
  <2>3. QED BY <2>1, <2>2 DEF IInv, AllSound, Durable
<1>3. CASE Tick
  <2> DEFINE new == [n \in Nodes |-> Older(state[n])]
             file == [n \in Nodes |-> Older(disk[n])]
  <2>1. \A n \in Nodes : Sound(new[n]) /\ Shrinks(state[n], new[n]) /\ Sound(file[n])
    BY OlderSound DEF IInv, AllSound
  <2>2. AllSound(new) /\ AllSound(file)
    BY <2>1 DEF AllSound, Sound
  <2>3. state' = new /\ disk' = file /\ saved' = saved
    BY <1>3 DEF Tick
  <2>4. (state = disk) => new = file
    OBVIOUS
  <2> HIDE DEF new, file
  <2>5. Moves(state, state')
    BY <2>1, <2>3 DEF Moves
  <2>6. QED BY <2>2, <2>3, <2>4, <2>5 DEF IInv, AllSound, Durable
<1>4. CASE Restart
  BY <1>4, RestartInv
<1>5. QED BY <1>1, <1>2, <1>3, <1>4 DEF Environment

LEMMA NextInv ==
  ASSUME IInv, [DeviceNext]_vars
  PROVE  IInv' /\ (~ SaveFaults => Moves(state, state'))
<1>1. CASE \E u \in Users : Command(u)
  BY <1>1, UserInv
<1>2. CASE \E u \in Users, list \in MachineLists : FreeMachines(u, list)
  BY <1>2, FreeMachinesInv
<1>3. CASE Operator
  BY <1>3, OperatorInv
<1>4. CASE Environment
  BY <1>4, EnvironmentInv
<1>5. CASE UNCHANGED vars
  <2>1. Moves(state, state')
    BY <1>5, UnchangedShrinks DEF vars, Moves
  <2>2. QED BY <1>5, <2>1 DEF vars, IInv, AllSound, Durable
<1>6. QED BY <1>1, <1>2, <1>3, <1>4, <1>5 DEF DeviceNext

LEMMA SpecInv == DeviceSpec => []IInv
<1>1. IInv /\ [DeviceNext]_vars => IInv'
  BY NextInv
<1>2. QED BY InitInv, <1>1, PTL DEF DeviceSpec

-----------------------------------------------------------------------------
(***************************************************************************)
(* No sequence of locks, shared locks, renewals, releases, kicks, sweeps,  *)
(* failed saves and restarts lists a user twice on a resource, leaves two  *)
(* users on an exclusive one or a status that contradicts its users.       *)
(***************************************************************************)
THEOREM AlwaysModes == DeviceSpec => []Modes
<1>1. IInv => Modes
  BY DEF IInv, AllSound, Sound, Modes
<1>2. QED BY <1>1, SpecInv, PTL

(***************************************************************************)
(* As long as the state file can be written, the bot implements the        *)
(* shared/exclusive lock: no step, a restart under another maximum         *)
(* duration included, takes a resource from one mode to the other while    *)
(* somebody is on it.                                                      *)
(***************************************************************************)
THEOREM ImplementsSharedLock ==
  ASSUME ~ SaveFaults
  PROVE  DeviceSpec => SharedLock
<1>1. Init => Abstract!LockInit
  BY DEF Init, Fresh, Owner, Sharers, Abstract!LockInit
<1>2. Moves(state, state') => Abstract!LockNext
  BY DEF Moves, Shrinks, Grants, Abstract!LockNext
<1>3. IInv /\ [DeviceNext]_vars => [Abstract!LockNext]_(Abstract!lockvars)
  BY <1>2, NextInv
<1>4. QED BY <1>1, <1>3, SpecInv, PTL DEF DeviceSpec, SharedLock, Abstract!LockSpec

\* A bot without the machine lists is one that never uses them.
LEMMA NodeSpecIsDeviceSpec == Spec => DeviceSpec
<1>1. [Next]_vars => [DeviceNext]_vars
  BY DEF Next, DeviceNext
<1>2. QED BY <1>1, PTL DEF Spec, DeviceSpec

(***************************************************************************)
(* The same of a node bot.                                                 *)
(***************************************************************************)
THEOREM NodeAlwaysModes == Spec => []Modes
BY NodeSpecIsDeviceSpec, AlwaysModes, PTL

-----------------------------------------------------------------------------
(***************************************************************************)
(* What a warned lease tells.                                              *)
(***************************************************************************)

\* A mark is a mark of the lease as it is now.
Marked(r) ==
  \A h \in r.current : h.warned => EarlyNotify /\ h.left <= TimeAlert

\* A mark that s carries is one of r's, of a lease that was not extended since.
Inherits(r, s) ==
  \A h \in s.current :
    h.warned => \E g \in r.current : g.user = h.user /\ g.warned /\ h.left <= g.left

Forgets(s, u) == \A h \in s.current : h.warned => h.user # u

AllMarked(st) == \A n \in Nodes : Marked(st[n])

\* The inductive invariant of the marks; a restart takes those of the file.
MarksInv == IInv /\ AllMarked(state) /\ AllMarked(disk)

\* Whoever carries a mark was told so, or is in the message under way.
Heard ==
  \A n \in Nodes : \A h \in state[n].current :
    h.warned => << "ending", n, h.user >> \in told \cup sending

LEMMA InheritedMarks ==
  ASSUME NEW r, Sound(r), Marked(r), NEW s, Sound(s), Inherits(r, s)
  PROVE  Marked(s)
<1> SUFFICES ASSUME NEW h \in s.current, h.warned
             PROVE  EarlyNotify /\ h.left <= TimeAlert
  BY DEF Marked
<1>1. PICK g \in r.current : g.warned /\ h.left <= g.left
  BY DEF Inherits
<1>2. g.left \in Int /\ h.left \in Int /\ TimeAlert \in Int
  BY HoldingsAssumption DEF Sound, Resource, Holding
<1>3. QED BY <1>1, <1>2 DEF Marked

LEMMA SameInherits ==
  ASSUME NEW r, Sound(r)
  PROVE  Inherits(r, r)
BY DEF Inherits, Sound, Resource, Holding

LEMMA VacateInherits ==
  ASSUME NEW r, Sound(r), NEW u
  PROVE  Inherits(r, Vacate(r, u))
<1>1. Vacate(r, u).current = {h \in r.current : h.user # u}
  BY DEF Vacate, Keep, Sound, Resource
<1>2. \A h \in r.current : h.left \in Int
  BY DEF Sound, Resource, Holding
<1>3. QED BY <1>1, <1>2 DEF Inherits

LEMMA LeftInherits ==
  ASSUME NEW r, Sound(r), NEW u
  PROVE  Inherits(r, Left(r, u))
<1>1. r \in Resource /\ r.bookings = << >>
  BY DEF Sound, ModeMatches
<1>2. WithoutBooking(r.bookings, u) = << >>
  BY <1>1, EmptySeq, LenProperties DEF WithoutBooking, Booked
<1>3. [r EXCEPT !.bookings = WithoutBooking(@, u)] = r
  BY <1>1, <1>2 DEF Resource
<1>4. QED BY <1>3, VacateInherits DEF Left

LEMMA FreshInherits ==
  \A r : Inherits(r, Fresh)
BY DEF Inherits, Fresh

LEMMA OlderInherits ==
  ASSUME NEW r, Sound(r)
  PROVE  Inherits(r, Older(r))
<1>1. Older(r).current = {OlderHolding(h) : h \in r.current}
  BY DEF Older, Sound, Resource
<1>2. \A h \in r.current :
        /\ OlderHolding(h).user = h.user
        /\ OlderHolding(h).warned = h.warned
        /\ OlderHolding(h).left <= h.left
  BY HoldingsAssumption DEF OlderHolding, Sound, Resource, Holding
<1>3. QED BY <1>1, <1>2 DEF Inherits

LEMMA ClampInherits ==
  ASSUME NEW r, Sound(r), NEW max \in (Nat \ {0}) \cup {Unlimited}
  PROVE  Inherits(r, Clamp(r, max))
<1> DEFINE cut(h) ==
             [h EXCEPT !.left = IF WithinMax(h.user, Remaining(@), max) THEN @ ELSE max]
<1>1. Clamp(r, max).current = {cut(h) : h \in r.current}
  BY DEF Clamp, Sound, Resource
<1>2. \A h \in r.current :
        cut(h).user = h.user /\ cut(h).warned = h.warned /\ cut(h).left <= h.left
  BY DEF WithinMax, Remaining, Unlimited, Sound, Resource, Holding
<1> HIDE DEF cut
<1>3. QED BY <1>1, <1>2 DEF Inherits

\* A lock is a lease without a mark ...
LEMMA LockedForgets ==
  ASSUME NEW r, Sound(r), NEW u, NEW req
  PROVE  Inherits(r, Locked(r, u, req)) /\ Forgets(Locked(r, u, req), u)
<1>1. Locked(r, u, req).current = {Lease(r, u, req)}
  BY DEF Locked, Sound, Resource
<1>2. ~ Lease(r, u, req).warned
  BY DEF Lease
<1>3. QED BY <1>1, <1>2 DEF Inherits, Forgets

\* ... and a shared lock leaves the others theirs.
LEMMA SharedForgets ==
  ASSUME NEW r, Sound(r), NEW u, NEW req
  PROVE  Inherits(r, Shared(r, u, req)) /\ Forgets(Shared(r, u, req), u)
<1>1. Shared(r, u, req).current = {h \in r.current : h.user # u} \cup {Lease(r, u, req)}
  BY DEF Shared, Sound, Resource
<1>2. ~ Lease(r, u, req).warned
  BY DEF Lease
<1>3. \A h \in r.current : h.left \in Int
  BY DEF Sound, Resource, Holding
<1>4. QED BY <1>1, <1>2, <1>3 DEF Inherits, Forgets

\* What the sweep leaves and marks, and whom it names.
LEMMA ExpireMarks ==
  ASSUME NEW r, Sound(r), Marked(r)
  PROVE  /\ Marked(Expire(r))
         /\ \A h \in Expire(r).current :
              h.warned => \E g \in r.current : g.user = h.user /\ (g.warned \/ g.user \in Alerts(r))
<1> DEFINE marked(h) ==
             [h EXCEPT !.warned = @ \/ (EarlyNotify /\ h.left <= TimeAlert)]
<1>1. Expire(r).current = {marked(h) : h \in {g \in r.current : g.left > 0}}
  BY DEF Expire, Keep, Sound, Resource
<1>2. \A h \in r.current : /\ marked(h).user = h.user /\ marked(h).left = h.left
                           /\ marked(h).warned <=> (h.warned \/ (EarlyNotify /\ h.left <= TimeAlert))
  BY DEF Sound, Resource, Holding
<1> HIDE DEF marked
<1>3. ASSUME NEW h \in Expire(r).current, h.warned
      PROVE  EarlyNotify /\ h.left <= TimeAlert
  <2>1. PICK g \in r.current : h = marked(g)
    BY <1>1
  <2>2. h.left = g.left /\ (g.warned \/ (EarlyNotify /\ g.left <= TimeAlert))
    BY <1>2, <1>3, <2>1
  <2>3. QED BY <2>1, <2>2 DEF Marked
<1>4. ASSUME NEW h \in Expire(r).current, h.warned
      PROVE  \E g \in r.current : g.user = h.user /\ (g.warned \/ g.user \in Alerts(r))
  <2>1. PICK g \in r.current : h = marked(g)
    BY <1>1
  <2>2. g.warned \/ g.user \in Alerts(r)
    BY <1>2, <1>4, <2>1 DEF Alerts
  <2>3. QED BY <1>2, <2>1, <2>2
<1>5. QED BY <1>3, <1>4 DEF Marked

-----------------------------------------------------------------------------
\* A step that lets every resource inherit its marks, in memory and in the file.
LEMMA PersistMarks ==
  ASSUME MarksInv, IInv', NEW new, \A n \in Nodes : Marked(new[n]), Persist(new)
  PROVE  MarksInv'
BY DEF MarksInv, AllMarked, Persist

LEMMA InheritingMarks ==
  ASSUME MarksInv, IInv', NEW new, \A n \in Nodes : Inherits(state[n], new[n]), Persist(new)
  PROVE  MarksInv' /\ \A n \in Nodes : Inherits(state[n], state'[n])
<1>1. \A n \in Nodes : Sound(state[n]) /\ Marked(state[n])
  BY DEF MarksInv, IInv, AllSound, AllMarked
<1>2. state' = new
  BY DEF Persist
<1>3. \A n \in Nodes : Sound(new[n])
  BY <1>2 DEF IInv, AllSound
<1>4. \A n \in Nodes : Marked(new[n])
  BY <1>1, <1>3, InheritedMarks
<1>5. QED BY <1>2, <1>4, PersistMarks

\* A command of u that gives u a lease, and what it does to the history.
LEMMA HeardAfterLease ==
  ASSUME Heard, NEW u, NEW targets,
         \A n \in Nodes : Inherits(state[n], state'[n]),
         \A n \in targets : Forgets(state'[n], u),
         told' = Renewed(u, targets), sending' = sending
  PROVE  Heard'
<1> SUFFICES ASSUME NEW n \in Nodes, NEW h \in state'[n].current, h.warned
             PROVE  << "ending", n, h.user >> \in told' \cup sending'
  BY DEF Heard
<1>1. << "ending", n, h.user >> \in told \cup sending
  BY DEF Heard, Inherits
<1>2. << "ending", n, h.user >> \notin ({"ending"} \X targets \X {u})
  BY DEF Forgets
<1>3. QED BY <1>1, <1>2 DEF Renewed

LEMMA HeardAfterStep ==
  ASSUME Heard, \A n \in Nodes : Inherits(state[n], state'[n]),
         told' = told, sending' = sending
  PROVE  Heard'
BY DEF Heard, Inherits
-----------------------------------------------------------------------------
(***************************************************************************)
(* The steps, for the marks and what was heard of them.                    *)
(***************************************************************************)
LEMMA UserMarks ==
  ASSUME MarksInv, NEW u \in Users, Command(u)
  PROVE  MarksInv' /\ (Heard => Heard')
<1>1. IInv' /\ \A n \in Nodes : Sound(state[n])
  BY UserInv DEF MarksInv, IInv, AllSound
<1>2. ASSUME NEW targets \in Targets, NEW new, Persist(new),
             \A n \in Nodes : Inherits(state[n], new[n]),
             \A n \in targets : Forgets(new[n], u),
             told' = Renewed(u, targets), sending' = sending
      PROVE  MarksInv' /\ (Heard => Heard')
  <2>1. MarksInv' /\ \A n \in Nodes : Inherits(state[n], state'[n])
    BY <1>1, <1>2, InheritingMarks
  <2>2. state' = new
    BY <1>2 DEF Persist
  <2>3. QED BY <1>2, <2>1, <2>2, HeardAfterLease
<1>3. ASSUME NEW targets \in Targets, NEW req \in Requests, NEW limit \in Limits,
             Lock(u, targets, req, limit)
      PROVE  MarksInv' /\ (Heard => Heard')
  <2> DEFINE new == Update(targets, LAMBDA r : Locked(r, u, req))
  <2>1. \A n \in Nodes : Inherits(state[n], new[n])
    BY <1>1, LockedForgets, SameInherits DEF Update
  <2>2. \A n \in targets : Forgets(new[n], u)
    BY <1>1, LockedForgets DEF Update, Targets
  <2>3. Persist(new) /\ told' = Renewed(u, targets) /\ sending' = sending
    BY <1>3 DEF Lock
  <2> HIDE DEF new
  <2>4. QED BY <1>2, <2>1, <2>2, <2>3
<1>4. ASSUME NEW targets \in Targets, NEW req \in Requests, NEW limit \in Limits,
             Slock(u, targets, req, limit)
      PROVE  MarksInv' /\ (Heard => Heard')
  <2> DEFINE new == Update(targets, LAMBDA r : Shared(r, u, req))
  <2>1. \A n \in Nodes : Inherits(state[n], new[n])
    BY <1>1, SharedForgets, SameInherits DEF Update
  <2>2. \A n \in targets : Forgets(new[n], u)
    BY <1>1, SharedForgets DEF Update, Targets
  <2>3. Persist(new) /\ told' = Renewed(u, targets) /\ sending' = sending
    BY <1>4 DEF Slock
  <2> HIDE DEF new
  <2>4. QED BY <1>2, <2>1, <2>2, <2>3
<1>5. ASSUME NEW targets, Persist(Update(targets, LAMBDA r : Left(r, u))),
             told' = told, sending' = sending
      PROVE  MarksInv' /\ (Heard => Heard')
  <2> DEFINE new == Update(targets, LAMBDA r : Left(r, u))
  <2>1. \A n \in Nodes : Inherits(state[n], new[n])
    BY <1>1, LeftInherits, SameInherits DEF Update
  <2>2. Persist(new)
    BY <1>5
  <2> HIDE DEF new
  <2>3. QED BY <1>1, <1>5, <2>1, <2>2, InheritingMarks, HeardAfterStep
<1>6. ASSUME NEW targets \in Targets, Unlock(u, targets)
      PROVE  MarksInv' /\ (Heard => Heard')
  BY <1>5, <1>6 DEF Unlock
<1>7. ASSUME UnlockAll(u)
      PROVE  MarksInv' /\ (Heard => Heard')
  BY <1>5, <1>7 DEF UnlockAll
<1>8. QED BY <1>3, <1>4, <1>6, <1>7 DEF Command, Acquisition

\* Frees and kicks only take leases away.
LEMMA RemovalMarks ==
  ASSUME MarksInv, Operator \/ \E u \in Users, list \in MachineLists : FreeMachines(u, list)
  PROVE  MarksInv' /\ (Heard => Heard')
<1>1. IInv' /\ \A n \in Nodes : Sound(state[n])
  BY OperatorInv, FreeMachinesInv DEF MarksInv, IInv, AllSound
<1>2. ASSUME NEW new, Persist(new), \A n \in Nodes : Inherits(state[n], new[n]),
             told' = told, sending' = sending
      PROVE  MarksInv' /\ (Heard => Heard')
  BY <1>1, <1>2, InheritingMarks, HeardAfterStep
<1>3. ASSUME NEW targets \in Targets, Kickout(targets)
      PROVE  MarksInv' /\ (Heard => Heard')
  <2> DEFINE new == Update(targets, LAMBDA r : Fresh)
  <2>1. \A n \in Nodes : Inherits(state[n], new[n])
    BY <1>1, FreshInherits, SameInherits DEF Update
  <2>2. Persist(new) /\ told' = told /\ sending' = sending
    BY <1>3 DEF Kickout
  <2> HIDE DEF new
  <2>3. QED BY <1>2, <2>1, <2>2
<1>4. ASSUME NEW u \in Users, NEW targets \in Targets, Opkick(u, targets)
      PROVE  MarksInv' /\ (Heard => Heard')
  <2> DEFINE new == Update(targets, LAMBDA r : Vacate(r, u))
  <2>1. \A n \in Nodes : Inherits(state[n], new[n])
    BY <1>1, VacateInherits, SameInherits DEF Update
  <2>2. Persist(new) /\ told' = told /\ sending' = sending
    BY <1>4 DEF Opkick
  <2> HIDE DEF new
  <2>3. QED BY <1>2, <2>1, <2>2
<1>5. ASSUME NEW u \in Users, NEW list \in MachineLists, FreeMachines(u, list)
      PROVE  MarksInv' /\ (Heard => Heard')
  <2> DEFINE new == Update(CardsOf(Named(list)), LAMBDA r : Vacate(r, u))
  <2>1. \A n \in Nodes : Inherits(state[n], new[n])
    BY <1>1, VacateInherits, SameInherits DEF Update
  <2>2. Persist(new) /\ told' = told /\ sending' = sending
    BY <1>5 DEF FreeMachines
  <2> HIDE DEF new
  <2>3. QED BY <1>2, <2>1, <2>2
<1>6. QED BY <1>3, <1>4, <1>5 DEF Operator

\* The sweep marks a lease and names its user in the same message.
LEMMA SweepMarks ==
  ASSUME MarksInv, Sweep
  PROVE  MarksInv' /\ (~ SaveFaults /\ Heard => Heard')
<1> DEFINE new == [n \in Nodes |-> Expire(state[n])]
<1>1. IInv' /\ Persist(new) /\ told' = told /\ sending = {}
  BY SweepInv DEF MarksInv, Sweep
<1>2. \A n \in Nodes : Sound(state[n]) /\ Marked(state[n])
  BY DEF MarksInv, IInv, AllSound, AllMarked
<1>3. \A n \in Nodes :
        /\ Marked(new[n])
        /\ \A h \in new[n].current :
             h.warned => \E g \in state[n].current :
                           g.user = h.user /\ (g.warned \/ g.user \in Alerts(state[n]))
  BY <1>2, ExpireMarks
<1>4. ~ SaveFaults => sending' = Endings(state)
  BY DEF Sweep, Persist
<1>5. state' = new
  BY <1>1 DEF Persist
<1> HIDE DEF new
<1>6. MarksInv'
  BY <1>1, <1>3, PersistMarks
<1>7. ASSUME ~ SaveFaults, Heard, NEW n \in Nodes, NEW h \in state'[n].current, h.warned
      PROVE  << "ending", n, h.user >> \in told' \cup sending'
  <2>1. PICK g \in state[n].current :
          g.user = h.user /\ (g.warned \/ g.user \in Alerts(state[n]))
    BY <1>3, <1>5, <1>7
  <2>2. CASE g.warned
    BY <1>1, <1>7, <2>1, <2>2 DEF Heard
  <2>3. CASE g.user \in Alerts(state[n])
    BY <1>4, <1>7, <2>1, <2>3 DEF Endings
  <2>4. QED BY <2>1, <2>2, <2>3
<1>8. QED BY <1>6, <1>7 DEF Heard

LEMMA EnvironmentMarks ==
  ASSUME MarksInv, Environment
  PROVE  /\ MarksInv'
         /\ ~ SaveFaults /\ ~ SendFaults /\ ~ Restarts /\ "ending" \in Tracked /\ Heard => Heard'
<1>1. IInv' /\ \A n \in Nodes : /\ Sound(state[n]) /\ Marked(state[n])
                                /\ Sound(disk[n]) /\ Marked(disk[n])
  BY EnvironmentInv DEF MarksInv, IInv, AllSound, AllMarked
<1>2. CASE Sweep
  BY <1>2, SweepMarks
<1>3. CASE Send
  <2>1. state' = state /\ disk' = disk
    BY <1>3 DEF Send
  <2>2. MarksInv'
    BY <1>1, <2>1 DEF MarksInv, AllMarked
  <2>3. ASSUME ~ SendFaults, "ending" \in Tracked, Heard,
               NEW n \in Nodes, NEW h \in state[n].current, h.warned
        PROVE  << "ending", n, h.user >> \in told' \cup sending'
    BY <1>3, <2>3 DEF Send, Heard
  <2>4. QED BY <2>1, <2>2, <2>3 DEF Heard
<1>4. CASE Tick
  <2>1. \A n \in Nodes : /\ Inherits(state[n], state'[n])
                         /\ Inherits(disk[n], disk'[n])
    BY <1>1, <1>4, OlderInherits DEF Tick
  <2>2. \A n \in Nodes : Sound(state'[n]) /\ Sound(disk'[n])
    BY <1>1 DEF IInv, AllSound
  <2>3. \A n \in Nodes : Marked(state'[n]) /\ Marked(disk'[n])
    BY <1>1, <2>1, <2>2, InheritedMarks
  <2>4. told' = told /\ sending' = sending
    BY <1>4 DEF Tick
  <2>5. QED BY <1>1, <2>1, <2>3, <2>4, HeardAfterStep DEF MarksInv, AllMarked
<1>5. CASE Restart
  <2>1. maxDur' \in (Nat \ {0}) \cup {Unlimited}
    BY <1>5, BaseBotAssumption DEF Restart
  <2>2. \A n \in Nodes : state'[n] = Clamp(disk[n], maxDur') /\ disk'[n] = state'[n]
    BY <1>5 DEF Restart
  <2>3. \A n \in Nodes : Inherits(disk[n], state'[n])
    BY <1>1, <2>1, <2>2, ClampInherits
  <2>4. \A n \in Nodes : Sound(state'[n])
    BY <1>1 DEF IInv, AllSound
  <2>5. \A n \in Nodes : Marked(state'[n])
    BY <1>1, <2>3, <2>4, InheritedMarks
  <2>6. Restarts
    BY <1>5 DEF Restart
  <2>7. QED BY <1>1, <2>2, <2>5, <2>6 DEF MarksInv, AllMarked
<1>6. QED BY <1>2, <1>3, <1>4, <1>5 DEF Environment

LEMMA NextMarks ==
  ASSUME MarksInv, [DeviceNext]_vars
  PROVE  /\ MarksInv'
         /\ ~ SaveFaults /\ ~ SendFaults /\ ~ Restarts /\ "ending" \in Tracked /\ Heard => Heard'
<1>1. CASE \E u \in Users : Command(u)
  BY <1>1, UserMarks
<1>2. CASE Operator \/ \E u \in Users, list \in MachineLists : FreeMachines(u, list)
  BY <1>2, RemovalMarks
<1>3. CASE Environment
  BY <1>3, EnvironmentMarks
<1>4. CASE UNCHANGED vars
  BY <1>4 DEF vars, MarksInv, IInv, AllSound, Durable, AllMarked, Heard
<1>5. QED BY <1>1, <1>2, <1>3, <1>4 DEF DeviceNext

LEMMA InitMarks == Init => MarksInv /\ Heard
<1>1. Init => IInv
  BY InitInv
<1>2. Init => \A n \in Nodes : state[n].current = {} /\ disk[n].current = {}
  BY DEF Init, Fresh
<1>3. QED BY <1>1, <1>2 DEF MarksInv, AllMarked, Marked, Heard

LEMMA SpecMarks == DeviceSpec => []MarksInv
<1>1. MarksInv /\ [DeviceNext]_vars => MarksInv'
  BY NextMarks
<1>2. QED BY InitMarks, <1>1, PTL DEF DeviceSpec

(***************************************************************************)
(* With failing writes, failing sends, crashes and restarts under another  *)
(* maximum: a mark that would silence the sweep is never older than the    *)
(* lease's last extension (node_bot.py, device_bot.py: lock and slock      *)
(* build the user's entry anew).                                           *)
(***************************************************************************)
THEOREM MarksAreOfTheLease == DeviceSpec => []WarnedIsLate
<1>1. MarksInv => WarnedIsLate
  BY DEF MarksInv, AllMarked, Marked, WarnedIsLate
<1>2. QED BY <1>1, SpecMarks, PTL

(***************************************************************************)
(* As long as the file and the platform do not fail and the process does   *)
(* not restart, nobody loses a lease that ran out without having been told *)
(* of it, however leases were renewed, shared, freed and kicked meanwhile. *)
(* The history must keep the notices the property speaks of.               *)
(***************************************************************************)
THEOREM EveryEndIsAnnounced ==
  ASSUME ~ SaveFaults, ~ SendFaults, ~ Restarts, "ending" \in Tracked
  PROVE  DeviceSpec => EndsAnnounced
<1>1. Heard /\ MarksInv /\ [DeviceNext]_vars => Heard'
  BY NextMarks
<1>2. ASSUME Heard, Sweep, NEW n \in Nodes, NEW h \in state[n].current, h.left <= 0
      PROVE  << "ending", n, h.user >> \in told \cup sending'
  <2>1. sending = {} /\ sending' = Endings(state)
    BY <1>2 DEF Sweep, Persist
  <2>2. CASE h.warned
    BY <1>2, <2>1, <2>2 DEF Heard
  <2>3. CASE ~ h.warned
    <3>1. h.user \in Alerts(state[n])
      BY <1>2, <2>3 DEF Alerts
    <3>2. QED BY <2>1, <3>1 DEF Endings
  <2>4. QED BY <2>2, <2>3
<1>3. Heard => (Sweep => \A n \in Nodes : \A h \in state[n].current :
                   h.left <= 0 => << "ending", n, h.user >> \in told \cup sending')
  BY <1>2
<1>4. DeviceSpec => NobodyEndsUnheard
  BY InitMarks, <1>1, <1>3, SpecMarks, PTL DEF DeviceSpec, NobodyEndsUnheard
<1>5. QED BY <1>4, MarksAreOfTheLease, PTL DEF EndsAnnounced
=============================================================================
