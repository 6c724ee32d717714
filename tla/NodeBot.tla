------------------------------ MODULE NodeBot ------------------------------
(***************************************************************************)
(* A node bot (core/node_bot.py): leases on whole nodes, exclusive or      *)
(* shared, renewed by asking again, and the sweep that warns of their end  *)
(* and ends them.  There are no bookings.                                  *)
(***************************************************************************)
EXTENDS BaseBot

LockedLeft(r, u, req) == Requested(req) + LeftOf(r, u)

Lease(r, u, req) ==
  [user |-> u, left |-> LockedLeft(r, u, req), warned |-> FALSE]

-----------------------------------------------------------------------------
(* lock *)

\* Mutant: somebody sharing the node may make it exclusive.
MayLockShared(r, u) == r.status = "idle" \/ Holds(r, u)

MayLock(r, u) == r.status = "idle" \/ (Holds(r, u) /\ r.status = "exclusive")

Locked(r, u, req) ==
  [r EXCEPT !.status = "exclusive", !.current = {Lease(r, u, req)}]

Lock(u, targets, req, limit) ==
  /\ WithinLimit(state, u, targets, limit)
  /\ PolicyAllows(state, u, targets, Omitted)
  /\ \A n \in targets :
       /\ MayLock(state[n], u)
       /\ WithinMax(u, LockedLeft(state[n], u, req), maxDur)
       /\ LockedLeft(state[n], u, req) <= MaxLeft
  /\ Persist(Update(targets, LAMBDA r : Locked(r, u, req)))
  /\ told' = Renewed(u, targets)
  /\ UNCHANGED << maxDur, sending >>

(* slock *)
MayShare(r) == r.status # "exclusive"

\* Mutant: a sharer asking again is appended a second time.
SharedTwice(r, u, req) ==
  [r EXCEPT !.status = "shared", !.current = @ \cup {Lease(r, u, req)}]

Shared(r, u, req) ==
  [r EXCEPT !.status = "shared",
            !.current = {h \in @ : h.user # u} \cup {Lease(r, u, req)}]

Slock(u, targets, req, limit) ==
  /\ WithinLimit(state, u, targets, limit)
  /\ PolicyAllows(state, u, targets, Omitted)
  /\ \A n \in targets :
       /\ MayShare(state[n])
       /\ WithinMax(u, LockedLeft(state[n], u, req), maxDur)
       /\ LockedLeft(state[n], u, req) <= MaxLeft
  /\ Persist(Update(targets, LAMBDA r : Shared(r, u, req)))
  /\ told' = Renewed(u, targets)
  /\ UNCHANGED << maxDur, sending >>

-----------------------------------------------------------------------------
(* _check_and_notify *)

Sweep ==
  LET swept == [n \in Nodes |-> Expire(state[n])]
  IN  /\ sending = {}
      /\ swept # state
      /\ Persist(swept)
      /\ sending' = IF saved' THEN Endings(state) ELSE {}
      /\ UNCHANGED << maxDur, told >>

-----------------------------------------------------------------------------
Acquisition(u) ==
  \E targets \in Targets, req \in Requests, limit \in Limits :
    Lock(u, targets, req, limit) \/ Slock(u, targets, req, limit)

Command(u) ==
  \/ Acquisition(u)
  \/ UnlockAll(u)
  \/ \E targets \in Targets : Unlock(u, targets)

Operator ==
  \/ \E targets \in Targets : Kickout(targets)
  \/ \E u \in Users, targets \in Targets : Opkick(u, targets)

Environment == Sweep \/ Send \/ Tick \/ Restart

Next == (\E u \in Users : Command(u)) \/ Operator \/ Environment

Spec == Init /\ [][Next]_vars

\* The clock runs and the scheduler thread sweeps and sends.
Fairness == WF_vars(Tick) /\ WF_vars(Sweep) /\ WF_vars(Send)

FairSpec == Spec /\ Fairness

-----------------------------------------------------------------------------
(***************************************************************************)
(* The status of a node says how it is held: idle means nobody, exclusive  *)
(* one user, and nobody is listed twice as a current user, whatever locks, *)
(* shared locks, renewals, expiries and restarts led here.                 *)
(***************************************************************************)
ModeMatches(r) ==
  /\ r.current = {} <=> r.status = "idle"
  /\ r.status = "exclusive" => \A h, k \in r.current : h = k
  /\ \A h, k \in r.current : h.user = k.user => h = k
  /\ r.bookings = << >>

Modes == \A n \in Nodes : ModeMatches(state[n])

(***************************************************************************)
(* A lease marked as warned is about to run out: whatever extended it      *)
(* since withdrew the mark, so that its new end is announced as well.      *)
(***************************************************************************)
WarnedIsLate ==
  \A n \in Nodes : \A h \in state[n].current :
    h.warned => EarlyNotify /\ h.left <= TimeAlert

(***************************************************************************)
(* Nobody loses a lease that ran out without hearing of it.  The sweep is  *)
(* silent about a lease marked as warned (the comment in                   *)
(* _check_and_notify: "When EARLY_NOTIFY=True and warning fired on time,   *)
(* is_notified=True -> silent release"), so whoever a sweep takes off a    *)
(* node had the warning of that lease sent, or is in the sweep's message.  *)
(* True as long as neither the file nor the platform fails and the process *)
(* does not restart between the save and the send.                         *)
(***************************************************************************)
NobodyEndsUnheard ==
  [][Sweep =>
       \A n \in Nodes : \A h \in state[n].current :
         h.left <= 0 => << "ending", n, h.user >> \in told \cup sending']_vars

(***************************************************************************)
(* The bot implements a shared/exclusive lock per node: nobody gets into   *)
(* an exclusive node, and a node changes its mode only by falling idle.    *)
(***************************************************************************)
Owner(r) ==
  IF r.status = "exclusive" THEN (CHOOSE h \in r.current : TRUE).user ELSE NoUser

Sharers(r) == IF r.status = "shared" THEN {h.user : h \in r.current} ELSE {}

Abstract == INSTANCE SharedLock WITH
  Nobody <- NoUser,
  owner <- [n \in Nodes |-> Owner(state[n])],
  sharers <- [n \in Nodes |-> Sharers(state[n])]

SharedLock == Abstract!LockSpec

(***************************************************************************)
(* A lease ends unless its user renews it over and over again, though      *)
(* others join and leave the node all the time.                            *)
(***************************************************************************)
Renews(n, u) == Holds(state[n], u) /\ LeftOf(state'[n], u) > LeftOf(state[n], u)

LeaseEnds ==
  \A n \in Nodes, u \in Users :
    []<><<Renews(n, u)>>_vars \/ (Holds(state[n], u) ~> ~ Holds(state[n], u))

(***************************************************************************)
(* Every end of a lease is announced: a mark that would silence the sweep  *)
(* is never older than the lease's last extension, and whoever the sweep   *)
(* releases was told before or is told then.                               *)
(***************************************************************************)
EndsAnnounced == []WarnedIsLate /\ NobodyEndsUnheard
=============================================================================
