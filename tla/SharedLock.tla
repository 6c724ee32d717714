----------------------------- MODULE SharedLock -----------------------------
(***************************************************************************)
(* What a NODE or DEVICE bot promises about each of its resources: one     *)
(* exclusive owner or any number of sharers, never both, and no step from  *)
(* one mode to the other while anybody is on the resource.                 *)
(***************************************************************************)
CONSTANTS
  Nodes,
  Users,
  Nobody   \* the owner of a resource nobody has to itself, not a user

VARIABLES
  owner,    \* the exclusive owner, or Nobody
  sharers   \* the users sharing the resource

lockvars == << owner, sharers >>

LockInit ==
  /\ owner = [n \in Nodes |-> Nobody]
  /\ sharers = [n \in Nodes |-> {}]

(***************************************************************************)
(* The moves of one resource, from owner o and sharers s to p and t.       *)
(***************************************************************************)
Acquire(o, s, p, t) == o = Nobody /\ s = {} /\ p \in Users /\ t = {}

Share(o, s, p, t) ==
  o = Nobody /\ p = Nobody /\ \E u \in Users : t = s \cup {u}

Leave(o, s, p, t) == p \in {o, Nobody} /\ t \subseteq s

LockNext ==
  \A n \in Nodes :
    \/ Acquire(owner[n], sharers[n], owner'[n], sharers'[n])
    \/ Share(owner[n], sharers[n], owner'[n], sharers'[n])
    \/ Leave(owner[n], sharers[n], owner'[n], sharers'[n])

LockSpec == LockInit /\ [][LockNext]_lockvars
=============================================================================
