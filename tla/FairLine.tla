------------------------------ MODULE FairLine ------------------------------
(***************************************************************************)
(* What a queue bot promises about each of its resources, whatever the     *)
(* durations, deadlines, notices and files: one owner at a time and a      *)
(* first-come line behind it.  A step may move several resources at once.  *)
(***************************************************************************)
EXTENDS SequencesExt

CONSTANTS
  Nodes,
  Users,
  Nobody   \* the owner of a free resource, not a user

VARIABLES
  owner,   \* who has the resource, or Nobody
  line     \* who waits for it, in order

linevars == << owner, line >>

LineInit ==
  /\ owner = [n \in Nodes |-> Nobody]
  /\ line = [n \in Nodes |-> << >>]

\* The line without the user at one position.
Dropping(q, i) == RemoveAt(q, i)

(***************************************************************************)
(* The moves of one resource, from owner o and line q to owner p and line  *)
(* r.  The line is only ever extended at its back, except that a preempted *)
(* owner goes to its front.                                                *)
(***************************************************************************)
Stay(o, q, p, r) == p = o /\ r = q

Join(o, q, p, r) ==
  /\ p = o
  /\ \E u \in Users \ ({o} \cup ToSet(q)) : r = Append(q, u)

\* A free resource goes to the head of the line, or to anybody if it is empty.
Claim(o, q, p, r) ==
  /\ o = Nobody
  /\ p \in Users
  /\ \/ q = << >> /\ r = << >>
     \/ q # << >> /\ p = q[1] /\ r = Dropping(q, 1)

Release(o, q, p, r) == o # Nobody /\ p = Nobody /\ r = q

Quit(o, q, p, r) ==
  /\ p = o
  /\ \E i \in 1..Len(q) : r = Dropping(q, i)

Preempt(o, q, p, r) ==
  /\ p \in Users \ {o}
  /\ \E rest \in {q} \cup {Dropping(q, i) : i \in {j \in 1..Len(q) : q[j] = p}} :
       /\ p \notin ToSet(rest)
       /\ \/ r = rest
          \/ o # Nobody /\ r = << o >> \o rest

Clear(o, q, p, r) == p = Nobody /\ r = << >>

Move(o, q, p, r) ==
  \/ Stay(o, q, p, r)
  \/ Join(o, q, p, r)
  \/ Claim(o, q, p, r)
  \/ Release(o, q, p, r)
  \/ Quit(o, q, p, r)
  \/ Preempt(o, q, p, r)
  \/ Clear(o, q, p, r)

LineNext ==
  \A n \in Nodes : Move(owner[n], line[n], owner'[n], line'[n])

LineSpec == LineInit /\ [][LineNext]_linevars
=============================================================================
