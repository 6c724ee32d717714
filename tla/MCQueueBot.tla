----------------------------- MODULE MCQueueBot -----------------------------
(***************************************************************************)
(* Model-checking instances of QueueBot.                                   *)
(***************************************************************************)
EXTENDS QueueBot

CONSTANTS n1, n2, u1, u2, u3

EachItsOwnMachine == [n \in Nodes |-> n]
OneMachine == [n \in Nodes |-> n1]

NoCap == Unlimited
NoMaximum == {Unlimited}
ChatOnly == {Unlimited}
ChatAndApi == {Unlimited, 1}

UserSymmetry == Permutations(Users)
=============================================================================
