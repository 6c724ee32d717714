---------------------------- MODULE MCDeviceBot ----------------------------
(***************************************************************************)
(* Model-checking instances of DeviceBot, and of NodeBot, whose actions    *)
(* its next-state relation contains.                                       *)
(***************************************************************************)
EXTENDS DeviceBot

CONSTANTS n1, n2, n3, u1, u2, u3

EachItsOwnMachine == [n \in Nodes |-> n]

NoCap == Unlimited
ChatOnly == {Unlimited}
=============================================================================
