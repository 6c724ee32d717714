----------------------------- MODULE DeviceBot -----------------------------
(***************************************************************************)
(* A device bot (core/device_bot.py): a node bot whose resources are the   *)
(* cards of machines.  A command names machines and, if it likes, cards;   *)
(* lock, slock, kickout and freeing named cards are those of NodeBot over  *)
(* the named cards.  Freeing whole machines is a command of its own.       *)
(***************************************************************************)
EXTENDS NodeBot

CONSTANT MaxListed   \* bound: how many machines a free command lists

ASSUME DeviceBotAssumption == MaxListed \in Nat

Machines == {MachineOf[n] : n \in Nodes}
CardsOf(machines) == {n \in Nodes : MachineOf[n] \in machines}
MachineLists == SeqOf(Machines, MaxListed) \ {<< >>}

(* unlock, case 2: the pattern "(m)(, m)*" of the command keeps its first
   machine and, of the repeated group, the last repetition. *)
Named(list) == {list[1], list[Len(list)]}

FreeMachines(u, list) ==
  /\ Persist(Update(CardsOf(Named(list)), LAMBDA r : Vacate(r, u)))
  /\ UNCHANGED << maxDur, sending, told >>

-----------------------------------------------------------------------------
DeviceNext ==
  \/ \E u \in Users : \/ Command(u)
                      \/ \E list \in MachineLists : FreeMachines(u, list)
  \/ Operator
  \/ Environment

DeviceSpec == Init /\ [][DeviceNext]_vars

DeviceFairSpec == DeviceSpec /\ Fairness

-----------------------------------------------------------------------------
(***************************************************************************)
(* A free command that lists machines leaves its user without a lease on   *)
(* any card of any of them (agent-api/SKILL.md: "`free node1` releases all *)
(* your cards there"; the reply says the resources were released).  The   *)
(* code keeps this for lists of up to two machines only: of a longer list  *)
(* it frees the first and the last.                                        *)
(***************************************************************************)
FreedIsFree ==
  [][\A u \in Users : \A list \in MachineLists :
       FreeMachines(u, list) =>
         \A n \in CardsOf(ToSet(list)) : ~ Holds(state'[n], u)]_vars
=============================================================================
