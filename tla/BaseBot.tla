------------------------------ MODULE BaseBot ------------------------------
(***************************************************************************)
(* What all lock bots share: the state in memory and in bot_state.json,    *)
(* the commands that only give resources back (NodeBot's, inherited by     *)
(* QueueBot), the message a sweep sends after it released the state lock,  *)
(* the clock and a restart.                                                *)
(*                                                                         *)
(* Commands run under the bot's state lock, so a command is one step.  The *)
(* sweep changes and saves the state under the lock and sends its message  *)
(* after releasing it, so sending is a step of its own.                    *)
(***************************************************************************)
EXTENDS Holdings

CONSTANTS
  MaxDurations,   \* the values MAX_LOCK_DURATION takes over the restarts
  Limits,         \* acquisition limits of commands: Unlimited from chat
  SaveFaults,     \* may writing the state file fail?
  SendFaults,     \* may the chat platform refuse a message?
  Restarts,       \* may the process crash and start again?
  Tracked         \* bound: the kinds of notices the history variable keeps

\* Stands for a user where the abstract specifications name an owner.
NoUser == "nobody"

ASSUME BaseBotAssumption ==
  /\ MaxDurations \subseteq (Nat \ {0}) \cup {Unlimited}
  /\ Limits \subseteq Int
  /\ SaveFaults \in BOOLEAN
  /\ SendFaults \in BOOLEAN
  /\ Restarts \in BOOLEAN
  /\ NoUser \notin Users

\* What a notice says to a user about a resource: it is your turn, your booking
\* was cancelled, your lease ran out or is about to.
Kinds == {"turn", "cancelled", "ending"}
Notice == Kinds \X Nodes \X Users

VARIABLES
  state,     \* bot_state, the resources in memory
  disk,      \* bot_state.json
  maxDur,    \* MAX_LOCK_DURATION of the running instance
  saved,     \* did the last write of the state file succeed?
  sending,   \* notices composed by a sweep and not sent yet
  told       \* history: the tracked notices that reached the platform

vars == << state, disk, maxDur, saved, sending, told >>

Init ==
  /\ state = [n \in Nodes |-> Fresh]
  /\ disk = state
  /\ maxDur \in MaxDurations
  /\ saved = TRUE
  /\ sending = {}
  /\ told = {}

\* The resources and the duration a command names.  A card bot's command can
\* name fewer sets of cards than this (the same cards on every machine).
Targets == (SUBSET Nodes) \ {{}}
Requests == Durations \cup {Omitted}

Requested(req) == IF req = Omitted THEN DefaultDuration ELSE req

-----------------------------------------------------------------------------
(***************************************************************************)
(* _save_and_notify: the new state is in memory whatever happens to the    *)
(* file; a failed write reports an error and may or may not have replaced  *)
(* the file (the directory sync comes after the rename).                   *)
(***************************************************************************)
Persist(st) ==
  /\ state' = st
  /\ \/ disk' = st /\ saved' = TRUE
     \/ SaveFaults /\ disk' \in {st, disk} /\ saved' = FALSE

Update(targets, Op(_)) ==
  [n \in Nodes |-> IF n \in targets THEN Op(state[n]) ELSE state[n]]

\* History: a new or extended lease will be announced anew.
Renewed(u, targets) == told \ ({"ending"} \X targets \X {u})

-----------------------------------------------------------------------------
(* unlock / free *)
Left(r, u) ==
  Vacate([r EXCEPT !.bookings = WithoutBooking(@, u)], u)

Unlock(u, targets) ==
  /\ \A n \in targets : Holds(state[n], u) \/ Booked(state[n].bookings, u)
  /\ Persist(Update(targets, LAMBDA r : Left(r, u)))
  /\ UNCHANGED << maxDur, sending, told >>

UnlockAll(u) ==
  /\ Persist(Update(Nodes, LAMBDA r : Left(r, u)))
  /\ UNCHANGED << maxDur, sending, told >>

(* kickout *)
Kickout(targets) ==
  /\ Persist(Update(targets, LAMBDA r : Fresh))
  /\ UNCHANGED << maxDur, sending, told >>

(* do_opkick: targets are the resources in its scope, one, some cards or all. *)
Opkick(u, targets) ==
  /\ \E n \in targets : Holds(state[n], u)
  /\ Persist(Update(targets, LAMBDA r : Vacate(r, u)))
  /\ UNCHANGED << maxDur, sending, told >>

-----------------------------------------------------------------------------
\* The users a sweep alerts: their lease ran out without a warning, or is about
\* to run out.
\* Mutant: who was not warned in time is not told either.
AlertsEarlyOnly(r) ==
  {h.user : h \in {g \in r.current : ~ g.warned /\ g.left > 0 /\ g.left <= TimeAlert}}

Alerts(r) ==
  {h.user : h \in
     {g \in r.current :
        ~ g.warned /\ (g.left <= 0 \/ (EarlyNotify /\ g.left <= TimeAlert))}}

Endings(st) == UNION {{"ending"} \X {n} \X Alerts(st[n]) : n \in Nodes}

\* One message; a failed send is logged and forgotten.
Send ==
  /\ sending # {}
  /\ sending' = {}
  /\ LET notices == {m \in sending : m[1] \in Tracked}
     IN  told' = told \cup notices \/ (SendFaults /\ told' = told)
  /\ UNCHANGED << state, disk, maxDur, saved >>

Tick ==
  /\ state' = [n \in Nodes |-> Older(state[n])]
  /\ disk' = [n \in Nodes |-> Older(disk[n])]
  /\ UNCHANGED << maxDur, saved, sending, told >>

\* Mutant: shortened leases are not written back.
RestartUnsaved ==
  /\ Restarts
  /\ maxDur' \in MaxDurations
  /\ state' = [n \in Nodes |-> Clamp(disk[n], maxDur')]
  /\ disk' = disk
  /\ saved' = TRUE
  /\ sending' = {}
  /\ UNCHANGED told

(***************************************************************************)
(* The process dies between two steps and the instance is built again from *)
(* the file, with whatever maximum duration is now configured; a lease     *)
(* beyond it is cut and the file written back.                             *)
(***************************************************************************)
Restart ==
  /\ Restarts
  /\ maxDur' \in MaxDurations
  /\ state' = [n \in Nodes |-> Clamp(disk[n], maxDur')]
  /\ disk' = state'
  /\ saved' = TRUE
  /\ sending' = {}
  /\ UNCHANGED told

-----------------------------------------------------------------------------
(***************************************************************************)
(* Type correctness of the whole state.                                    *)
(***************************************************************************)
TypeOK ==
  /\ state \in [Nodes -> Resource]
  /\ disk \in [Nodes -> Resource]
  /\ maxDur \in MaxDurations
  /\ saved \in BOOLEAN
  /\ sending \in SUBSET Notice
  /\ told \in SUBSET Notice

(***************************************************************************)
(* What a command or the sweep acknowledged survives a crash: unless the   *)
(* last write failed, the file holds exactly the state in memory, whatever *)
(* commands, sweeps and restarts came since.                               *)
(***************************************************************************)
Durable == saved => disk = state
=============================================================================
