------------------------------- MODULE TaskNotes -------------------------------
(***************************************************************************)
(* resource_api/usage.py and usage_cleanup.py: the note that says what a   *)
(* holding is used for.                                                    *)
(*                                                                         *)
(* Holdings are in the bot's state, notes in the database.  A note carries *)
(* a proof, a digest of the hold or booking it was written for, and is     *)
(* shown only while the state yields the same proof.  Agents write notes   *)
(* in turn, under the bot's authority guard; chat commands and the expiry  *)
(* sweep change the holdings in between.                                   *)
(***************************************************************************)
EXTENDS Naturals, FiniteSets

CONSTANTS
  Owners,      \* verified users; each has one key at a time
  TaskSlots,   \* resources
  Purposes,    \* what a note may say
  MaxHoldings, \* bound: holdings ever made (the holding_id)
  MaxKeys,     \* bound: keys ever confirmed
  Silent,      \* a command that carries no purpose
  Nothing      \* no holding, no note

ASSUME NoteAssumption ==
  /\ {MaxHoldings, MaxKeys} \subseteq Nat
  /\ Silent \notin Purposes

VARIABLES
  hold,    \* slot -> who holds it, which holding, and whether it was extended
  key,     \* owner -> the number of its live key, 0 if it was revoked
  notes,   \* the rows: one for a key and a slot
  serial,  \* how many holdings there were
  issued,  \* how many keys there were
  command, \* the agent request that has the authority guard
  reader   \* an agent that has read a note to delete just that one

noteVars == << hold, key, notes, serial, issued, command, reader >>

Holdings == [user : Owners, id : 1..MaxHoldings, longer : BOOLEAN]
NoteRows == [user : Owners, key : 1..MaxKeys, slot : TaskSlots, proof : 1..MaxHoldings,
             purpose : Purposes, ripe : BOOLEAN]
NoCommand == [at |-> "none"]

NoteInit ==
  /\ hold = [s \in TaskSlots |-> Nothing]
  /\ key = [u \in Owners |-> 0]
  /\ notes = {}
  /\ serial = 0
  /\ issued = 0
  /\ command = NoCommand
  /\ reader = Nothing

(* holding_proof and _own_entries: both of a user's own hold only; the second
   also sees that it was extended. *)
Proof(h, u) == IF h # Nothing /\ h.user = u THEN h.id ELSE 0
OwnEntries(h, u) == IF h # Nothing /\ h.user = u THEN {h} ELSE {}
Fits(n) == Proof(hold[n.slot], n.user) = n.proof

(* Mutant: a note lives as long as its user has any key. *)
LiveOwner(n) == key[n.user] # 0

Live(n) == n.key = key[n.user]

Row(u, s) == {n \in notes : n.key = key[u] /\ n.slot = s}

(* active_declarations, declarations_for_state: what the others are shown. *)
Shown == {n \in notes : Live(n) /\ ~n.ripe /\ Fits(n)}

(* store_declaration replaces the row of this key and slot. *)
Store(u, s, proof, purpose, kept) ==
  notes' = (kept \ Row(u, s)) \cup
           {[user |-> u, key |-> key[u], slot |-> s, proof |-> proof, purpose |-> purpose, ripe |-> FALSE]}

-------------------------------------------------------------------------------
(* The state changes under a lock that is not the guard: chat and the sweep. *)
Acquire(u, s) ==
  /\ hold[s] = Nothing
  /\ serial < MaxHoldings
  /\ serial' = serial + 1
  /\ hold' = [hold EXCEPT ![s] = [user |-> u, id |-> serial + 1, longer |-> FALSE]]
ChatLock(u, s) ==
  /\ Acquire(u, s)
  /\ UNCHANGED << key, notes, issued, command, reader >>
HoldingEnds(s) ==
  /\ hold[s] # Nothing
  /\ hold' = [hold EXCEPT ![s] = Nothing]
  /\ UNCHANGED << key, notes, serial, issued, command, reader >>

(* A key is revoked and another confirmed: the notes of the old one are no
   longer anybody's. *)
Revoked(u) ==
  /\ key[u] # 0 /\ command = NoCommand
  /\ key' = [key EXCEPT ![u] = 0]
  /\ UNCHANGED << hold, notes, serial, issued, command, reader >>
Confirmed(u) ==
  /\ key[u] = 0 /\ issued < MaxKeys
  /\ issued' = issued + 1
  /\ key' = [key EXCEPT ![u] = issued + 1]
  /\ UNCHANGED << hold, notes, serial, command, reader >>

-------------------------------------------------------------------------------
(* prepare_command_usage: what the resource was, before the command. *)
PrepareCommandUsage(u, s) ==
  /\ command = NoCommand /\ key[u] # 0
  /\ \E p \in Purposes \cup {Silent} :
       command' = [at |-> "dispatch", user |-> u, slot |-> s, purpose |-> p, before |-> hold[s]]
  /\ UNCHANGED << hold, key, notes, serial, issued, reader >>

(* The command itself: it locks a free resource, extends the user's own, frees
   it, or is refused. *)
Dispatch ==
  LET u == command.user
      s == command.slot
  IN
  /\ command.at = "dispatch"
  /\ \/ Acquire(u, s)
     \/ /\ hold[s] # Nothing /\ hold[s].user = u
        /\ hold' = [hold EXCEPT ![s].longer = TRUE]
        /\ UNCHANGED serial
     \/ /\ hold[s] # Nothing /\ hold[s].user = u
        /\ hold' = [hold EXCEPT ![s] = Nothing]
        /\ UNCHANGED serial
     \/ UNCHANGED << hold, serial >>
  /\ command' = [command EXCEPT !.at = "register"]
  /\ UNCHANGED << key, notes, issued, reader >>

(* register_command_usage: only where the user's own entry differs from before.
   Without a purpose the note of the same holding (or booking) is carried on. *)
RegisterCommandUsage ==
  LET u == command.user
      s == command.slot
      proof == Proof(hold[s], u)
      reusable == {n \in Row(u, s) : ~n.ripe /\ n.proof = Proof(command.before, u)}
  IN
  /\ command.at = "register"
  /\ command' = [command EXCEPT !.at = "prune"]
  /\ IF /\ OwnEntries(command.before, u) # OwnEntries(hold[s], u)
        /\ proof # 0
        /\ command.purpose # Silent \/ reusable # {}
     THEN \E p \in IF command.purpose # Silent THEN {command.purpose}
                   ELSE {n.purpose : n \in reusable} :
            Store(u, s, proof, p, {n \in notes : ~n.ripe})
     ELSE UNCHANGED notes
  /\ UNCHANGED << hold, key, serial, issued, reader >>

(* The commit failed: rolled back, and the caller told it may have executed. *)
RegistrationFails ==
  /\ command.at \in {"register", "prune"}
  /\ command' = NoCommand
  /\ UNCHANGED << hold, key, notes, serial, issued, reader >>

(* prune_actor_usage *)
PruneActorUsage ==
  LET u == command.user IN
  /\ command.at = "prune"
  /\ command' = NoCommand
  /\ notes' = {n \in notes : n.key = key[u] => (~n.ripe /\ Fits(n))}
  /\ UNCHANGED << hold, key, serial, issued, reader >>

(* put_usage: a current holding is required. *)
PutUsage(u, s) ==
  /\ command = NoCommand /\ key[u] # 0
  /\ Proof(hold[s], u) # 0
  /\ \E p \in Purposes : Store(u, s, Proof(hold[s], u), p, {n \in notes : ~n.ripe})
  /\ UNCHANGED << hold, key, serial, issued, command, reader >>

(* get_usage, and delete_usage with If-Match: just the note that was read. *)
ReadUsage(n) ==
  /\ reader = Nothing
  /\ Live(n)
  /\ reader' = n
  /\ UNCHANGED << hold, key, notes, serial, issued, command >>
DeleteUsage ==
  /\ reader # Nothing
  /\ command = NoCommand
  /\ reader' = Nothing
  /\ notes' = IF Live(reader) /\ reader \in notes /\ ~reader.ripe /\ Fits(reader)
              THEN notes \ {reader} ELSE notes
  /\ UNCHANGED << hold, key, serial, issued, command >>

NoteRipens(n) ==
  /\ n \in notes /\ ~n.ripe
  /\ notes' = (notes \ {n}) \cup {[n EXCEPT !.ripe = TRUE]}
  /\ UNCHANGED << hold, key, serial, issued, command, reader >>

(* cleanup_usage_once: first what no key or no time is left for, without the
   guard; then, under it, what fits the state no more. *)
CleanupObsolete ==
  /\ \E n \in notes : n.ripe \/ ~Live(n)
  /\ notes' = {n \in notes : ~n.ripe /\ Live(n)}
  /\ UNCHANGED << hold, key, serial, issued, command, reader >>
CleanupUnfit ==
  /\ command = NoCommand
  /\ \E n \in notes : ~Fits(n)
  /\ notes' = {n \in notes : Fits(n)}
  /\ UNCHANGED << hold, key, serial, issued, command, reader >>

NoteNext ==
  \/ \E u \in Owners, s \in TaskSlots : ChatLock(u, s) \/ PrepareCommandUsage(u, s) \/ PutUsage(u, s)
  \/ \E s \in TaskSlots : HoldingEnds(s)
  \/ \E u \in Owners : Revoked(u) \/ Confirmed(u)
  \/ Dispatch \/ RegisterCommandUsage \/ RegistrationFails \/ PruneActorUsage
  \/ DeleteUsage \/ CleanupObsolete \/ CleanupUnfit
  \/ \E n \in notes : ReadUsage(n) \/ NoteRipens(n)

NoteSpec == NoteInit /\ [][NoteNext]_noteVars

-------------------------------------------------------------------------------
NoteTypeOK ==
  /\ hold \in [TaskSlots -> Holdings \cup {Nothing}]
  /\ key \in [Owners -> 0..MaxKeys]
  /\ notes \subseteq NoteRows
  /\ serial \in 0..MaxHoldings
  /\ issued \in 0..MaxKeys
  /\ reader \in NoteRows \cup {Nothing}

(* What is shown with a resource was written with its holder's own live key,
   and there is one such note: two keys, two holdings or a cleanup that runs
   behind never make two notes compete for one resource. *)
OneNoteShown(s) ==
  LET shown == {n \in Shown : n.slot = s} IN
  /\ Cardinality(shown) <= 1
  /\ \A n \in shown : hold[s] # Nothing /\ n.user = hold[s].user

(* A note that is shown leaves the table only by its own key's command, its
   own delete request, its age, or a newer note; no cleanup takes it. *)
CleanupSpares ==
  [][\A n \in Shown :
       (n \notin notes' /\ n.key = key'[n.user] /\ Proof(hold'[n.slot], n.user) = n.proof) =>
         \/ [n EXCEPT !.ripe = TRUE] \in notes'
         \/ \E m \in notes' : m.key = n.key /\ m.slot = n.slot
         \/ reader = n]_noteVars

(* Notes as a whole: one to a resource, its holder's, until its key's own
   doing or its age ends it. *)
NotesAreSound == [](\A s \in TaskSlots : OneNoteShown(s)) /\ CleanupSpares
===============================================================================
