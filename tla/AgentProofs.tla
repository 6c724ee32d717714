------------------------------ MODULE AgentProofs ------------------------------
(***************************************************************************)
(* Theorems about what agents and their owners do: how agents poll a bot   *)
(* (Polling), the keys they act with (Enrollment), the notes they leave    *)
(* (TaskNotes), what the bot's group is told of it (Notices), and who gets *)
(* to see it: a person's page (PersonalPanel) and delegated reading of     *)
(* notes (AuditDelegation).                                                *)
(*                                                                         *)
(* Polling: a read that began after a command had finished sees what that  *)
(* command left.  ReadYourWrites is about copies that were handed out; the *)
(* argument is about the two places they come from: a copy in the cache,   *)
(* and one that its leader may still publish, are at least as new as every *)
(* command whose invalidation is over, finished or not.  An invalidation   *)
(* clears the first and makes the second void, so it needs nothing of the  *)
(* copies that were there; and from then on whoever copies finds its       *)
(* result.                                                                 *)
(*                                                                         *)
(* Keys: whoever acts on a bot's keys holds its guard, so a command that   *)
(* executes keeps the key it was admitted with; and a code is reserved by  *)
(* one worker until its row is committed, so it makes one key.             *)
(*                                                                         *)
(* Notes: a key has one row for a resource and a row always has a proof,   *)
(* so of two notes shown with a resource both are its holder's, of its one *)
(* key, and the same.                                                      *)
(*                                                                         *)
(* Notices: a notice waits in one batch or is on its way in one job, older *)
(* than what its batch retains; a batch that sends has one job and defers  *)
(* nothing, and a job cleared to go is of the present target.              *)
(*                                                                         *)
(* Page: the bindings that were good since the last report are all that    *)
(* are good now, a dead session never comes back, and what is left to      *)
(* check is all that was not checked since.  Delegated notes: between the  *)
(* committed row and the answer that it accounts for nobody else answers,  *)
(* and the row is of the identity whose notes are held.                    *)
(***************************************************************************)
EXTENDS Polling, Enrollment, TaskNotes, Notices, PersonalPanel, AuditDelegation, Integers,
        FiniteSetTheorems, FunctionTheorems, SequenceTheorems, DataLemmas, TLAPS

ReadStages == {"idle", "asked", "looking", "own", "copied", "leading", "publishing", "following"}
Reads == [at : ReadStages, since : 0..MaxStates, generation : {0} \cup Generations,
          copy : Copies, kind : PollKinds, cached : BOOLEAN]
Writes == [at : {"idle", "admitted", "mutated", "invalidated"}, result : 0..MaxStates]

PTypeOK ==
  /\ version \in 0..MaxStates /\ settled \in 0..MaxStates
  /\ generation \in Generations /\ retired \in SUBSET Generations
  /\ entries \in [Generations -> Copies]
  /\ inflight \in [Generations -> Pollers \cup {Nobody}]
  /\ void \in [Generations -> BOOLEAN]
  /\ barrier \in Pollers \cup Writers \cup {Nobody}
  /\ reading \in [Pollers -> Reads]
  /\ write \in [Writers -> Writes]

\* As new as every command whose invalidation is over.
FreshCopy(copy) ==
  /\ copy >= settled
  /\ \A w \in Writers : write[w].at = "invalidated" => copy >= write[w].result

\* The version is as new as anything.
VersionLast ==
  /\ settled <= version
  /\ \A w \in Writers : write[w].result <= version

CacheFresh == \A g \in Generations : entries[g] # NoCopy => FreshCopy(entries[g])

\* A request inside has a generation; a leader is registered under it.
Inhabits(p) ==
  /\ ~(Stage(p, "idle") \/ Stage(p, "asked")) => reading[p].generation \in Generations
  /\ reading[p].since <= settled

Leads(p) ==
  LET g == reading[p].generation IN
  /\ Stage(p, "leading") \/ Stage(p, "publishing") => inflight[g] = p
  /\ Stage(p, "publishing") =>
       /\ reading[p].copy \in 0..MaxStates /\ reading[p].copy >= reading[p].since
       /\ ~void[g] => FreshCopy(reading[p].copy)

Sees(p) == Stage(p, "copied") => reading[p].copy \in 0..MaxStates /\ reading[p].copy >= reading[p].since

PInv ==
  /\ PTypeOK /\ VersionLast /\ CacheFresh
  /\ \A p \in Pollers : Inhabits(p) /\ Leads(p) /\ Sees(p)

-------------------------------------------------------------------------------
LEMMA InitPInv == PollingInit => PInv
<1> SUFFICES ASSUME PollingInit PROVE PInv
  OBVIOUS
<1>1. PTypeOK
  BY PollingAssumption
  DEF PollingInit, PTypeOK, Generations, Copies, Reads, Writes, ReadStages, NoReading, NoWrite, PollKinds
<1> QED
  BY <1>1 DEF PollingInit, PInv, VersionLast, CacheFresh, Inhabits, Leads, Sees, Stage, NoReading, NoWrite
-------------------------------------------------------------------------------
(* A step of one reader, which leaves alone what other leaders registered. *)
LEMMA ReadStep ==
  ASSUME PInv, NEW p \in Pollers, NEW r \in Reads, Put(p, r),
         UNCHANGED << version, settled, write, generation, retired >>,
         barrier' \in Pollers \cup Writers \cup {Nobody},
         entries' \in [Generations -> Copies],
         inflight' \in [Generations -> Pollers \cup {Nobody}],
         void' \in [Generations -> BOOLEAN],
         CacheFresh',
         \A g \in Generations : inflight[g] \in Pollers \ {p} => inflight'[g] = inflight[g] /\ void'[g] = void[g],
         Inhabits(p)' /\ Leads(p)' /\ Sees(p)'
  PROVE  PInv'
<1>1. PTypeOK'
  BY DEF PInv, PTypeOK, Put
<1>2. VersionLast'
  BY DEF PInv, VersionLast
<1>3. ASSUME NEW q \in Pollers PROVE Inhabits(q)' /\ Leads(q)' /\ Sees(q)'
  <2>1. CASE q = p
    BY <2>1
  <2>2. CASE q # p
    <3>1. reading'[q] = reading[q]
      BY <2>2 DEF PInv, PTypeOK, Put
    <3>2. Inhabits(q)' /\ Sees(q)'
      BY <3>1 DEF PInv, Inhabits, Sees, Stage
    <3>3. Leads(q)'
      BY <2>2, <3>1 DEF PInv, Leads, Inhabits, Stage, FreshCopy
    <3> QED
      BY <3>2, <3>3
  <2> QED
    BY <2>1, <2>2
<1> QED
  BY <1>1, <1>2, <1>3 DEF PInv

(* A step of one reader that does not touch the cache. *)
LEMMA ReadAside ==
  ASSUME PInv, NEW p \in Pollers, NEW r \in Reads, Put(p, r),
         UNCHANGED << version, settled, write, generation, retired, cacheVars >>,
         barrier' \in Pollers \cup Writers \cup {Nobody},
         Inhabits(p)' /\ Leads(p)' /\ Sees(p)'
  PROVE  PInv'
<1>1. CacheFresh'
  BY DEF PInv, CacheFresh, FreshCopy, cacheVars
<1> QED
  BY <1>1, ReadStep DEF PInv, PTypeOK, cacheVars

LEMMA ClosedReads == NoReading \in Reads
BY PollingAssumption DEF NoReading, Reads, ReadStages, Copies, PollKinds

(* The state as it is now is as new as anything. *)
LEMMA VersionIsFresh == PInv => FreshCopy(version)
BY DEF PInv, PTypeOK, VersionLast, FreshCopy, Writes

LEMMA BeginPollPInv ==
  ASSUME NEW p \in Pollers, NEW kind \in PollKinds PROVE PInv /\ BeginPoll(p, kind) => PInv'
<1> SUFFICES ASSUME PInv, BeginPoll(p, kind) PROVE PInv'
  OBVIOUS
<1> DEFINE r == [reading[p] EXCEPT !.at = "asked", !.kind = kind, !.since = settled]
<1>1. r \in Reads /\ r.at = "asked" /\ r.since = settled
  BY DEF PInv, PTypeOK, Reads, ReadStages
<1>2. reading'[p] = r
  BY DEF BeginPoll, Put, PInv, PTypeOK
<1>3. Inhabits(p)' /\ Leads(p)' /\ Sees(p)'
  BY <1>1, <1>2 DEF Inhabits, Leads, Sees, Stage, BeginPoll, PInv, PTypeOK
<1> QED
  BY <1>1, <1>3, ReadAside DEF BeginPoll, PInv, PTypeOK

LEMMA AdmitPollPInv == ASSUME NEW p \in Pollers PROVE PInv /\ AdmitPoll(p) => PInv'
<1> SUFFICES ASSUME PInv, AdmitPoll(p) PROVE PInv'
  OBVIOUS
<1>1. CASE Close(p)
  <2>1. reading'[p] = NoReading
    BY <1>1 DEF Close, Put, PInv, PTypeOK
  <2>2. Inhabits(p)' /\ Leads(p)' /\ Sees(p)'
    BY <2>1 DEF Inhabits, Leads, Sees, Stage, NoReading, AdmitPoll, PInv, PTypeOK
  <2>3. barrier' \in Pollers \cup Writers \cup {Nobody}
    BY DEF AdmitPoll, PInv, PTypeOK
  <2> QED
    BY <1>1, <2>2, <2>3, ClosedReads, ReadAside DEF AdmitPoll, Close
<1>2. ASSUME NEW at \in {"own", "looking"},
             Put(p, [reading[p] EXCEPT !.at = at, !.generation = generation])
      PROVE  PInv'
  <2> DEFINE r == [reading[p] EXCEPT !.at = at, !.generation = generation]
  <2>1. r \in Reads /\ r.at = at /\ r.generation = generation /\ r.since = reading[p].since
    BY <1>2 DEF PInv, PTypeOK, Reads, ReadStages
  <2>2. reading'[p] = r
    BY <1>2 DEF Put, PInv, PTypeOK
  <2>3. Inhabits(p)' /\ Leads(p)' /\ Sees(p)'
    BY <1>2, <2>1, <2>2 DEF Inhabits, Leads, Sees, Stage, AdmitPoll, PInv, PTypeOK
  <2>4. barrier' \in Pollers \cup Writers \cup {Nobody}
    BY DEF AdmitPoll, PInv, PTypeOK
  <2> QED
    BY <1>2, <2>1, <2>3, <2>4, ReadAside DEF AdmitPoll
<1> QED
  BY <1>1, <1>2 DEF AdmitPoll

LEMMA LookUpPInv == ASSUME NEW p \in Pollers PROVE PInv /\ LookUp(p) => PInv'
<1> SUFFICES ASSUME PInv, LookUp(p) PROVE PInv'
  OBVIOUS
<1> DEFINE g == reading[p].generation
<1>0. g \in Generations /\ reading[p] \in Reads /\ reading[p].since <= settled
  BY DEF LookUp, Stage, PInv, PTypeOK, Inhabits
<1>1. CASE entries[g] # NoCopy /\ Put(p, [reading[p] EXCEPT !.at = "copied", !.copy = entries[g], !.cached = TRUE])
           /\ UNCHANGED << inflight, void >>
  <2> DEFINE r == [reading[p] EXCEPT !.at = "copied", !.copy = entries[g], !.cached = TRUE]
  <2>1. /\ r \in Reads /\ r.at = "copied" /\ r.copy = entries[g]
        /\ r.generation = g /\ r.since = reading[p].since
    BY <1>0 DEF PInv, PTypeOK, Reads, ReadStages
  <2>2. reading'[p] = r
    BY <1>1 DEF Put, PInv, PTypeOK
  <2>3. entries[g] \in 0..MaxStates /\ entries[g] >= settled /\ settled \in 0..MaxStates
    BY <1>0, <1>1 DEF PInv, PTypeOK, CacheFresh, FreshCopy, Copies
  <2>4. entries[g] >= reading[p].since
    BY <1>0, <2>3 DEF Reads
  <2>5. Inhabits(p)' /\ Leads(p)' /\ Sees(p)'
    BY <1>0, <2>1, <2>2, <2>3, <2>4 DEF Inhabits, Leads, Sees, Stage, LookUp
  <2> QED
    BY <1>1, <2>1, <2>5, ReadAside DEF LookUp, cacheVars, PInv, PTypeOK
<1>2. CASE /\ inflight[g] = Nobody
           /\ inflight' = [inflight EXCEPT ![g] = p] /\ void' = [void EXCEPT ![g] = FALSE]
           /\ Put(p, [reading[p] EXCEPT !.at = "leading"])
  <2> DEFINE r == [reading[p] EXCEPT !.at = "leading"]
  <2>1. r \in Reads /\ r.at = "leading" /\ r.generation = g /\ r.since = reading[p].since
    BY <1>0 DEF Reads, ReadStages
  <2>2. reading'[p] = r
    BY <1>2 DEF Put, PInv, PTypeOK
  <2>3. inflight'[g] = p
    BY <1>0, <1>2 DEF PInv, PTypeOK
  <2>4. Inhabits(p)' /\ Leads(p)' /\ Sees(p)'
    BY <1>0, <2>1, <2>2, <2>3 DEF Inhabits, Leads, Sees, Stage, LookUp
  <2>5. CacheFresh'
    BY DEF LookUp, PInv, CacheFresh, FreshCopy
  <2>6. \A h \in Generations : inflight[h] \in Pollers \ {p} => inflight'[h] = inflight[h] /\ void'[h] = void[h]
    BY <1>0, <1>2, PollingAssumption DEF PInv, PTypeOK
  <2>7. inflight' \in [Generations -> Pollers \cup {Nobody}] /\ void' \in [Generations -> BOOLEAN]
    BY <1>0, <1>2 DEF PInv, PTypeOK
  <2> QED
    BY <1>2, <2>1, <2>4, <2>5, <2>6, <2>7, ReadStep DEF LookUp, PInv, PTypeOK
<1>3. CASE Put(p, [reading[p] EXCEPT !.at = "following"]) /\ UNCHANGED << inflight, void >>
  <2> DEFINE r == [reading[p] EXCEPT !.at = "following"]
  <2>1. r \in Reads /\ r.at = "following" /\ r.generation = g /\ r.since = reading[p].since
    BY <1>0 DEF Reads, ReadStages
  <2>2. reading'[p] = r
    BY <1>3 DEF Put, PInv, PTypeOK
  <2>3. Inhabits(p)' /\ Leads(p)' /\ Sees(p)'
    BY <1>0, <2>1, <2>2 DEF Inhabits, Leads, Sees, Stage, LookUp
  <2> QED
    BY <1>3, <2>1, <2>3, ReadAside DEF LookUp, cacheVars, PInv, PTypeOK
<1> QED
  BY <1>1, <1>2, <1>3 DEF LookUp

LEMMA CopyPInv == ASSUME NEW p \in Pollers PROVE PInv /\ Copy(p) => PInv'
<1> SUFFICES ASSUME PInv, Copy(p) PROVE PInv'
  OBVIOUS
<1> DEFINE r == [reading[p] EXCEPT !.at = "publishing", !.copy = version]
<1>1. /\ r \in Reads /\ r.at = "publishing" /\ r.copy = version
      /\ r.generation = reading[p].generation /\ r.since = reading[p].since
  BY DEF PInv, PTypeOK, Reads, ReadStages, Copies
<1>2. reading'[p] = r
  BY DEF Copy, Put, PInv, PTypeOK
<1>3. FreshCopy(version)' /\ version' = version /\ version \in 0..MaxStates
  BY VersionIsFresh DEF Copy, FreshCopy, PInv, PTypeOK
<1>4. version >= reading[p].since
  BY DEF PInv, PTypeOK, VersionLast, Inhabits, Reads
<1>5. reading[p].generation \in Generations /\ inflight[reading[p].generation] = p
      /\ reading[p].since <= settled
  BY DEF PInv, Inhabits, Leads, Stage, Copy
<1>6. Inhabits(p)' /\ Leads(p)' /\ Sees(p)'
  BY <1>1, <1>2, <1>3, <1>4, <1>5 DEF Inhabits, Leads, Sees, Stage, Copy, cacheVars
<1> QED
  BY <1>1, <1>6, ReadAside DEF Copy, PInv, PTypeOK
LEMMA CopyFailsPInv == ASSUME NEW p \in Pollers PROVE PInv /\ CopyFails(p) => PInv'
<1> SUFFICES ASSUME PInv, CopyFails(p) PROVE PInv'
  OBVIOUS
<1> DEFINE g == reading[p].generation
<1>1. g \in Generations /\ inflight[g] = p
  BY DEF CopyFails, PInv, Inhabits, Leads, Stage
<1>2. reading'[p] = NoReading
  BY DEF CopyFails, Close, Put, PInv, PTypeOK
<1>3. Inhabits(p)' /\ Leads(p)' /\ Sees(p)'
  BY <1>2 DEF Inhabits, Leads, Sees, Stage, NoReading, CopyFails, PInv, PTypeOK
<1>4. CacheFresh'
  BY DEF CopyFails, PInv, CacheFresh, FreshCopy
<1>5. \A h \in Generations : inflight[h] \in Pollers \ {p} => inflight'[h] = inflight[h] /\ void'[h] = void[h]
  BY <1>1 DEF CopyFails, PInv, PTypeOK
<1>6. inflight' \in [Generations -> Pollers \cup {Nobody}] /\ barrier' \in Pollers \cup Writers \cup {Nobody}
  BY DEF CopyFails, LeaveBarrier, PInv, PTypeOK
<1> QED
  BY <1>3, <1>4, <1>5, <1>6, ClosedReads, ReadStep DEF CopyFails, Close, PInv, PTypeOK

LEMMA PublishCopyPInv == ASSUME NEW p \in Pollers PROVE PInv /\ PublishCopy(p) => PInv'
<1> SUFFICES ASSUME PInv, PublishCopy(p) PROVE PInv'
  OBVIOUS
<1> DEFINE g == reading[p].generation
           r == [reading[p] EXCEPT !.at = "copied"]
<1>1. /\ g \in Generations /\ inflight[g] = p /\ reading[p].since <= settled
      /\ reading[p].copy \in 0..MaxStates /\ reading[p].copy >= reading[p].since
      /\ ~void[g] => FreshCopy(reading[p].copy)
  BY DEF PublishCopy, PInv, Inhabits, Leads, Stage
<1>2. /\ r \in Reads /\ r.at = "copied" /\ r.copy = reading[p].copy
      /\ r.generation = g /\ r.since = reading[p].since
  BY DEF PInv, PTypeOK, Reads, ReadStages
<1>3. reading'[p] = r
  BY DEF PublishCopy, Put, PInv, PTypeOK
<1>4. Inhabits(p)' /\ Leads(p)' /\ Sees(p)'
  BY <1>1, <1>2, <1>3 DEF Inhabits, Leads, Sees, Stage, PublishCopy
<1>5. CacheFresh'
  BY <1>1 DEF PublishCopy, MayPublish, PInv, PTypeOK, CacheFresh, FreshCopy
<1>6. \A h \in Generations : inflight[h] \in Pollers \ {p} => inflight'[h] = inflight[h] /\ void'[h] = void[h]
  BY <1>1 DEF PublishCopy, PInv, PTypeOK
<1>7. /\ inflight' \in [Generations -> Pollers \cup {Nobody}]
      /\ entries' \in [Generations -> Copies]
  BY <1>1 DEF PublishCopy, PInv, PTypeOK, Copies
<1> QED
  BY <1>2, <1>4, <1>5, <1>6, <1>7, ReadStep DEF PublishCopy, PInv, PTypeOK

LEMMA FollowPInv == ASSUME NEW p \in Pollers PROVE PInv /\ Follow(p) => PInv'
<1> SUFFICES ASSUME PInv, Follow(p) PROVE PInv'
  OBVIOUS
<1> DEFINE g == reading[p].generation
<1>0. g \in Generations /\ reading[p] \in Reads /\ reading[p].since <= settled
  BY DEF Follow, Stage, PInv, PTypeOK, Inhabits
<1>1. CASE entries[g] # NoCopy /\ Put(p, [reading[p] EXCEPT !.at = "copied", !.copy = entries[g], !.cached = TRUE])
  <2> DEFINE r == [reading[p] EXCEPT !.at = "copied", !.copy = entries[g], !.cached = TRUE]
  <2>1. /\ r \in Reads /\ r.at = "copied" /\ r.copy = entries[g]
        /\ r.generation = g /\ r.since = reading[p].since
    BY <1>0 DEF PInv, PTypeOK, Reads, ReadStages
  <2>2. reading'[p] = r
    BY <1>1 DEF Put, PInv, PTypeOK
  <2>3. entries[g] \in 0..MaxStates /\ entries[g] >= settled /\ settled \in 0..MaxStates
    BY <1>0, <1>1 DEF PInv, PTypeOK, CacheFresh, FreshCopy, Copies
  <2>4. entries[g] >= reading[p].since
    BY <1>0, <2>3 DEF Reads
  <2>5. Inhabits(p)' /\ Leads(p)' /\ Sees(p)'
    BY <1>0, <2>1, <2>2, <2>3, <2>4 DEF Inhabits, Leads, Sees, Stage, Follow
  <2> QED
    BY <1>1, <2>1, <2>5, ReadAside DEF Follow, PInv, PTypeOK
<1>2. CASE Put(p, [reading[p] EXCEPT !.at = "own"])
  <2> DEFINE r == [reading[p] EXCEPT !.at = "own"]
  <2>1. r \in Reads /\ r.at = "own" /\ r.generation = g /\ r.since = reading[p].since
    BY <1>0 DEF Reads, ReadStages
  <2>2. reading'[p] = r
    BY <1>2 DEF Put, PInv, PTypeOK
  <2>3. Inhabits(p)' /\ Leads(p)' /\ Sees(p)'
    BY <1>0, <2>1, <2>2 DEF Inhabits, Leads, Sees, Stage, Follow
  <2> QED
    BY <1>2, <2>1, <2>3, ReadAside DEF Follow, PInv, PTypeOK
<1> QED
  BY <1>1, <1>2 DEF Follow

LEMMA OwnCopyPInv == ASSUME NEW p \in Pollers PROVE PInv /\ OwnCopy(p) => PInv'
<1> SUFFICES ASSUME PInv, OwnCopy(p) PROVE PInv'
  OBVIOUS
<1> DEFINE r == [reading[p] EXCEPT !.at = "copied", !.copy = version, !.cached = FALSE]
<1>1. /\ r \in Reads /\ r.at = "copied" /\ r.copy = version
      /\ r.generation = reading[p].generation /\ r.since = reading[p].since
  BY DEF PInv, PTypeOK, Reads, ReadStages, Copies
<1>2. reading'[p] = r
  BY DEF OwnCopy, Put, PInv, PTypeOK
<1>3. version >= reading[p].since /\ version \in 0..MaxStates
  BY DEF PInv, PTypeOK, VersionLast, Inhabits, Reads
<1>4. Inhabits(p)' /\ Leads(p)' /\ Sees(p)'
  BY <1>1, <1>2, <1>3 DEF Inhabits, Leads, Sees, Stage, OwnCopy, PInv
<1> QED
  BY <1>1, <1>4, ReadAside DEF OwnCopy, PInv, PTypeOK

LEMMA AnswerPollPInv == ASSUME NEW p \in Pollers PROVE PInv /\ AnswerPoll(p) => PInv'
<1> SUFFICES ASSUME PInv, AnswerPoll(p) PROVE PInv'
  OBVIOUS
<1>1. reading'[p] = NoReading
  BY DEF AnswerPoll, Close, Put, PInv, PTypeOK
<1>2. Inhabits(p)' /\ Leads(p)' /\ Sees(p)'
  BY <1>1 DEF Inhabits, Leads, Sees, Stage, NoReading, AnswerPoll, PInv, PTypeOK
<1>3. barrier' \in Pollers \cup Writers \cup {Nobody}
  BY DEF AnswerPoll, LeaveBarrier, PInv, PTypeOK
<1> QED
  BY <1>2, <1>3, ClosedReads, ReadAside DEF AnswerPoll, Close

-------------------------------------------------------------------------------
(* What the readers rely on is kept by a step that is none of theirs if it only
   moves the state on and what is fresh stays fresh. *)
LEMMA ReadersKept ==
  ASSUME PInv, PTypeOK', UNCHANGED reading, settled <= settled',
         \A g \in Generations : inflight'[g] = inflight[g] /\ (void[g] => void'[g]),
         \A g \in Generations, c \in 0..MaxStates :
           inflight[g] # Nobody /\ ~void'[g] /\ FreshCopy(c) => FreshCopy(c)'
  PROVE  \A p \in Pollers : Inhabits(p)' /\ Leads(p)' /\ Sees(p)'
<1> SUFFICES ASSUME NEW p \in Pollers PROVE Inhabits(p)' /\ Leads(p)' /\ Sees(p)'
  OBVIOUS
<1>1. Inhabits(p) /\ Leads(p) /\ Sees(p) /\ reading[p] \in Reads
  BY DEF PInv, PTypeOK
<1>2. Inhabits(p)' /\ Sees(p)'
  BY <1>1 DEF Inhabits, Sees, Stage, PInv, PTypeOK, Reads
<1>3. Leads(p)'
  BY <1>1, PollingAssumption DEF Leads, Inhabits, Stage, PInv, PTypeOK
<1> QED
  BY <1>2, <1>3

LEMMA AdmitWritePInv == ASSUME NEW w \in Writers PROVE PInv /\ AdmitWrite(w) => PInv'
<1> SUFFICES ASSUME PInv, AdmitWrite(w) PROVE PInv'
  OBVIOUS
<1>1. PTypeOK'
  BY PollingAssumption DEF AdmitWrite, PInv, PTypeOK, Writes, cacheVars
<1>2. VersionLast'
  BY DEF AdmitWrite, PInv, PTypeOK, VersionLast
<1>3. \A c \in 0..MaxStates : FreshCopy(c) => FreshCopy(c)'
  BY DEF AdmitWrite, FreshCopy, PInv, PTypeOK
<1>4. CacheFresh'
  BY <1>3 DEF AdmitWrite, cacheVars, CacheFresh, PInv, PTypeOK, Copies
<1> QED
  BY <1>1, <1>2, <1>3, <1>4, ReadersKept DEF AdmitWrite, cacheVars, PInv, PTypeOK

LEMMA MutatePInv == ASSUME NEW w \in Writers PROVE PInv /\ Mutate(w) => PInv'
<1> SUFFICES ASSUME PInv, Mutate(w) PROVE PInv'
  OBVIOUS
<1>0. version' \in 0..MaxStates /\ version' >= version
  BY PollingAssumption DEF Mutate, PInv, PTypeOK
<1>1. PTypeOK'
  BY <1>0 DEF Mutate, PInv, PTypeOK, Writes, cacheVars
<1>2. VersionLast'
  BY <1>0 DEF Mutate, PInv, PTypeOK, VersionLast, Writes
<1>3. \A c \in 0..MaxStates : FreshCopy(c) => FreshCopy(c)'
  BY DEF Mutate, FreshCopy, PInv, PTypeOK
<1>4. CacheFresh'
  BY <1>3 DEF Mutate, cacheVars, CacheFresh, PInv, PTypeOK, Copies
<1> QED
  BY <1>1, <1>2, <1>3, <1>4, ReadersKept DEF Mutate, cacheVars, PInv, PTypeOK

LEMMA FailWritePInv == ASSUME NEW w \in Writers PROVE PInv /\ FailWrite(w) => PInv'
<1> SUFFICES ASSUME PInv, FailWrite(w) PROVE PInv'
  OBVIOUS
<1>0. version' \in 0..MaxStates /\ version' >= version
  BY PollingAssumption DEF FailWrite, PInv, PTypeOK
<1>1. PTypeOK'
  BY <1>0, PollingAssumption DEF FailWrite, PInv, PTypeOK, Writes, NoWrite, cacheVars
<1>2. VersionLast'
  BY <1>0 DEF FailWrite, PInv, PTypeOK, VersionLast, Writes, NoWrite
<1>3. \A c \in 0..MaxStates : FreshCopy(c) => FreshCopy(c)'
  BY DEF FailWrite, FreshCopy, NoWrite, PInv, PTypeOK
<1>4. CacheFresh'
  BY <1>3 DEF FailWrite, cacheVars, CacheFresh, PInv, PTypeOK, Copies
<1> QED
  BY <1>1, <1>2, <1>3, <1>4, ReadersKept DEF FailWrite, cacheVars, PInv, PTypeOK

LEMMA InvalidateAfterPInv == ASSUME NEW w \in Writers PROVE PInv /\ InvalidateAfter(w) => PInv'
<1> SUFFICES ASSUME PInv, InvalidateAfter(w) PROVE PInv'
  OBVIOUS
<1>1. PTypeOK'
  BY PollingAssumption DEF InvalidateAfter, Voided, PInv, PTypeOK, Writes, Copies
<1>2. VersionLast'
  BY DEF InvalidateAfter, PInv, PTypeOK, VersionLast
<1>3. CacheFresh'
  BY DEF InvalidateAfter, Voided, CacheFresh
<1>4. \A p \in Pollers : Inhabits(p)' /\ Leads(p)' /\ Sees(p)'
  <2> SUFFICES ASSUME NEW p \in Pollers PROVE Inhabits(p)' /\ Leads(p)' /\ Sees(p)'
    OBVIOUS
  <2>1. Inhabits(p) /\ Leads(p) /\ Sees(p) /\ p # Nobody
    BY PollingAssumption DEF PInv
  <2>2. Inhabits(p)' /\ Sees(p)'
    BY <2>1 DEF Inhabits, Sees, Stage, InvalidateAfter
  <2>3. Leads(p)'
    BY <2>1 DEF Leads, Inhabits, Stage, InvalidateAfter, Voided
  <2> QED
    BY <2>2, <2>3
<1> QED
  BY <1>1, <1>2, <1>3, <1>4 DEF PInv

LEMMA FinishWritePInv == ASSUME NEW w \in Writers PROVE PInv /\ FinishWrite(w) => PInv'
<1> SUFFICES ASSUME PInv, FinishWrite(w) PROVE PInv'
  OBVIOUS
<1>0. settled' \in 0..MaxStates /\ settled <= settled' /\ settled' <= version
  BY DEF FinishWrite, PInv, PTypeOK, VersionLast, Writes
<1>1. PTypeOK'
  BY <1>0, PollingAssumption DEF FinishWrite, LeaveBarrier, PInv, PTypeOK, Writes, NoWrite, cacheVars
<1>2. VersionLast'
  BY <1>0 DEF FinishWrite, PInv, PTypeOK, VersionLast, Writes, NoWrite
<1>3. \A c \in 0..MaxStates : FreshCopy(c) => FreshCopy(c)'
  BY DEF FinishWrite, FreshCopy, NoWrite, PInv, PTypeOK
<1>4. CacheFresh'
  BY <1>3 DEF FinishWrite, cacheVars, CacheFresh, PInv, PTypeOK, Copies
<1> QED
  BY <1>0, <1>1, <1>2, <1>3, <1>4, ReadersKept DEF FinishWrite, cacheVars, PInv, PTypeOK

LEMMA EvictRetiredPInv == ASSUME NEW g \in Generations PROVE PInv /\ EvictRetired(g) => PInv'
<1> SUFFICES ASSUME PInv, EvictRetired(g) PROVE PInv'
  OBVIOUS
<1>1. PTypeOK'
  BY DEF EvictRetired, PInv, PTypeOK, Copies
<1>2. VersionLast'
  BY DEF EvictRetired, PInv, VersionLast
<1>3. CacheFresh'
  BY DEF EvictRetired, CacheFresh, FreshCopy, PInv, PTypeOK
<1>4. \A p \in Pollers : Inhabits(p)' /\ Leads(p)' /\ Sees(p)'
  <2> SUFFICES ASSUME NEW p \in Pollers PROVE Inhabits(p)' /\ Leads(p)' /\ Sees(p)'
    OBVIOUS
  <2>1. Inhabits(p) /\ Leads(p) /\ Sees(p) /\ p # Nobody
    BY PollingAssumption DEF PInv
  <2>2. Inhabits(p)' /\ Sees(p)'
    BY <2>1 DEF Inhabits, Sees, Stage, EvictRetired
  <2>3. Leads(p)'
    BY <2>1 DEF Leads, Inhabits, Stage, EvictRetired, PInv, PTypeOK, FreshCopy
  <2> QED
    BY <2>2, <2>3
<1> QED
  BY <1>1, <1>2, <1>3, <1>4 DEF PInv

LEMMA ReplacePInv == PInv /\ Replace => PInv'
<1> SUFFICES ASSUME PInv, Replace PROVE PInv'
  OBVIOUS
<1>1. PTypeOK'
  BY PollingAssumption DEF Replace, PInv, PTypeOK, Generations, cacheVars
<1> QED
  BY <1>1 DEF Replace, cacheVars, PInv, VersionLast, CacheFresh, FreshCopy, Inhabits, Leads, Sees, Stage

LEMMA ChatChangePInv == PInv /\ ChatChange => PInv'
<1> SUFFICES ASSUME PInv, ChatChange PROVE PInv'
  OBVIOUS
<1>1. PTypeOK'
  BY PollingAssumption DEF ChatChange, PInv, PTypeOK, cacheVars
<1>2. VersionLast'
  BY DEF ChatChange, PInv, PTypeOK, VersionLast, Writes
<1> QED
  BY <1>1, <1>2 DEF ChatChange, cacheVars, PInv, CacheFresh, FreshCopy, Inhabits, Leads, Sees, Stage

LEMMA AsidePInv == PInv /\ ((\E k \in Revocable : Withdraw(k)) \/ UNCHANGED pollingVars) => PInv'
BY DEF Withdraw, pollingVars, cacheVars, PInv, PTypeOK, VersionLast, CacheFresh, FreshCopy, Inhabits,
   Leads, Sees, Stage

-------------------------------------------------------------------------------
LEMMA StepPInv == PInv /\ [PollingNext]_pollingVars => PInv'
<1> SUFFICES ASSUME PInv, [PollingNext]_pollingVars PROVE PInv'
  OBVIOUS
<1>1. ASSUME NEW p \in Pollers, NEW kind \in PollKinds, BeginPoll(p, kind) PROVE PInv'
  BY <1>1, BeginPollPInv
<1>2. ASSUME NEW p \in Pollers,
             \/ AdmitPoll(p) \/ LookUp(p) \/ Copy(p) \/ CopyFails(p)
             \/ PublishCopy(p) \/ Follow(p) \/ OwnCopy(p) \/ AnswerPoll(p)
      PROVE  PInv'
  BY <1>2, AdmitPollPInv, LookUpPInv, CopyPInv, CopyFailsPInv, PublishCopyPInv, FollowPInv, OwnCopyPInv,
     AnswerPollPInv
<1>3. ASSUME NEW w \in Writers,
             AdmitWrite(w) \/ Mutate(w) \/ FailWrite(w) \/ InvalidateAfter(w) \/ FinishWrite(w)
      PROVE  PInv'
  BY <1>3, AdmitWritePInv, MutatePInv, FailWritePInv, InvalidateAfterPInv, FinishWritePInv
<1>4. ASSUME NEW g \in Generations, EvictRetired(g) PROVE PInv'
  BY <1>4, EvictRetiredPInv
<1>5. CASE (\E k \in Revocable : Withdraw(k)) \/ UNCHANGED pollingVars
  BY <1>5, AsidePInv
<1>6. CASE ChatChange \/ Replace
  BY <1>6, ChatChangePInv, ReplacePInv
<1> QED
  BY <1>1, <1>2, <1>3, <1>4, <1>5, <1>6 DEF PollingNext

(* PollingInv: the argument of this module is an invariant of every behaviour. *)
THEOREM PollingInv == PollingSpec => []PInv
<1>1. PollingInit => PInv
  BY InitPInv
<1>2. PInv /\ [PollingNext]_pollingVars => PInv'
  BY StepPInv
<1> QED
  BY <1>1, <1>2, PTL DEF PollingSpec

(* ReadsSeeWrites: whoever leads, follows, publishes or fails meanwhile, and
   however often the bot is replaced, a read that began after a command had
   finished is served a state at least as new as that command left
   (resource_api/resources.py: _SnapshotCache). *)
THEOREM ReadsSeeWrites == PollingSpec => []ReadYourWrites
<1>1. PInv => ReadYourWrites
  BY DEF PInv, Sees, ReadYourWrites
<1> QED
  BY <1>1, PollingInv, PTL

\* Generations, leaders and answers have their types (resource_api/polling.py).
THEOREM PollingTypesHold == PollingSpec => []PollingTypeOK
<1>1. PInv => PollingTypeOK
  BY DEF PInv, PTypeOK, Reads, PollingTypeOK
<1> QED
  BY <1>1, PollingInv, PTL

-----------------------------------------------------------------------------
(* Enrollment *)

StoredKeys == [code : Codes, user : People, bot : AuthBots, revision : Int,
               revoked : BOOLEAN, expired : BOOLEAN]
StoredRows == [revision : Int, acceptAfter : Int, enabled : BOOLEAN, deleted : BOOLEAN]
ChatRows ==
  {NoChat} \cup [at : {"bind", "unbind"}, user : People]
           \cup [at : {"commit", "finalize"}, user : People, code : Codes]
CallRows == {NoCall} \cup [at : {"asked", "executing"}, key : StoredKeys]

KeysTyped ==
  /\ pending \in [Codes -> {"unused", "waiting", "reserved", "gone"}]
  /\ born \in [Codes -> [AuthBots -> Int]] /\ boundary \in [AuthBots -> Int]
  /\ keys \subseteq StoredKeys /\ botRow \in [AuthBots -> StoredRows]
  /\ chat \in [AuthBots -> ChatRows] /\ call \in [Callers -> CallRows]
  /\ DOMAIN guarded = AuthBots

Confirms(b) == chat[b].at \in {"commit", "finalize"}

\* Whoever acts on a bot's keys has its guard.
Guards ==
  /\ \A b \in AuthBots : chat[b].at # "none" => guarded[b] = "chat"
  /\ \A x \in Callers : call[x].at = "executing" => guarded[call[x].key.bot] = x

\* A live key is of the bot's present identity and from a code that is younger.
YoungKeys ==
  /\ \A k \in keys : ~ k.revoked => /\ k.revision = botRow[k.bot].revision
                                    /\ born[k.code][k.bot] > botRow[k.bot].acceptAfter
  /\ \A b \in AuthBots : chat[b].at = "commit" => born[chat[b].code][b] > botRow[b].acceptAfter

\* A code that is being confirmed is reserved, for one chat worker; a code with
\* a key is gone or about to be.
OneUse ==
  /\ \A b \in AuthBots : Confirms(b) => pending[chat[b].code] = "reserved"
  /\ \A a, b \in AuthBots : Confirms(a) /\ Confirms(b) /\ chat[a].code = chat[b].code => a = b
  /\ \A k \in keys : \/ pending[k.code] = "gone"
                     \/ \E b \in AuthBots : chat[b].at = "finalize" /\ chat[b].code = k.code

UniqueKeys ==
  \A k, l \in keys :
    /\ k.code = l.code => k = l
    /\ (k.user = l.user /\ k.bot = l.bot /\ ~ k.revoked /\ ~ l.revoked) => k = l

\* What is finalized was committed: the user has a key on the bot.
Committed ==
  \A b \in AuthBots : chat[b].at = "finalize" => \E k \in keys : k.user = chat[b].user /\ k.bot = b

MemoryBounded == IsFiniteSet(Outstanding) /\ Cardinality(Outstanding) <= MaxPending

KInv ==
  /\ KeysTyped /\ Guards /\ ActsWithLiveKey /\ YoungKeys
  /\ OneUse /\ UniqueKeys /\ Committed /\ MemoryBounded

\* A step that leaves the keys, their rows and everybody at work on them.
LEMMA KeysFrame ==
  ASSUME KInv, UNCHANGED << pending, born, keys, botRow, chat, guarded, call >>,
         boundary' \in [AuthBots -> Int]
  PROVE  KInv'
BY DEF KInv, KeysTyped, Guards, ActsWithLiveKey, YoungKeys, OneUse, Confirms, UniqueKeys,
       Committed, MemoryBounded, Outstanding

\* A chat worker's states, as the actions write them.
LEMMA ChatIs ==
  ASSUME KeysTyped, NEW b \in AuthBots
  PROVE  /\ NoChat \in ChatRows /\ NoChat.at = "none"
         /\ chat[b] = NoChat <=> chat[b].at = "none"
         /\ chat[b].at # "none" => chat[b].user \in People
         /\ Confirms(b) => chat[b] \in [at : {"commit", "finalize"}, user : People, code : Codes]
BY DEF KeysTyped, ChatRows, NoChat, Confirms

\* The worker leaves: whatever it did, it confirms nothing any more.
LEMMA ChatLeaves ==
  ASSUME KeysTyped, NEW b \in AuthBots, LeaveChat(b)
  PROVE  /\ chat' \in [AuthBots -> ChatRows] /\ chat'[b] = NoChat /\ chat'[b].at = "none"
         /\ DOMAIN guarded' = AuthBots /\ guarded'[b] = Free
         /\ \A a \in AuthBots : a # b => chat'[a] = chat[a] /\ guarded'[a] = guarded[a]
BY ChatIs DEF LeaveChat, KeysTyped

\* Fewer codes are outstanding, or as many.
LEMMA StillBounded ==
  ASSUME MemoryBounded, Outstanding' \subseteq Outstanding
  PROVE  MemoryBounded'
<1>1. IsFiniteSet(Outstanding') /\ Cardinality(Outstanding') <= Cardinality(Outstanding)
  BY FS_Subset DEF MemoryBounded
<1>2. Cardinality(Outstanding) \in Nat /\ Cardinality(Outstanding') \in Nat
  BY <1>1, FS_CardinalityType DEF MemoryBounded
<1>3. MaxPending \in Nat
  BY EnrollAssumption
<1>4. QED BY <1>1, <1>2, <1>3 DEF MemoryBounded

LEMMA CreateBindingKeys == ASSUME KInv, CreateBinding PROVE KInv'
<1>1. PICK c \in Codes : /\ pending[c] = "unused"
                         /\ pending' = [pending EXCEPT ![c] = "waiting"]
                         /\ born' = [born EXCEPT ![c] = boundary]
  BY DEF CreateBinding
<1>2. UNCHANGED << keys, botRow, boundary, chat, guarded, call >> /\ Cardinality(Outstanding) < MaxPending
  BY DEF CreateBinding
<1>3. \A k \in keys : k.code \in Codes /\ k.code # c
  BY <1>1 DEF KInv, KeysTyped, StoredKeys, OneUse, Confirms
<1>4. \A b \in AuthBots : Confirms(b) => chat[b].code \in Codes /\ chat[b].code # c
  BY <1>1, ChatIs DEF KInv, OneUse
<1>5. KeysTyped' /\ Guards' /\ UniqueKeys' /\ Committed'
  BY <1>1, <1>2 DEF KInv, KeysTyped, Guards, UniqueKeys, Committed
<1>6. \A d \in Codes : d # c => born'[d] = born[d] /\ pending'[d] = pending[d]
  BY <1>1 DEF KInv, KeysTyped
<1>7. ActsWithLiveKey'
  BY <1>2, <1>3, <1>6 DEF KInv, ActsWithLiveKey
<1>8. YoungKeys'
  BY <1>2, <1>3, <1>4, <1>6 DEF KInv, YoungKeys, Confirms
<1>9. OneUse'
  BY <1>2, <1>3, <1>4, <1>6 DEF KInv, OneUse, Confirms
<1>10. MemoryBounded'
  <2>1. Outstanding' = Outstanding \cup {c} /\ c \notin Outstanding
    BY <1>1, <1>6 DEF Outstanding, KInv, KeysTyped
  <2>2. IsFiniteSet(Outstanding) /\ Cardinality(Outstanding) \in Nat /\ MaxPending \in Nat
    BY FS_CardinalityType, EnrollAssumption DEF KInv, MemoryBounded
  <2>3. IsFiniteSet(Outstanding') /\ Cardinality(Outstanding') = Cardinality(Outstanding) + 1
    BY <2>1, <2>2, FS_AddElement
  <2>4. QED BY <1>2, <2>2, <2>3 DEF MemoryBounded
<1>11. QED BY <1>5, <1>7, <1>8, <1>9, <1>10 DEF KInv

LEMMA WindowClosesKeys == ASSUME KInv, NEW c \in Codes, WindowCloses(c) PROVE KInv'
<1>1. /\ pending[c] = "waiting" /\ pending' = [pending EXCEPT ![c] = "gone"]
      /\ UNCHANGED << born, keys, botRow, boundary, chat, guarded, call >>
  BY DEF WindowCloses
<1>2. KeysTyped' /\ Guards' /\ UniqueKeys' /\ Committed' /\ ActsWithLiveKey' /\ YoungKeys'
  BY <1>1 DEF KInv, KeysTyped, Guards, UniqueKeys, Committed, ActsWithLiveKey, YoungKeys
<1>3. \A b \in AuthBots : Confirms(b) => chat[b].code \in Codes /\ chat[b].code # c
  BY <1>1, ChatIs DEF KInv, OneUse
<1>4. OneUse'
  BY <1>1, <1>3 DEF KInv, OneUse, Confirms, KeysTyped
<1>5. Outstanding' \subseteq Outstanding
  BY <1>1 DEF Outstanding, KInv, KeysTyped
<1>6. QED BY <1>2, <1>4, <1>5, StillBounded DEF KInv

LEMMA EnterChatKeys == ASSUME KInv, NEW b \in AuthBots, EnterChat(b) PROVE KInv'
<1>1. PICK u \in People, what \in {"bind", "unbind"} :
        chat' = [chat EXCEPT ![b] = [at |-> what, user |-> u]]
  BY DEF EnterChat
<1>2. /\ guarded[b] = Free /\ guarded' = [guarded EXCEPT ![b] = "chat"]
      /\ UNCHANGED << pending, born, keys, botRow, boundary, call >>
  BY DEF EnterChat
<1>3. [at |-> what, user |-> u] \in ChatRows /\ [at |-> what, user |-> u].at = what
  BY DEF ChatRows
<1>4. KeysTyped' /\ chat'[b].at = what /\ \A a \in AuthBots : a # b => chat'[a] = chat[a]
  BY <1>1, <1>2, <1>3 DEF KInv, KeysTyped
<1>5. Guards'
  <2>1. \A x \in Callers : call[x].at = "executing" => call[x].key.bot # b
    BY <1>2, EnrollAssumption DEF KInv, Guards
  <2>2. QED BY <1>2, <1>4, <2>1 DEF KInv, Guards, KeysTyped
<1>6. UniqueKeys' /\ ActsWithLiveKey'
  BY <1>2 DEF KInv, UniqueKeys, ActsWithLiveKey
<1>7. Committed' /\ YoungKeys'
  BY <1>2, <1>4 DEF KInv, Committed, YoungKeys
<1>8. chat[b].at = "none"
  BY <1>2, EnrollAssumption DEF KInv, Guards
<1>9. OneUse'
  BY <1>2, <1>4, <1>8 DEF KInv, OneUse, Confirms
<1>10. MemoryBounded'
  BY <1>2 DEF KInv, MemoryBounded, Outstanding
<1>11. QED BY <1>4, <1>5, <1>6, <1>7, <1>9, <1>10 DEF KInv

\* A chat worker ends: it hands its code back, or uses it up.
LEMMA ChatEnds ==
  ASSUME KInv, NEW b \in AuthBots, LeaveChat(b), chat[b].at # "none",
         UNCHANGED << born, keys, botRow, boundary, call >>,
         \/ ~ Confirms(b) /\ UNCHANGED pending
         \/ /\ Confirms(b)
            /\ \E v \in {"waiting", "gone"} : /\ pending' = [pending EXCEPT ![chat[b].code] = v]
                                              /\ chat[b].at = "finalize" => v = "gone"
  PROVE  KInv'
<1>1. /\ chat' \in [AuthBots -> ChatRows] /\ chat'[b].at = "none"
      /\ DOMAIN guarded' = AuthBots /\ guarded[b] = "chat"
      /\ \A a \in AuthBots : a # b => chat'[a] = chat[a] /\ guarded'[a] = guarded[a]
  BY ChatLeaves DEF KInv, Guards
<1>2. \A x \in Callers : call[x].at = "executing" =>
        call[x].key.bot \in AuthBots /\ call[x].key.bot # b
  <2>1. \A x \in Callers : call[x].at = "executing" => call[x].key \in StoredKeys
    BY DEF KInv, KeysTyped, CallRows, NoCall
  <2>2. QED BY <1>1, <2>1, EnrollAssumption DEF KInv, Guards, StoredKeys
<1>3. Guards' /\ UniqueKeys' /\ Committed' /\ ActsWithLiveKey' /\ YoungKeys'
  BY <1>1, <1>2 DEF KInv, Guards, UniqueKeys, Committed, ActsWithLiveKey, YoungKeys
<1>4. CASE ~ Confirms(b) /\ UNCHANGED pending
  <2>1. KeysTyped'
    BY <1>1, <1>4 DEF KInv, KeysTyped
  <2>2. OneUse'
    BY <1>1, <1>4 DEF KInv, OneUse, Confirms
  <2>3. MemoryBounded'
    BY <1>4 DEF KInv, MemoryBounded, Outstanding
  <2>4. QED BY <1>3, <2>1, <2>2, <2>3 DEF KInv
<1>5. ASSUME Confirms(b), NEW v \in {"waiting", "gone"},
             pending' = [pending EXCEPT ![chat[b].code] = v],
             chat[b].at = "finalize" => v = "gone"
      PROVE  KInv'
  <2> DEFINE c == chat[b].code
  <2>1. c \in Codes /\ pending[c] = "reserved"
    BY <1>5, ChatIs DEF KInv, OneUse
  <2>2. KeysTyped'
    BY <1>1, <1>5, <2>1 DEF KInv, KeysTyped
  <2>3. \A d \in Codes : d # c => pending'[d] = pending[d]
    BY <1>5, <2>1 DEF KInv, KeysTyped
  <2>4. pending'[c] = v
    BY <1>5, <2>1 DEF KInv, KeysTyped
  <2>5. ASSUME NEW a \in AuthBots, Confirms(a)'
        PROVE  a # b /\ Confirms(a) /\ chat'[a] = chat[a] /\ chat[a].code # c /\ chat[a].code \in Codes
    BY <1>1, <1>5, <2>5, ChatIs DEF KInv, OneUse, Confirms
  <2>6. ASSUME NEW k \in keys
        PROVE  \/ pending'[k.code] = "gone"
               \/ \E a \in AuthBots : chat'[a].at = "finalize" /\ chat'[a].code = k.code
    <3>1. k.code \in Codes
      BY DEF KInv, KeysTyped, StoredKeys
    <3>2. CASE pending[k.code] = "gone"
      BY <2>1, <2>3, <3>1, <3>2
    <3>3. CASE pending[k.code] # "gone"
      <4>1. PICK a \in AuthBots : chat[a].at = "finalize" /\ chat[a].code = k.code
        BY <3>3 DEF KInv, OneUse
      <4>2. CASE a = b
        BY <1>5, <2>4, <4>1, <4>2
      <4>3. CASE a # b
        BY <1>1, <4>1, <4>3
      <4>4. QED BY <4>2, <4>3
    <3>4. QED BY <3>2, <3>3
  <2>7. OneUse'
    <3>1. \A a \in AuthBots : Confirms(a)' => pending'[chat'[a].code] = "reserved"
      BY <2>3, <2>5 DEF KInv, OneUse
    <3>2. \A a, d \in AuthBots : Confirms(a)' /\ Confirms(d)' /\ chat'[a].code = chat'[d].code => a = d
      BY <2>5 DEF KInv, OneUse
    <3>3. QED BY <2>6, <3>1, <3>2 DEF OneUse
  <2>8. Outstanding' \subseteq Outstanding
    BY <2>1, <2>3 DEF Outstanding
  <2>9. QED BY <1>3, <2>2, <2>7, <2>8, StillBounded DEF KInv
<1>6. QED BY <1>4, <1>5

LEMMA ReserveCodeKeys == ASSUME KInv, NEW b \in AuthBots, ReserveCode(b) PROVE KInv'
<1>1. /\ chat[b].at = "bind" /\ chat[b].at # "none" /\ ~ Confirms(b) /\ guarded[b] = "chat"
      /\ UNCHANGED << born, keys, botRow, boundary, call >>
  BY DEF ReserveCode, Confirms, KInv, Guards
<1>2. CASE LeaveChat(b) /\ UNCHANGED pending
  BY <1>1, <1>2, ChatEnds
<1>3. ASSUME NEW c \in Codes, pending[c] = "waiting", ~ (born[c][b] <= botRow[b].acceptAfter),
             pending' = [pending EXCEPT ![c] = "reserved"],
             chat' = [chat EXCEPT ![b] = [at |-> "commit", user |-> chat[b].user, code |-> c]],
             UNCHANGED guarded
      PROVE  KInv'
  <2> DEFINE r == [at |-> "commit", user |-> chat[b].user, code |-> c]
  <2>1. r \in ChatRows /\ r.at = "commit" /\ r.code = c
    BY <1>1, ChatIs DEF ChatRows, KInv
  <2>2. chat' = [chat EXCEPT ![b] = r]
    BY <1>3
  <2> HIDE DEF r
  <2>3. /\ chat'[b] = r /\ \A a \in AuthBots : a # b => chat'[a] = chat[a]
        /\ pending'[c] = "reserved" /\ \A d \in Codes : d # c => pending'[d] = pending[d]
    BY <1>3, <2>2 DEF KInv, KeysTyped
  <2>4. KeysTyped'
    BY <1>1, <1>3, <2>1, <2>2 DEF KInv, KeysTyped
  <2>5. Guards' /\ UniqueKeys' /\ ActsWithLiveKey'
    BY <1>1, <1>3, <2>3 DEF KInv, Guards, UniqueKeys, ActsWithLiveKey
  <2>6. Committed'
    BY <1>1, <2>1, <2>3 DEF KInv, Committed
  <2>7. born[c][b] \in Int /\ botRow[b].acceptAfter \in Int
    BY DEF KInv, KeysTyped, StoredRows
  <2>8. YoungKeys'
    BY <1>1, <1>3, <2>1, <2>3, <2>7 DEF KInv, YoungKeys
  <2>9. \A a \in AuthBots : Confirms(a) => chat[a].code \in Codes /\ chat[a].code # c
    BY <1>3, ChatIs DEF KInv, OneUse
  <2>10. \A k \in keys : k.code \in Codes /\ k.code # c
    BY <1>3, <2>9 DEF KInv, KeysTyped, StoredKeys, OneUse, Confirms
  <2>11. OneUse'
    BY <1>1, <2>1, <2>3, <2>9, <2>10 DEF KInv, OneUse, Confirms
  <2>12. Outstanding' \subseteq Outstanding
    BY <1>3, <2>3 DEF Outstanding
  <2>13. QED BY <2>4, <2>5, <2>6, <2>8, <2>11, <2>12, StillBounded DEF KInv
<1>4. QED BY <1>2, <1>3 DEF ReserveCode

LEMMA FinalizeCodeKeys == ASSUME KInv, NEW b \in AuthBots, FinalizeCode(b) PROVE KInv'
<1>1. /\ chat[b].at = "finalize" /\ chat[b].at # "none" /\ Confirms(b) /\ LeaveChat(b)
      /\ pending' = [pending EXCEPT ![chat[b].code] = "gone"]
      /\ UNCHANGED << born, keys, botRow, boundary, call >>
  BY DEF FinalizeCode, Confirms
<1>2. QED BY <1>1, ChatEnds

\* Keys are revoked and expire; otherwise they stay what they are.
Ages(k, r) ==
  /\ r.code = k.code /\ r.user = k.user /\ r.bot = k.bot /\ r.revision = k.revision
  /\ ~ r.revoked => ~ k.revoked

KeysAge ==
  /\ keys' \subseteq StoredKeys
  /\ \A r \in keys' : \E k \in keys : Ages(k, r)
  /\ \A k \in keys : \E r \in keys' : Ages(k, r)
  /\ \A r, t \in keys' : r.code = t.code => r = t

LEMMA RevokedSet ==
  ASSUME KInv, NEW S
  PROVE  /\ Revoke(S) \subseteq StoredKeys
         /\ \A r \in Revoke(S) : \E k \in keys : Ages(k, r)
         /\ \A k \in keys : \E r \in Revoke(S) : Ages(k, r)
         /\ \A r, t \in Revoke(S) : r.code = t.code => r = t
         /\ \A k \in keys : k \notin S => k \in Revoke(S)
         /\ \A r \in Revoke(S) : ~ r.revoked => r \in keys /\ r \notin S
<1> DEFINE R(k) == [k EXCEPT !.revoked = k.revoked \/ k \in S]
<1>1. Revoke(S) = {R(k) : k \in keys} /\ keys \subseteq StoredKeys /\ UniqueKeys
  BY DEF Revoke, KInv, KeysTyped
<1>2. ASSUME NEW k \in keys
      PROVE  /\ R(k) \in StoredKeys /\ Ages(k, R(k))
             /\ k \notin S => R(k) = k
             /\ ~ R(k).revoked => k \notin S
  <2>1. k \in StoredKeys /\ k.revoked \in BOOLEAN
    BY <1>1 DEF StoredKeys
  <2>2. R(k) \in StoredKeys /\ (k \notin S => R(k) = k)
    BY <2>1 DEF StoredKeys
  <2>3. R(k).revoked <=> k.revoked \/ k \in S
    BY <2>1 DEF StoredKeys
  <2>4. Ages(k, R(k))
    BY <2>1, <2>3 DEF StoredKeys, Ages
  <2>5. QED BY <2>2, <2>3, <2>4
<1>3. \A k, l \in keys : R(k).code = R(l).code => R(k) = R(l)
  <2>1. ASSUME NEW k \in keys, NEW l \in keys, R(k).code = R(l).code PROVE k = l
    <3>1. k.code = l.code
      BY <1>2, <2>1 DEF Ages
    <3>2. QED BY <1>1, <3>1 DEF UniqueKeys
  <2>2. QED BY <2>1
<1> HIDE DEF R
<1>4. QED BY <1>1, <1>2, <1>3

LEMMA RevokeIs ==
  ASSUME KInv, NEW S, keys' = Revoke(S)
  PROVE  /\ KeysAge
         /\ \A k \in keys : k \notin S => k \in keys'
         /\ \A r \in keys' : ~ r.revoked => r \in keys /\ r \notin S
BY RevokedSet DEF KeysAge

\* Keys age while the codes, and whoever confirms them, stay: nothing about
\* codes and users is disturbed.
LEMMA AgedKeys ==
  ASSUME KInv, KeysAge
  PROVE  /\ UniqueKeys'
         /\ \A r \in keys' : \/ pending[r.code] = "gone"
                             \/ \E b \in AuthBots : chat[b].at = "finalize" /\ chat[b].code = r.code
         /\ \A b \in AuthBots : chat[b].at = "finalize" =>
              \E r \in keys' : r.user = chat[b].user /\ r.bot = b
         /\ \A r \in keys' : ~ r.revoked =>
              r.revision = botRow[r.bot].revision /\ born[r.code][r.bot] > botRow[r.bot].acceptAfter
<1>1. UniqueKeys'
  BY DEF KInv, UniqueKeys, KeysAge, Ages
<1>2. \A r \in keys' : \/ pending[r.code] = "gone"
                       \/ \E b \in AuthBots : chat[b].at = "finalize" /\ chat[b].code = r.code
  BY DEF KInv, OneUse, KeysAge, Ages
<1>3. \A b \in AuthBots : chat[b].at = "finalize" =>
        \E r \in keys' : r.user = chat[b].user /\ r.bot = b
  BY DEF KInv, Committed, KeysAge, Ages
<1>4. \A r \in keys' : ~ r.revoked =>
        r.revision = botRow[r.bot].revision /\ born[r.code][r.bot] > botRow[r.bot].acceptAfter
  BY DEF KInv, YoungKeys, KeysAge, Ages
<1>5. QED BY <1>1, <1>2, <1>3, <1>4

\* Who has a bot's guard, or finds it drained, has no command beside it.
LEMMA NobodyExecutes ==
  ASSUME KInv, NEW b \in AuthBots, guarded[b] \in {Free, "chat"} \/ Drained(b)
  PROVE  \A x \in Callers : call[x].at = "executing" =>
           call[x].key.bot \in AuthBots /\ call[x].key.bot # b
<1>1. \A x \in Callers : call[x].at = "executing" => call[x].key \in StoredKeys
  BY DEF KInv, KeysTyped, CallRows, NoCall
<1>2. QED BY <1>1, EnrollAssumption DEF KInv, Guards, StoredKeys, Drained

LEMMA UnbindKeys == ASSUME KInv, NEW b \in AuthBots, Unbind(b) PROVE KInv'
<1>1. PICK S \in SUBSET OwnRows(chat[b].user, b) : keys' = Revoke(S)
  BY DEF Unbind
<1>2. /\ chat[b].at = "unbind" /\ LeaveChat(b) /\ guarded[b] = "chat"
      /\ UNCHANGED << pending, born, botRow, boundary, call >>
  BY DEF Unbind, KInv, Guards
<1>3. \A k \in S : k.bot = b
  BY <1>1 DEF OwnRows
<1>4. /\ KeysAge /\ \A k \in keys : k \notin S => k \in keys'
  BY <1>1, RevokeIs
<1>5. /\ chat' \in [AuthBots -> ChatRows] /\ chat'[b].at = "none" /\ DOMAIN guarded' = AuthBots
      /\ \A a \in AuthBots : a # b => chat'[a] = chat[a] /\ guarded'[a] = guarded[a]
  BY <1>2, ChatLeaves DEF KInv
<1>6. \A x \in Callers : call[x].at = "executing" =>
        call[x].key.bot \in AuthBots /\ call[x].key.bot # b
  BY <1>2, NobodyExecutes
<1>7. KeysTyped' /\ Guards'
  BY <1>2, <1>4, <1>5, <1>6 DEF KInv, KeysTyped, Guards, KeysAge
<1>8. ActsWithLiveKey'
  BY <1>2, <1>3, <1>4, <1>6 DEF KInv, ActsWithLiveKey
<1>9. UniqueKeys'
  BY <1>4, AgedKeys
<1>10. YoungKeys' /\ OneUse' /\ Committed'
  <2>1. YoungKeys'
    BY <1>2, <1>4, <1>5, AgedKeys DEF KInv, YoungKeys
  <2>2. OneUse'
    BY <1>2, <1>4, <1>5, AgedKeys DEF KInv, OneUse, Confirms
  <2>3. Committed'
    BY <1>2, <1>4, <1>5, AgedKeys DEF Committed
  <2>4. QED BY <2>1, <2>2, <2>3
<1>11. MemoryBounded'
  BY <1>2 DEF KInv, MemoryBounded, Outstanding
<1>12. QED BY <1>7, <1>8, <1>9, <1>10, <1>11 DEF KInv

\* All keys of a bot are revoked while nobody works on it; its row may change
\* with them.
LEMMA BotCleared ==
  ASSUME KInv, NEW b \in AuthBots, keys' = Revoke({k \in keys : k.bot = b}),
         UNCHANGED << pending, born, boundary, chat, guarded, call >>,
         botRow' \in [AuthBots -> StoredRows],
         \A a \in AuthBots : a # b => botRow'[a] = botRow[a],
         guarded[b] = Free \/ Drained(b)
  PROVE  KInv'
<1> DEFINE S == {k \in keys : k.bot = b}
<1>1. /\ KeysAge /\ \A k \in keys : k \notin S => k \in keys'
      /\ \A r \in keys' : ~ r.revoked => r \in keys /\ r \notin S
  BY RevokeIs
<1>2. \A x \in Callers : call[x].at = "executing" =>
        call[x].key.bot \in AuthBots /\ call[x].key.bot # b
  BY NobodyExecutes
<1>3. chat[b].at = "none"
  BY ChatIs, EnrollAssumption DEF KInv, Guards, Drained
<1>4. KeysTyped' /\ Guards' /\ MemoryBounded'
  BY <1>1 DEF KInv, KeysTyped, Guards, KeysAge, MemoryBounded, Outstanding
<1>5. ActsWithLiveKey'
  BY <1>1, <1>2 DEF KInv, ActsWithLiveKey
<1>6. UniqueKeys'
  BY <1>1, AgedKeys
<1>7. YoungKeys'
  <2>1. \A r \in keys' : ~ r.revoked => r \in keys /\ r.bot # b /\ r.bot \in AuthBots
    BY <1>1 DEF KInv, KeysTyped, StoredKeys
  <2>2. QED BY <1>3, <2>1 DEF KInv, YoungKeys
<1>8. OneUse'
  BY <1>1, AgedKeys DEF KInv, OneUse, Confirms
<1>9. Committed'
  BY <1>1, AgedKeys DEF Committed
<1>10. QED BY <1>4, <1>5, <1>6, <1>7, <1>8, <1>9 DEF KInv

LEMMA CommitIdentityKeys == ASSUME KInv, NEW b \in AuthBots, CommitIdentity(b) PROVE KInv'
<1> DEFINE v == botRow[b].revision + 1
           w == boundary[b] - 1
           r == [botRow[b] EXCEPT !.revision = v, !.acceptAfter = w]
<1>1. botRow[b] \in StoredRows /\ boundary[b] \in Int /\ v \in Int /\ w \in Int
  BY DEF KInv, KeysTyped, StoredRows
<1>2. r \in StoredRows
  <2> HIDE DEF v, w
  <2>1. QED BY <1>1 DEF StoredRows
<1>3. botRow' = [botRow EXCEPT ![b] = r]
  BY DEF CommitIdentity, KInv, KeysTyped
<1> HIDE DEF r
<1>4. botRow' \in [AuthBots -> StoredRows] /\ \A a \in AuthBots : a # b => botRow'[a] = botRow[a]
  BY <1>2, <1>3 DEF KInv, KeysTyped
<1>5. QED BY <1>4, BotCleared DEF CommitIdentity

LEMMA DeleteBotKeys == ASSUME KInv, NEW b \in AuthBots, DeleteBot(b) PROVE KInv'
<1> DEFINE r == [botRow[b] EXCEPT !.deleted = TRUE]
<1>1. botRow[b] \in StoredRows
  BY DEF KInv, KeysTyped
<1>2. r \in StoredRows
  BY <1>1 DEF StoredRows
<1>3. botRow' = [botRow EXCEPT ![b] = r]
  BY DEF DeleteBot, KInv, KeysTyped
<1> HIDE DEF r
<1>4. botRow' \in [AuthBots -> StoredRows] /\ \A a \in AuthBots : a # b => botRow'[a] = botRow[a]
  BY <1>2, <1>3 DEF KInv, KeysTyped
<1>5. QED BY <1>4, BotCleared DEF DeleteBot

LEMMA RevokeAllKeys == ASSUME KInv, NEW b \in AuthBots, RevokeAll(b) PROVE KInv'
<1>1. botRow \in [AuthBots -> StoredRows]
  BY DEF KInv, KeysTyped
<1>2. QED BY <1>1, BotCleared DEF RevokeAll

LEMMA SetEnabledKeys == ASSUME KInv, NEW b \in AuthBots, SetResourceAuthEnabled(b) PROVE KInv'
<1> DEFINE r == [botRow[b] EXCEPT !.enabled = ~ botRow[b].enabled]
<1>1. botRow[b] \in StoredRows
  BY DEF KInv, KeysTyped
<1>2. r \in StoredRows /\ r.revision = botRow[b].revision /\ r.acceptAfter = botRow[b].acceptAfter
      /\ r.deleted = botRow[b].deleted
  BY <1>1 DEF StoredRows
<1>3. botRow' = [botRow EXCEPT ![b] = r] /\ guarded[b] = Free
      /\ UNCHANGED << pending, born, keys, boundary, chat, guarded, call >>
  BY DEF SetResourceAuthEnabled, KInv, KeysTyped
<1> HIDE DEF r
<1>4. /\ botRow' \in [AuthBots -> StoredRows] /\ botRow'[b] = r
      /\ \A a \in AuthBots : a # b => botRow'[a] = botRow[a]
  BY <1>2, <1>3 DEF KInv, KeysTyped
<1>5. \A x \in Callers : call[x].at = "executing" =>
        call[x].key.bot \in AuthBots /\ call[x].key.bot # b
  BY <1>3, NobodyExecutes
<1>6. KeysTyped' /\ Guards' /\ UniqueKeys' /\ OneUse' /\ Committed'
  <2>1. KeysTyped'
    BY <1>3, <1>4 DEF KInv, KeysTyped
  <2>2. Guards' /\ UniqueKeys' /\ OneUse' /\ Committed'
    BY <1>3 DEF KInv, Guards, UniqueKeys, OneUse, Confirms, Committed
  <2>3. QED BY <2>1, <2>2
<1>7. ActsWithLiveKey'
  BY <1>3, <1>4, <1>5 DEF KInv, ActsWithLiveKey
<1>8. \A k \in keys : k.bot \in AuthBots
  BY DEF KInv, KeysTyped, StoredKeys
<1>9. \A a \in AuthBots : botRow'[a].revision = botRow[a].revision
                          /\ botRow'[a].acceptAfter = botRow[a].acceptAfter
  BY <1>2, <1>4
<1>10. YoungKeys'
  BY <1>3, <1>8, <1>9 DEF KInv, YoungKeys
<1>11. MemoryBounded'
  BY <1>3 DEF KInv, MemoryBounded, Outstanding
<1>12. QED BY <1>6, <1>7, <1>10, <1>11 DEF KInv

LEMMA KeyExpiresKeys == ASSUME KInv, NEW k \in keys, KeyExpires(k) PROVE KInv'
<1> DEFINE e == [k EXCEPT !.expired = TRUE]
<1>1. keys' = (keys \ {k}) \cup {e} /\ UNCHANGED << pending, born, botRow, boundary, chat, guarded, call >>
  BY DEF KeyExpires
<1>2. k \in StoredKeys
  BY DEF KInv, KeysTyped
<1>3. /\ e \in StoredKeys /\ e.code = k.code /\ e.user = k.user /\ e.bot = k.bot
      /\ e.revision = k.revision /\ e.revoked = k.revoked
  BY <1>2 DEF StoredKeys
<1> HIDE DEF e
<1>4. KeysAge
  <2>1. \A r, t \in keys' : r.code = t.code => r = t
    BY <1>1, <1>3 DEF KInv, UniqueKeys
  <2>2. \A r \in keys' : \E l \in keys : Ages(l, r)
    BY <1>1, <1>3 DEF Ages
  <2>3. \A l \in keys : \E r \in keys' : Ages(l, r)
    BY <1>1, <1>3 DEF Ages
  <2>4. keys' \subseteq StoredKeys
    BY <1>1, <1>3 DEF KInv, KeysTyped
  <2>5. QED BY <2>1, <2>2, <2>3, <2>4 DEF KeysAge
<1>5. KeysTyped' /\ Guards' /\ MemoryBounded'
  BY <1>1, <1>4 DEF KInv, KeysTyped, Guards, KeysAge, MemoryBounded, Outstanding
<1>6. ActsWithLiveKey'
  BY <1>1, <1>3 DEF KInv, ActsWithLiveKey
<1>7. UniqueKeys' /\ YoungKeys'
  BY <1>1, <1>4, AgedKeys DEF KInv, YoungKeys
<1>8. OneUse'
  BY <1>1, <1>4, AgedKeys DEF KInv, OneUse, Confirms
<1>9. Committed'
  BY <1>1, <1>4, AgedKeys DEF Committed
<1>10. QED BY <1>5, <1>6, <1>7, <1>8, <1>9 DEF KInv

LEMMA CommitBindingKeys == ASSUME KInv, NEW b \in AuthBots, CommitBinding(b) PROVE KInv'
<1> DEFINE u == chat[b].user
           c == chat[b].code
           old == OwnRows(u, b)
           n == [code |-> c, user |-> u, bot |-> b, revoked |-> FALSE,
                 revision |-> botRow[b].revision, expired |-> FALSE]
           r == [chat[b] EXCEPT !.at = "finalize"]
<1>1. /\ chat[b].at = "commit" /\ chat[b].at # "none" /\ Confirms(b) /\ guarded[b] = "chat"
      /\ u \in People /\ c \in Codes /\ pending[c] = "reserved"
      /\ born[c][b] > botRow[b].acceptAfter /\ botRow[b] \in StoredRows
      /\ UNCHANGED << born, botRow, boundary, call >>
  BY ChatIs DEF CommitBinding, Confirms, KInv, Guards, OneUse, YoungKeys, KeysTyped
<1>2. \A k \in keys : k.code \in Codes /\ k.code # c
  BY <1>1 DEF KInv, KeysTyped, StoredKeys, OneUse, Confirms
<1>3. /\ n \in StoredKeys /\ n.code = c /\ n.user = u /\ n.bot = b /\ ~ n.revoked
      /\ n.revision = botRow[b].revision
  BY <1>1 DEF StoredKeys, StoredRows
<1>4. r \in ChatRows /\ r.at = "finalize" /\ r.user = u /\ r.code = c
  BY <1>1, ChatIs DEF ChatRows, KInv
<1>5. \A x \in Callers : call[x].at = "executing" =>
        call[x].key.bot \in AuthBots /\ call[x].key.bot # b
  BY <1>1, NobodyExecutes
<1> HIDE DEF n, r
<1>6. CASE pending' = [pending EXCEPT ![c] = "waiting"] /\ LeaveChat(b) /\ UNCHANGED keys
  <2>1. chat[b].at # "finalize"
    BY <1>1
  <2>2. \E v \in {"waiting", "gone"} : /\ pending' = [pending EXCEPT ![chat[b].code] = v]
                                       /\ chat[b].at = "finalize" => v = "gone"
    BY <1>6, <2>1
  <2>3. QED BY ONLY KInv, b \in AuthBots, <1>1, <1>6, <2>2, ChatEnds
<1>7. ASSUME chat' = [chat EXCEPT ![b].at = "finalize"], UNCHANGED << pending, guarded >>,
             KeysTyped', UniqueKeys', ActsWithLiveKey',
             \A k \in keys' : \/ k.code = c
                              \/ pending[k.code] = "gone"
                              \/ \E a \in AuthBots : chat[a].at = "finalize" /\ chat[a].code = k.code,
             \A k \in keys' : ~ k.revoked => /\ k.revision = botRow[k.bot].revision
                                             /\ born[k.code][k.bot] > botRow[k.bot].acceptAfter,
             \E k \in keys' : k.user = u /\ k.bot = b,
             \A k \in keys : \E t \in keys' : t.user = k.user /\ t.bot = k.bot
      PROVE  KInv'
  <2>1. chat' = [chat EXCEPT ![b] = r]
    BY <1>7 DEF r, KInv, KeysTyped
  <2>2. chat'[b] = r /\ \A a \in AuthBots : a # b => chat'[a] = chat[a]
    BY <2>1 DEF KInv, KeysTyped
  <2>3. Guards'
    BY <1>1, <1>4, <1>7, <2>2 DEF KInv, Guards
  <2>4. YoungKeys'
    BY <1>1, <1>4, <1>7, <2>2 DEF KInv, YoungKeys
  <2>5. \A a \in AuthBots : (Confirms(a)' <=> Confirms(a)) /\ (Confirms(a) => chat'[a].code = chat[a].code)
    BY <1>1, <1>4, <2>2 DEF Confirms
  <2>6. \A k \in keys' : \/ pending'[k.code] = "gone"
                         \/ \E a \in AuthBots : chat'[a].at = "finalize" /\ chat'[a].code = k.code
    <3>1. chat'[b].at = "finalize" /\ chat'[b].code = c
      BY <1>4, <2>2
    <3>2. \A a \in AuthBots : chat[a].at = "finalize" => chat'[a].at = "finalize" /\ chat'[a].code = chat[a].code
      BY <1>1, <2>2
    <3>3. QED BY <1>7, <3>1, <3>2
  <2>7. OneUse'
    <3>1. \A a \in AuthBots : Confirms(a)' => pending'[chat'[a].code] = "reserved"
      BY <1>7, <2>5 DEF KInv, OneUse
    <3>2. \A a, d \in AuthBots : Confirms(a)' /\ Confirms(d)' /\ chat'[a].code = chat'[d].code => a = d
      BY <2>5 DEF KInv, OneUse
    <3>3. QED BY <2>6, <3>1, <3>2 DEF OneUse
  <2>8. Committed'
    BY <1>4, <1>7, <2>2 DEF KInv, Committed
  <2>9. MemoryBounded'
    BY <1>7 DEF KInv, MemoryBounded, Outstanding
  <2>10. QED BY <1>7, <2>3, <2>4, <2>7, <2>8, <2>9 DEF KInv
<1>8. chat' = [chat EXCEPT ![b].at = "finalize"] /\ DOMAIN guarded = AuthBots
        => chat' \in [AuthBots -> ChatRows]
  <2>1. chat' = [chat EXCEPT ![b].at = "finalize"] => chat' = [chat EXCEPT ![b] = r]
    BY DEF r, KInv, KeysTyped
  <2>2. QED BY <1>4, <2>1 DEF KInv, KeysTyped
<1>9. CASE /\ \E k \in old : Current(k)
           /\ keys' = keys
           /\ chat' = [chat EXCEPT ![b].at = "finalize"] /\ UNCHANGED << pending, guarded >>
  <2>1. KeysTyped'
    BY <1>1, <1>8, <1>9 DEF KInv, KeysTyped
  <2>2. UniqueKeys' /\ ActsWithLiveKey'
    BY <1>1, <1>9 DEF KInv, UniqueKeys, ActsWithLiveKey
  <2>3. \E k \in keys' : k.user = u /\ k.bot = b
    BY <1>9 DEF OwnRows
  <2>4. \A k \in keys' : \/ pending[k.code] = "gone"
                         \/ \E a \in AuthBots : chat[a].at = "finalize" /\ chat[a].code = k.code
    BY <1>9 DEF KInv, OneUse
  <2>5. \A k \in keys' : ~ k.revoked => /\ k.revision = botRow[k.bot].revision
                                        /\ born[k.code][k.bot] > botRow[k.bot].acceptAfter
    BY <1>9 DEF KInv, YoungKeys
  <2>6. QED BY <1>7, <1>9, <2>1, <2>2, <2>3, <2>4, <2>5
<1>10. CASE /\ keys' = Revoke(old) \cup {n}
            /\ chat' = [chat EXCEPT ![b].at = "finalize"] /\ UNCHANGED << pending, guarded >>
  <2> DEFINE R == Revoke(old)
  <2>1. /\ R \subseteq StoredKeys
        /\ \A t \in R : \E k \in keys : Ages(k, t)
        /\ \A k \in keys : \E t \in R : Ages(k, t)
        /\ \A s, t \in R : s.code = t.code => s = t
        /\ \A k \in keys : k \notin old => k \in R
        /\ \A t \in R : ~ t.revoked => t \in keys /\ t \notin old
    BY RevokedSet
  <2> HIDE DEF R
  <2>2. keys' = R \cup {n}
    BY <1>10 DEF R
  <2>3. KeysTyped'
    BY <1>1, <1>3, <1>8, <1>10, <2>1, <2>2 DEF KInv, KeysTyped
  <2>4. \A t \in R : t.code # c /\ (t.user = u /\ t.bot = b => t.revoked)
    <3>1. \A t \in R : t.code # c
      BY <1>2, <2>1 DEF Ages
    <3>2. \A t \in R : t.user = u /\ t.bot = b => t.revoked
      BY <2>1 DEF OwnRows
    <3>3. QED BY <3>1, <3>2
  <2>5. UniqueKeys'
    <3>1. \A s, t \in R : (s.user = t.user /\ s.bot = t.bot /\ ~ s.revoked /\ ~ t.revoked) => s = t
      BY <2>1 DEF KInv, UniqueKeys
    <3>2. QED BY <1>3, <2>1, <2>2, <2>4, <3>1 DEF UniqueKeys
  <2>6. ActsWithLiveKey'
    <3>1. \A k \in keys : k.bot # b => k \in keys'
      BY <2>1, <2>2 DEF OwnRows
    <3>2. QED BY <1>1, <1>5, <3>1 DEF KInv, ActsWithLiveKey
  <2>7. \A k \in keys' : \/ k.code = c
                         \/ pending[k.code] = "gone"
                         \/ \E a \in AuthBots : chat[a].at = "finalize" /\ chat[a].code = k.code
    BY <1>3, <2>1, <2>2 DEF KInv, OneUse, Ages
  <2>8. \A k \in keys' : ~ k.revoked => /\ k.revision = botRow[k.bot].revision
                                        /\ born[k.code][k.bot] > botRow[k.bot].acceptAfter
    BY <1>1, <1>3, <2>1, <2>2 DEF KInv, YoungKeys
  <2>9. /\ \E k \in keys' : k.user = u /\ k.bot = b
        /\ \A k \in keys : \E t \in keys' : t.user = k.user /\ t.bot = k.bot
    BY <1>3, <2>1, <2>2 DEF Ages
  <2>10. QED BY <1>7, <1>10, <2>3, <2>5, <2>6, <2>7, <2>8, <2>9
<1>11. QED BY <1>6, <1>9, <1>10 DEF CommitBinding, n

\* A call moves while everything else stands; the guard is its own, or free.
LEMMA CallKeys ==
  ASSUME KInv, NEW x \in Callers, NEW c \in CallRows, call' = [call EXCEPT ![x] = c],
         UNCHANGED << pending, born, keys, botRow, boundary, chat >>, DOMAIN guarded' = AuthBots,
         \A b \in AuthBots : guarded[b] \notin {Free, x} => guarded'[b] = guarded[b],
         c.at = "executing" =>
           /\ guarded'[c.key.bot] = x
           /\ \E k \in keys :
                /\ k.code = c.key.code /\ k.bot = c.key.bot
                /\ ~ k.revoked /\ k.revision = botRow[k.bot].revision
                /\ born[k.code][k.bot] > botRow[k.bot].acceptAfter
                /\ botRow[k.bot].enabled /\ ~ botRow[k.bot].deleted
  PROVE  KInv'
<1>1. call' \in [Callers -> CallRows] /\ call'[x] = c /\ \A y \in Callers : y # x => call'[y] = call[y]
  BY DEF KInv, KeysTyped
<1>2. KeysTyped'
  BY <1>1 DEF KInv, KeysTyped
<1>3. YoungKeys' /\ OneUse' /\ UniqueKeys' /\ Committed' /\ MemoryBounded'
  BY DEF KInv, YoungKeys, OneUse, Confirms, UniqueKeys, Committed, MemoryBounded, Outstanding
<1>4. Guards'
  <2>1. \A b \in AuthBots : chat[b].at # "none" => guarded'[b] = "chat"
    BY EnrollAssumption DEF KInv, Guards
  <2>2. \A y \in Callers : y # x /\ call[y].at = "executing" =>
          call[y].key.bot \in AuthBots /\ guarded'[call[y].key.bot] = y
    BY EnrollAssumption DEF KInv, Guards, KeysTyped, CallRows, NoCall, StoredKeys
  <2>3. QED BY <1>1, <2>1, <2>2 DEF Guards
<1>5. ActsWithLiveKey'
  BY <1>1 DEF KInv, ActsWithLiveKey
<1>6. QED BY <1>2, <1>3, <1>4, <1>5 DEF KInv

LEMMA AuthenticateCallKeys == ASSUME KInv, NEW x \in Callers, AuthenticateCall(x) PROVE KInv'
<1>1. PICK k \in keys : call' = [call EXCEPT ![x] = [at |-> "asked", key |-> k]]
  BY DEF AuthenticateCall
<1>2. [at |-> "asked", key |-> k] \in CallRows
  BY DEF KInv, KeysTyped, CallRows
<1>3. DOMAIN guarded = AuthBots
  BY DEF KInv, KeysTyped
<1>4. QED BY <1>1, <1>2, <1>3, CallKeys DEF AuthenticateCall

LEMMA AdmitCallKeys == ASSUME KInv, NEW x \in Callers, AdmitCall(x) PROVE KInv'
<1> DEFINE k == call[x].key
           c == [call[x] EXCEPT !.at = "executing"]
<1>1. /\ call[x].at = "asked" /\ k \in StoredKeys /\ k.bot \in AuthBots
      /\ DOMAIN guarded = AuthBots
      /\ UNCHANGED << pending, born, keys, botRow, boundary, chat >>
  BY DEF AdmitCall, KInv, KeysTyped, CallRows, NoCall, StoredKeys
<1>2. NoCall \in CallRows /\ NoCall.at = "none"
  BY DEF CallRows, NoCall
<1>3. CASE call' = [call EXCEPT ![x] = NoCall] /\ UNCHANGED guarded
  BY <1>1, <1>2, <1>3, CallKeys
<1>4. CASE /\ guarded[k.bot] = Free /\ botRow[k.bot].enabled
           /\ call' = [call EXCEPT ![x].at = "executing"]
           /\ guarded' = [guarded EXCEPT ![k.bot] = x]
           /\ \E f \in keys : f.code = k.code /\ f.bot = k.bot /\ Authenticates(f)
  <2>1. c \in CallRows /\ c.at = "executing" /\ c.key = k
    BY <1>1 DEF KInv, KeysTyped, CallRows, NoCall
  <2>2. call' = [call EXCEPT ![x] = c]
    BY <1>4 DEF KInv, KeysTyped
  <2> HIDE DEF c
  <2>3. /\ DOMAIN guarded' = AuthBots /\ guarded'[k.bot] = x
        /\ \A b \in AuthBots : guarded[b] \notin {Free, x} => guarded'[b] = guarded[b]
    BY <1>1, <1>4
  <2>4. \E f \in keys :
          /\ f.code = k.code /\ f.bot = k.bot
          /\ ~ f.revoked /\ f.revision = botRow[f.bot].revision
          /\ born[f.code][f.bot] > botRow[f.bot].acceptAfter
          /\ botRow[f.bot].enabled /\ ~ botRow[f.bot].deleted
    BY <1>4 DEF KInv, YoungKeys, Authenticates
  <2>5. QED BY <1>1, <2>1, <2>2, <2>3, <2>4, CallKeys
<1>5. QED BY <1>3, <1>4 DEF AdmitCall

LEMMA FinishCallKeys == ASSUME KInv, NEW x \in Callers, FinishCall(x) PROVE KInv'
<1>1. /\ NoCall \in CallRows /\ NoCall.at = "none" /\ DOMAIN guarded = AuthBots
      /\ call[x].key.bot \in AuthBots /\ guarded[call[x].key.bot] = x
  BY DEF FinishCall, KInv, KeysTyped, Guards, CallRows, NoCall, StoredKeys
<1>2. /\ DOMAIN guarded' = AuthBots
      /\ \A b \in AuthBots : guarded[b] \notin {Free, x} => guarded'[b] = guarded[b]
  BY <1>1 DEF FinishCall
<1>3. QED BY <1>1, <1>2, CallKeys DEF FinishCall

LEMMA EnrollCrashKeys == ASSUME KInv, EnrollCrash PROVE KInv'
<1>1. /\ \A b \in AuthBots : chat'[b].at = "none" /\ chat'[b] \in ChatRows
      /\ \A x \in Callers : call'[x].at = "none" /\ call'[x] \in CallRows
      /\ \A c \in Codes : pending'[c] = IF pending[c] = "unused" THEN "unused" ELSE "gone"
      /\ UNCHANGED << born, keys, botRow, boundary >>
  BY DEF EnrollCrash, NoChat, NoCall, ChatRows, CallRows
<1>2. KeysTyped'
  BY <1>1 DEF EnrollCrash, KInv, KeysTyped
<1>3. \A k \in keys : pending[k.code] # "unused" /\ k.code \in Codes
  BY DEF KInv, KeysTyped, OneUse, Confirms, StoredKeys
<1>4. OneUse'
  BY <1>1, <1>3 DEF OneUse, Confirms
<1>5. Guards' /\ Committed' /\ ActsWithLiveKey' /\ UniqueKeys'
  BY <1>1 DEF KInv, Guards, Committed, ActsWithLiveKey, UniqueKeys
<1>6. YoungKeys'
  BY <1>1 DEF KInv, YoungKeys
<1>7. Outstanding' \subseteq Outstanding
  BY <1>1 DEF Outstanding
<1>8. QED BY <1>2, <1>4, <1>5, <1>6, <1>7, StillBounded DEF KInv

LEMMA InitKeys == EnrollInit => KInv
<1> SUFFICES ASSUME EnrollInit PROVE KInv
  OBVIOUS
<1>1. /\ \A b \in AuthBots : chat[b].at = "none" /\ chat[b] \in ChatRows
      /\ \A x \in Callers : call[x].at = "none" /\ call[x] \in CallRows
      /\ keys = {}
  BY DEF EnrollInit, NoChat, NoCall, ChatRows, CallRows
<1>2. KeysTyped
  BY <1>1 DEF EnrollInit, KeysTyped, StoredRows
<1>3. Outstanding = {}
  BY DEF EnrollInit, Outstanding
<1>4. MemoryBounded
  BY <1>3, FS_EmptySet, EnrollAssumption DEF MemoryBounded
<1>5. QED BY <1>1, <1>2, <1>4 DEF KInv, Guards, ActsWithLiveKey, YoungKeys, OneUse, Confirms, UniqueKeys,
                                  Committed

\* Steps that do not touch what the argument is about.
LEMMA AsideKeys ==
  ASSUME KInv,
         \/ PollRow \/ PollStore \/ PollAgain \/ UNCHANGED enrollVars
         \/ \E b \in AuthBots : ThrottleForgets(b) \/ ChangeIdentity(b) \/ ServeAgain(b)
  PROVE  KInv'
<1>1. boundary \in [AuthBots -> Int]
  BY DEF KInv, KeysTyped
<1>2. CASE PollRow \/ PollStore \/ PollAgain \/ UNCHANGED enrollVars
  BY <1>1, <1>2, KeysFrame DEF PollRow, PollStore, PollAgain, enrollVars
<1>3. ASSUME NEW b \in AuthBots, ThrottleForgets(b) \/ ServeAgain(b) PROVE KInv'
  BY <1>1, <1>3, KeysFrame DEF ThrottleForgets, ServeAgain
<1>4. ASSUME NEW b \in AuthBots, ChangeIdentity(b) PROVE KInv'
  <2>1. boundary' \in [AuthBots -> Int]
    BY <1>1, <1>4 DEF ChangeIdentity
  <2>2. QED BY <1>4, <2>1, KeysFrame DEF ChangeIdentity
<1>5. QED BY <1>2, <1>3, <1>4

LEMMA StepKeys == KInv /\ [EnrollNext]_enrollVars => KInv'
<1> SUFFICES ASSUME KInv, [EnrollNext]_enrollVars PROVE KInv'
  OBVIOUS
<1>1. ASSUME NEW c \in Codes, WindowCloses(c) PROVE KInv'
  BY <1>1, WindowClosesKeys
<1>2. ASSUME NEW k \in keys, KeyExpires(k) PROVE KInv'
  BY <1>2, KeyExpiresKeys
<1>3. ASSUME NEW b \in AuthBots,
             \/ EnterChat(b) \/ ReserveCode(b) \/ CommitBinding(b) \/ FinalizeCode(b) \/ Unbind(b)
             \/ CommitIdentity(b) \/ DeleteBot(b) \/ SetResourceAuthEnabled(b) \/ RevokeAll(b)
      PROVE  KInv'
  BY <1>3, EnterChatKeys, ReserveCodeKeys, CommitBindingKeys, FinalizeCodeKeys, UnbindKeys,
     CommitIdentityKeys, DeleteBotKeys, SetEnabledKeys, RevokeAllKeys
<1>4. ASSUME NEW x \in Callers, AuthenticateCall(x) \/ AdmitCall(x) \/ FinishCall(x) PROVE KInv'
  BY <1>4, AuthenticateCallKeys, AdmitCallKeys, FinishCallKeys
<1>5. CASE CreateBinding \/ EnrollCrash
  BY <1>5, CreateBindingKeys, EnrollCrashKeys
<1>6. CASE \/ PollRow \/ PollStore \/ PollAgain \/ UNCHANGED enrollVars
           \/ \E b \in AuthBots : ThrottleForgets(b) \/ ChangeIdentity(b) \/ ServeAgain(b)
  BY <1>6, AsideKeys
<1>7. QED BY <1>1, <1>2, <1>3, <1>4, <1>5, <1>6 DEF EnrollNext

\* A code leaves the store while reserved by FinalizeCode and by a crash only.
CodeLeaves(c) ==
  \/ \E k \in keys : k.code = c
  \/ \E b \in AuthBots : chat[b].at = "finalize" /\ chat[b].code = c
                         /\ \E k \in keys : k.user = chat[b].user /\ k.bot = b
  \/ \A d \in Codes : pending'[d] \in {"unused", "gone"}

LEMMA CodeLeavesKept ==
  ASSUME KInv, [EnrollNext]_enrollVars, NEW c \in Codes, pending[c] = "reserved", pending'[c] = "gone"
  PROVE  CodeLeaves(c)
<1>1. pending \in [Codes -> {"unused", "waiting", "reserved", "gone"}]
  BY DEF KInv, KeysTyped
<1>2. CASE EnrollCrash
  BY <1>2 DEF EnrollCrash, CodeLeaves
<1>3. ASSUME NEW b \in AuthBots, FinalizeCode(b) PROVE CodeLeaves(c)
  <2>1. chat[b].at = "finalize" /\ pending' = [pending EXCEPT ![chat[b].code] = "gone"]
    BY <1>3 DEF FinalizeCode
  <2>2. chat[b].code = c
    BY <1>1, <2>1
  <2>3. QED BY <2>1, <2>2 DEF CodeLeaves, KInv, Committed
<1>4. pending' # pending
  OBVIOUS
<1>5. ASSUME NEW b \in AuthBots, ReserveCode(b) \/ CommitBinding(b) PROVE FALSE
  BY <1>1, <1>5 DEF ReserveCode, CommitBinding
<1>6. ASSUME CreateBinding \/ \E d \in Codes : WindowCloses(d) PROVE FALSE
  BY <1>1, <1>6 DEF CreateBinding, WindowCloses
<1>7. ASSUME NEW k \in keys, KeyExpires(k) PROVE FALSE
  BY <1>4, <1>7 DEF KeyExpires
<1>8. ASSUME NEW b \in AuthBots,
             \/ EnterChat(b) \/ Unbind(b) \/ ThrottleForgets(b) \/ ChangeIdentity(b) \/ CommitIdentity(b)
             \/ ServeAgain(b) \/ DeleteBot(b) \/ SetResourceAuthEnabled(b) \/ RevokeAll(b)
      PROVE  FALSE
  BY <1>4, <1>8 DEF EnterChat, Unbind, ThrottleForgets, ChangeIdentity, CommitIdentity, ServeAgain,
     DeleteBot, SetResourceAuthEnabled, RevokeAll
<1>9. ASSUME NEW x \in Callers, AuthenticateCall(x) \/ AdmitCall(x) \/ FinishCall(x) PROVE FALSE
  BY <1>4, <1>9 DEF AuthenticateCall, AdmitCall, FinishCall
<1>10. ASSUME PollRow \/ PollStore \/ PollAgain \/ UNCHANGED enrollVars PROVE FALSE
  BY <1>4, <1>10 DEF PollRow, PollStore, PollAgain, enrollVars
<1>11. QED BY <1>2, <1>3, <1>5, <1>6, <1>7, <1>8, <1>9, <1>10 DEF EnrollNext

(* KeysStaySound: for any number of codes, bots, users and callers, and whatever
   is confirmed, revoked, changed, deleted or crashes in between, a command runs
   only with a key that is live while it runs; a code makes one key and a user
   has one live key on a bot; unconfirmed codes stay within their cap; and a code
   that is being confirmed is lost only to a committed confirmation or with the
   process (resource_auth/service.py:92-127, 345-418, 463-483;
   resource_auth/dependencies.py:99-117; resource_auth/pending.py:217-243). *)
THEOREM KeysStaySound == EnrollSpec => KeysAreSound
<1> DEFINE A == \A c \in Codes : (pending[c] = "reserved" /\ pending'[c] = "gone") =>
                  \/ \E k \in keys : k.code = c
                  \/ \E b \in AuthBots : chat[b].at = "finalize" /\ chat[b].code = c
                                         /\ \E k \in keys : k.user = chat[b].user /\ k.bot = b
                  \/ \A d \in Codes : pending'[d] \in {"unused", "gone"}
<1>1. EnrollInit => KInv
  BY InitKeys
<1>2. KInv /\ [EnrollNext]_enrollVars => KInv'
  BY StepKeys
<1>3. KInv => ActsWithLiveKey /\ OneKeyEach
  BY DEF KInv, UniqueKeys, MemoryBounded, OneKeyEach
<1>4. KInv /\ [EnrollNext]_enrollVars => [A]_enrollVars
  BY CodeLeavesKept DEF CodeLeaves
<1> HIDE DEF A
<1>5. EnrollSpec => []KInv
  BY <1>1, <1>2, PTL DEF EnrollSpec
<1>6. EnrollSpec => [][A]_enrollVars
  BY <1>4, <1>5, PTL DEF EnrollSpec
<1>7. EnrollSpec => CodeKept
  BY <1>6 DEF CodeKept, A
<1> QED
  BY <1>3, <1>5, <1>7, PTL DEF KeysAreSound


\* What the bounds of the model add to KeysTyped: revisions and boundaries follow
\* the clock of identities.
BoundariesBounded ==
  /\ \A b \in AuthBots :
       /\ 0 <= botRow[b].revision /\ botRow[b].revision <= botRow[b].acceptAfter
       /\ botRow[b].acceptAfter < boundary[b]
       /\ boundary[b] <= MaxIdentity \/ boundary[b] = 1
  /\ born \in [Codes -> [AuthBots -> Revisions \cup {1}]]
  /\ \A k \in keys : k.revision \in Revisions
  /\ serving \in [AuthBots -> BOOLEAN]
  /\ guarded \in [AuthBots -> Callers \cup {"chat", Free}]
  /\ misses \in [AuthBots -> SUBSET People]

LEMMA RevisionsAre ==
  ASSUME KeysTyped, BoundariesBounded, NEW b \in AuthBots
  PROVE  /\ botRow[b].revision \in Revisions /\ botRow[b].acceptAfter \in Revisions
         /\ boundary[b] \in Revisions \cup {1} /\ boundary[b] \in 0..(MaxIdentity + 1)
<1>1. MaxIdentity \in Nat /\ boundary[b] \in Int /\ botRow[b].revision \in Int /\ botRow[b].acceptAfter \in Int
  BY EnrollAssumption DEF KeysTyped, StoredRows
<1>2. QED BY <1>1 DEF BoundariesBounded, Revisions

\* Keys that were revoked or confirmed are of a revision some row had.
LEMMA RevokedBounded ==
  ASSUME BoundariesBounded, NEW S \in SUBSET keys, NEW k \in Revoke(S)
  PROVE  k.revision \in Revisions
<1>1. PICK l \in keys : k = [l EXCEPT !.revoked = @ \/ l \in S]
  BY DEF Revoke
<1>2. k.revision = l.revision
  BY <1>1
<1>3. QED BY <1>2 DEF BoundariesBounded

LEMMA ChatBounded ==
  ASSUME KeysTyped, BoundariesBounded, NEW b \in AuthBots,
         ReserveCode(b) \/ CommitBinding(b) \/ FinalizeCode(b) \/ Unbind(b) \/ EnterChat(b)
  PROVE  BoundariesBounded'
<1>1. UNCHANGED << born, botRow, boundary, serving >>
  BY DEF ReserveCode, CommitBinding, FinalizeCode, Unbind, EnterChat
<1>2. guarded' \in [AuthBots -> Callers \cup {"chat", Free}]
  BY DEF ReserveCode, CommitBinding, FinalizeCode, Unbind, EnterChat, LeaveChat, BoundariesBounded
<1>3. misses' \in [AuthBots -> SUBSET People]
  <2>1. ReserveCode(b) => chat[b].user \in People
    BY ChatIs DEF ReserveCode
  <2>2. QED BY <2>1 DEF ReserveCode, CommitBinding, FinalizeCode, Unbind, EnterChat, BoundariesBounded
<1>4. ASSUME NEW k \in keys' PROVE k.revision \in Revisions
  <2>1. CASE keys' = keys
    BY <2>1 DEF BoundariesBounded
  <2>2. CASE Unbind(b)
    <3>1. PICK S \in SUBSET OwnRows(chat[b].user, b) : keys' = Revoke(S)
      BY <2>2 DEF Unbind
    <3>2. S \in SUBSET keys
      BY DEF OwnRows
    <3>3. QED BY <3>1, <3>2, RevokedBounded
  <2>3. CASE CommitBinding(b)
    <3> DEFINE old == OwnRows(chat[b].user, b)
               new == [code |-> chat[b].code, user |-> chat[b].user, bot |-> b, revoked |-> FALSE,
                       revision |-> botRow[b].revision, expired |-> FALSE]
    <3>1. keys' = keys \/ keys' = Revoke(old) \cup {new}
      BY <2>3 DEF CommitBinding
    <3>2. new.revision \in Revisions /\ old \in SUBSET keys
      BY RevisionsAre DEF OwnRows
    <3> HIDE DEF old, new
    <3>3. QED BY <2>1, <3>1, <3>2, RevokedBounded
  <2>4. QED BY <2>1, <2>2, <2>3 DEF ReserveCode, FinalizeCode, EnterChat
<1>5. QED BY <1>1, <1>2, <1>3, <1>4 DEF BoundariesBounded

LEMMA AdminBounded ==
  ASSUME KeysTyped, BoundariesBounded, NEW b \in AuthBots,
         \/ ThrottleForgets(b) \/ ChangeIdentity(b) \/ CommitIdentity(b) \/ ServeAgain(b)
         \/ DeleteBot(b) \/ SetResourceAuthEnabled(b) \/ RevokeAll(b)
  PROVE  BoundariesBounded'
<1>1. UNCHANGED << born, guarded >> /\ serving' \in [AuthBots -> BOOLEAN]
      /\ misses' \in [AuthBots -> SUBSET People]
  BY DEF ThrottleForgets, ChangeIdentity, CommitIdentity, ServeAgain, DeleteBot,
         SetResourceAuthEnabled, RevokeAll, BoundariesBounded
<1>2. ASSUME NEW k \in keys' PROVE k.revision \in Revisions
  <2>1. keys' = keys \/ keys' = Revoke({l \in keys : l.bot = b})
    BY DEF ThrottleForgets, ChangeIdentity, CommitIdentity, ServeAgain, DeleteBot,
           SetResourceAuthEnabled, RevokeAll
  <2>2. QED BY <2>1, RevokedBounded DEF BoundariesBounded
<1>3. ASSUME NEW a \in AuthBots
      PROVE  /\ 0 <= botRow'[a].revision /\ botRow'[a].revision <= botRow'[a].acceptAfter
             /\ botRow'[a].acceptAfter < boundary'[a]
             /\ boundary'[a] <= MaxIdentity \/ boundary'[a] = 1
  <2> DEFINE old == botRow[a]  new == botRow'[a]
  <2>1. /\ old \in StoredRows /\ boundary[a] \in Int /\ MaxIdentity \in Nat
        /\ 0 <= old.revision /\ old.revision <= old.acceptAfter /\ old.acceptAfter < boundary[a]
        /\ boundary[a] <= MaxIdentity \/ boundary[a] = 1
    BY EnrollAssumption DEF KeysTyped, BoundariesBounded
  <2>2. CASE ChangeIdentity(b)
    <3>1. /\ new = old
          /\ \/ boundary'[a] = boundary[a]
             \/ boundary'[a] = boundary[a] + 1 /\ boundary[a] < MaxIdentity
      BY <2>2 DEF ChangeIdentity, KeysTyped
    <3>2. QED BY <2>1, <3>1 DEF StoredRows
  <2>3. CASE CommitIdentity(b)
    <3>1. /\ boundary'[a] = boundary[a]
          /\ \/ new = old
             \/ /\ old.acceptAfter # boundary[a] - 1
                /\ new = [old EXCEPT !.revision = @ + 1, !.acceptAfter = boundary[a] - 1]
      BY <2>3 DEF CommitIdentity, KeysTyped
    <3>2. CASE new = old
      BY <2>1, <3>1, <3>2
    <3>3. CASE /\ old.acceptAfter # boundary[a] - 1
               /\ new = [old EXCEPT !.revision = @ + 1, !.acceptAfter = boundary[a] - 1]
      <4>1. new.revision = old.revision + 1 /\ new.acceptAfter = boundary[a] - 1
        BY <2>1, <3>3 DEF StoredRows
      <4>2. old.revision \in Int /\ old.acceptAfter \in Int
        BY <2>1 DEF StoredRows
      <4>3. QED BY <2>1, <3>1, <3>3, <4>1, <4>2
    <3>4. QED BY <3>1, <3>2, <3>3
  <2>4. CASE DeleteBot(b) \/ SetResourceAuthEnabled(b)
    <3>1. /\ boundary'[a] = boundary[a]
          /\ \/ new = old \/ new = [old EXCEPT !.deleted = TRUE] \/ new = [old EXCEPT !.enabled = ~@]
      BY <2>4 DEF DeleteBot, SetResourceAuthEnabled, KeysTyped
    <3>2. new.revision = old.revision /\ new.acceptAfter = old.acceptAfter
      BY <2>1, <3>1 DEF StoredRows
    <3>3. QED BY <2>1, <3>1, <3>2
  <2>5. CASE ThrottleForgets(b) \/ ServeAgain(b) \/ RevokeAll(b)
    BY <2>1, <2>5 DEF ThrottleForgets, ServeAgain, RevokeAll
  <2>6. QED BY <2>2, <2>3, <2>4, <2>5
<1>4. QED BY <1>1, <1>2, <1>3 DEF BoundariesBounded

LEMMA EnrollBounded ==
  ASSUME KeysTyped, BoundariesBounded, [EnrollNext]_enrollVars
  PROVE  BoundariesBounded'
<1>1. CASE CreateBinding
  <2>1. boundary \in [AuthBots -> Revisions \cup {1}]
    BY RevisionsAre DEF KeysTyped
  <2>2. QED BY <1>1, <2>1 DEF CreateBinding, BoundariesBounded
<1>2. CASE \E c \in Codes : WindowCloses(c)
  BY <1>2 DEF WindowCloses, BoundariesBounded
<1>3. CASE \E k \in keys : KeyExpires(k)
  <2>1. PICK k \in keys : keys' = (keys \ {k}) \cup {[k EXCEPT !.expired = TRUE]}
    BY <1>3 DEF KeyExpires
  <2>2. [k EXCEPT !.expired = TRUE].revision = k.revision
    BY DEF KeysTyped, StoredKeys
  <2>3. \A l \in keys' : l.revision \in Revisions
    BY <2>1, <2>2 DEF BoundariesBounded
  <2>4. QED BY <1>3, <2>3 DEF KeyExpires, BoundariesBounded
<1>4. CASE PollRow \/ PollStore \/ PollAgain \/ UNCHANGED enrollVars
  <2>1. UNCHANGED << born, keys, botRow, boundary, serving, guarded, misses >>
    BY <1>4 DEF PollRow, PollStore, PollAgain, enrollVars
  <2>2. QED BY <2>1 DEF BoundariesBounded
<1>5. CASE \E x \in Callers : AuthenticateCall(x) \/ AdmitCall(x) \/ FinishCall(x)
  <2>1. guarded' \in [AuthBots -> Callers \cup {"chat", Free}]
    BY <1>5 DEF AuthenticateCall, AdmitCall, FinishCall, BoundariesBounded
  <2>2. QED BY <1>5, <2>1 DEF AuthenticateCall, AdmitCall, FinishCall, BoundariesBounded
<1>6. CASE EnrollCrash
  <2>1. /\ serving' \in [AuthBots -> BOOLEAN]
        /\ guarded' \in [AuthBots -> Callers \cup {"chat", Free}]
        /\ misses' \in [AuthBots -> SUBSET People]
    BY <1>6 DEF EnrollCrash, KeysTyped, StoredRows
  <2>2. QED BY <1>6, <2>1 DEF EnrollCrash, BoundariesBounded
<1>7. QED
  BY <1>1, <1>2, <1>3, <1>4, <1>5, <1>6, ChatBounded, AdminBounded DEF EnrollNext

LEMMA EnrollStartsBounded == ASSUME EnrollInit PROVE BoundariesBounded
<1>1. PICK D \in SUBSET AuthBots :
        botRow = [b \in AuthBots |-> [revision |-> 0, acceptAfter |-> 0, enabled |-> TRUE, deleted |-> b \in D]]
  BY DEF EnrollInit
<1>2. serving \in [AuthBots -> BOOLEAN]
  BY <1>1 DEF EnrollInit
<1>3. \A b \in AuthBots : botRow[b].revision = 0 /\ botRow[b].acceptAfter = 0 /\ boundary[b] = 1
  BY <1>1 DEF EnrollInit
<1>4. 0 \in Revisions
  BY EnrollAssumption DEF Revisions
<1>5. QED BY <1>2, <1>3, <1>4 DEF EnrollInit, BoundariesBounded

LEMMA EnrollTypes == ASSUME KeysTyped, BoundariesBounded PROVE EnrollTypeOK
<1>1. keys \subseteq KeyRows
  BY DEF KeysTyped, BoundariesBounded, StoredKeys, KeyRows
<1>2. botRow \in [AuthBots -> BotRows]
  <2>1. ASSUME NEW b \in AuthBots PROVE botRow[b] \in BotRows
    BY RevisionsAre DEF KeysTyped, StoredRows, BotRows
  <2>2. QED BY <2>1 DEF KeysTyped
<1>3. boundary \in [AuthBots -> 0..(MaxIdentity + 1)]
  BY RevisionsAre DEF KeysTyped
<1>4. QED BY <1>1, <1>2, <1>3 DEF KeysTyped, BoundariesBounded, EnrollTypeOK

\* The rows of keys and bots, the table of retired identities and whoever waits for a
\* guard have their types, and revisions follow the clock of identities
\* (agent_enrollment, resource_api/auth.py).
THEOREM EnrollTypesHold == EnrollSpec => []EnrollTypeOK
<1>1. EnrollInit => KInv /\ BoundariesBounded
  BY InitKeys, EnrollStartsBounded DEF KInv
<1>2. KInv /\ BoundariesBounded /\ [EnrollNext]_enrollVars => (KInv /\ BoundariesBounded)'
  BY StepKeys, EnrollBounded DEF KInv
<1>3. KInv /\ BoundariesBounded => EnrollTypeOK
  BY EnrollTypes DEF KInv
<1>4. QED BY <1>1, <1>2, <1>3, PTL DEF EnrollSpec

-----------------------------------------------------------------------------
(* TaskNotes *)

HeldAs == [user : Owners, id : Nat \ {0}, longer : BOOLEAN]
StoredNotes == [user : Owners, key : Nat, slot : TaskSlots, proof : Nat \ {0},
                purpose : Purposes, ripe : BOOLEAN]
CommandRows ==
  {NoCommand} \cup [at : {"dispatch", "register", "prune"}, user : Owners, slot : TaskSlots,
                    purpose : Purposes \cup {Silent}, before : HeldAs \cup {Nothing}]

\* A key has one row for a resource.
OneRow == \A n, m \in notes : n.key = m.key /\ n.slot = m.slot => n = m

NInv ==
  /\ hold \in [TaskSlots -> HeldAs \cup {Nothing}] /\ key \in [Owners -> Nat]
  /\ serial \in Nat /\ issued \in Nat
  /\ command \in CommandRows
  /\ notes \subseteq StoredNotes /\ OneRow

LEMMA ProofIs ==
  ASSUME NInv, NEW s \in TaskSlots, NEW u \in Owners
  PROVE  Proof(hold[s], u) \in Nat /\ (Proof(hold[s], u) # 0 => hold[s] # Nothing /\ hold[s].user = u)
BY DEF NInv, Proof, HeldAs

\* A new row takes the place of this key's row for this resource, and only that.
LEMMA StoreRows ==
  ASSUME NInv, NEW u \in Owners, NEW s \in TaskSlots, NEW proof \in Nat \ {0}, NEW p \in Purposes,
         NEW kept \in SUBSET notes, Store(u, s, proof, p, kept)
  PROVE  /\ notes' \subseteq StoredNotes /\ OneRow'
         /\ \A n \in kept : n \notin notes' => \E m \in notes' : m.key = n.key /\ m.slot = n.slot
<1> DEFINE r == [user |-> u, key |-> key[u], slot |-> s, proof |-> proof, purpose |-> p, ripe |-> FALSE]
<1>1. r \in StoredNotes /\ r.key = key[u] /\ r.slot = s
  BY DEF NInv, StoredNotes
<1>2. notes' = (kept \ Row(u, s)) \cup {r}
  BY DEF Store
<1> HIDE DEF r
<1>3. \A n \in kept \ Row(u, s) : n \in notes /\ ~ (n.key = key[u] /\ n.slot = s)
  BY DEF Row
<1>4. notes' \subseteq StoredNotes
  BY <1>1, <1>2 DEF NInv
<1>5. OneRow'
  BY <1>1, <1>2, <1>3 DEF NInv, OneRow
<1>6. \A n \in kept : n \notin notes' => \E m \in notes' : m.key = n.key /\ m.slot = n.slot
  BY <1>1, <1>2 DEF Row
<1>7. QED BY <1>4, <1>5, <1>6

\* What a step that writes rows has to show.
NotesStand == /\ notes' \subseteq StoredNotes /\ OneRow'
              /\ \A n \in notes : ~ n.ripe /\ n \notin notes' =>
                   \E m \in notes' : m.key = n.key /\ m.slot = n.slot

LEMMA RegisterNotes == ASSUME NInv, RegisterCommandUsage PROVE NInv' /\ (NotesStand \/ UNCHANGED notes)
<1> DEFINE u == command.user
           s == command.slot
           proof == Proof(hold[s], u)
           reusable == {n \in Row(u, s) : ~ n.ripe /\ n.proof = Proof(command.before, u)}
           kept == {n \in notes : ~ n.ripe}
           r == [command EXCEPT !.at = "prune"]
<1>1. command.at = "register" /\ command \in CommandRows \ {NoCommand}
  BY DEF RegisterCommandUsage, NInv, NoCommand
<1>2. u \in Owners /\ s \in TaskSlots /\ r \in CommandRows /\ command' = r
  BY <1>1 DEF RegisterCommandUsage, CommandRows
<1>3. UNCHANGED << hold, key, serial, issued >>
  BY DEF RegisterCommandUsage
<1>4. proof \in Nat
  BY <1>2, ProofIs
<1> HIDE DEF r
<1>5. CASE UNCHANGED notes
  BY <1>2, <1>3, <1>5 DEF NInv, OneRow
<1>6. ASSUME NEW p \in IF command.purpose # Silent THEN {command.purpose} ELSE {n.purpose : n \in reusable},
             proof # 0, Store(u, s, proof, p, kept)
      PROVE  NInv' /\ NotesStand
  <2>1. p \in Purposes
    <3>1. command.purpose \in Purposes \cup {Silent}
      BY <1>1 DEF CommandRows
    <3>2. \A n \in reusable : n.purpose \in Purposes
      BY DEF Row, NInv, StoredNotes
    <3>3. QED BY <1>6, <3>1, <3>2
  <2>2. /\ notes' \subseteq StoredNotes /\ OneRow'
        /\ \A n \in kept : n \notin notes' => \E m \in notes' : m.key = n.key /\ m.slot = n.slot
    <3>1. kept \in SUBSET notes /\ proof \in Nat \ {0}
      BY <1>4, <1>6
    <3> HIDE DEF u, s, proof, kept
    <3>2. QED BY <1>2, <1>6, <2>1, <3>1, StoreRows
  <2>3. NotesStand
    BY <2>2 DEF NotesStand
  <2>4. QED BY <1>2, <1>3, <2>2, <2>3 DEF NInv
<1>7. QED BY <1>5, <1>6 DEF RegisterCommandUsage

LEMMA PutNotes ==
  ASSUME NInv, NEW u \in Owners, NEW s \in TaskSlots, PutUsage(u, s)
  PROVE  NInv' /\ NotesStand
<1>1. PICK p \in Purposes : Store(u, s, Proof(hold[s], u), p, {n \in notes : ~ n.ripe})
  BY DEF PutUsage
<1>2. Proof(hold[s], u) \in Nat \ {0} /\ UNCHANGED << hold, key, serial, issued, command >>
  BY ProofIs DEF PutUsage
<1>3. /\ notes' \subseteq StoredNotes /\ OneRow'
      /\ \A n \in {m \in notes : ~ m.ripe} :
           n \notin notes' => \E m \in notes' : m.key = n.key /\ m.slot = n.slot
  BY <1>1, <1>2, StoreRows
<1>4. QED BY <1>2, <1>3 DEF NInv, NotesStand

\* Rows are only taken away.
LEMMA FewerNotes ==
  ASSUME NInv, notes' \subseteq notes, UNCHANGED << hold, key, serial, issued >>, command' \in CommandRows
  PROVE  NInv'
BY DEF NInv, OneRow

LEMMA RipensNotes == ASSUME NInv, NEW n \in notes, NoteRipens(n) PROVE NInv'
<1> DEFINE r == [n EXCEPT !.ripe = TRUE]
<1>1. r \in StoredNotes /\ r.key = n.key /\ r.slot = n.slot
  BY DEF NInv, StoredNotes
<1>2. notes' = (notes \ {n}) \cup {r} /\ UNCHANGED << hold, key, serial, issued, command >>
  BY DEF NoteRipens
<1> HIDE DEF r
<1>3. OneRow'
  BY <1>1, <1>2 DEF NInv, OneRow
<1>4. QED BY <1>1, <1>2, <1>3 DEF NInv

\* The holdings change, not the notes.
LEMMA AcquireHolds ==
  ASSUME NInv, NEW u \in Owners, NEW s \in TaskSlots, Acquire(u, s)
  PROVE  hold' \in [TaskSlots -> HeldAs \cup {Nothing}] /\ serial' \in Nat
<1>1. [user |-> u, id |-> serial + 1, longer |-> FALSE] \in HeldAs /\ serial + 1 \in Nat
  BY DEF NInv, HeldAs
<1>2. QED BY <1>1 DEF Acquire, NInv

LEMMA DispatchNotes == ASSUME NInv, Dispatch PROVE NInv' /\ UNCHANGED notes
<1> DEFINE u == command.user
           s == command.slot
           r == [command EXCEPT !.at = "register"]
           h == [hold[s] EXCEPT !.longer = TRUE]
<1>1. command.at = "dispatch" /\ command \in CommandRows \ {NoCommand}
  BY DEF Dispatch, NInv, NoCommand
<1>2. u \in Owners /\ s \in TaskSlots /\ r \in CommandRows /\ command' = r
  BY <1>1 DEF Dispatch, CommandRows
<1>3. UNCHANGED << key, notes, issued >>
  BY DEF Dispatch
<1> HIDE DEF r
<1>4. hold' \in [TaskSlots -> HeldAs \cup {Nothing}] /\ serial' \in Nat
  <2>1. CASE Acquire(u, s)
    BY <1>2, <2>1, AcquireHolds
  <2>2. CASE hold[s] # Nothing /\ hold' = [hold EXCEPT ![s].longer = TRUE] /\ UNCHANGED serial
    <3>1. h \in HeldAs
      BY <1>2, <2>2 DEF NInv, HeldAs
    <3>2. hold' = [hold EXCEPT ![s] = h]
      BY <1>2, <2>2 DEF NInv
    <3> HIDE DEF h
    <3>3. QED BY <1>2, <2>2, <3>1, <3>2 DEF NInv
  <2>3. CASE (hold' = [hold EXCEPT ![s] = Nothing] \/ UNCHANGED hold) /\ UNCHANGED serial
    BY <2>3 DEF NInv
  <2>4. QED BY <2>1, <2>2, <2>3 DEF Dispatch
<1>5. QED BY <1>2, <1>3, <1>4 DEF NInv, OneRow

\* Holdings, keys, commands and readers move, and no row.
LEMMA AsideNotes ==
  ASSUME NInv,
         \/ \E u \in Owners, s \in TaskSlots : ChatLock(u, s) \/ PrepareCommandUsage(u, s)
         \/ \E s \in TaskSlots : HoldingEnds(s)
         \/ \E u \in Owners : Revoked(u) \/ Confirmed(u)
         \/ RegistrationFails \/ UNCHANGED noteVars
         \/ \E n \in notes : ReadUsage(n)
  PROVE  NInv' /\ UNCHANGED notes
<1>1. ASSUME NEW u \in Owners, NEW s \in TaskSlots, ChatLock(u, s) PROVE NInv' /\ UNCHANGED notes
  BY <1>1, AcquireHolds DEF ChatLock, NInv, OneRow
<1>2. ASSUME NEW u \in Owners, NEW s \in TaskSlots, PrepareCommandUsage(u, s)
      PROVE  NInv' /\ UNCHANGED notes
  <2>1. command' \in CommandRows
    BY <1>2 DEF PrepareCommandUsage, NInv, CommandRows
  <2>2. QED BY <1>2, <2>1 DEF PrepareCommandUsage, NInv, OneRow
<1>3. ASSUME NEW s \in TaskSlots, HoldingEnds(s) PROVE NInv' /\ UNCHANGED notes
  BY <1>3 DEF HoldingEnds, NInv, OneRow
<1>4. ASSUME NEW u \in Owners, Revoked(u) \/ Confirmed(u) PROVE NInv' /\ UNCHANGED notes
  BY <1>4 DEF Revoked, Confirmed, NInv, OneRow
<1>5. CASE RegistrationFails
  BY <1>5 DEF RegistrationFails, NInv, OneRow, CommandRows
<1>6. CASE UNCHANGED noteVars
  BY <1>6 DEF noteVars, NInv, OneRow
<1>7. ASSUME NEW n \in notes, ReadUsage(n) PROVE NInv' /\ UNCHANGED notes
  BY <1>7 DEF ReadUsage, NInv, OneRow
<1>8. QED BY <1>1, <1>2, <1>3, <1>4, <1>5, <1>6, <1>7

\* A note that is shown is spared.
Spares(n) ==
  (n \notin notes' /\ n.key = key'[n.user] /\ Proof(hold'[n.slot], n.user) = n.proof) =>
    \/ [n EXCEPT !.ripe = TRUE] \in notes'
    \/ \E m \in notes' : m.key = n.key /\ m.slot = n.slot
    \/ reader = n

LEMMA StepNotes == NInv /\ [NoteNext]_noteVars => NInv' /\ \A n \in Shown : Spares(n)
<1> SUFFICES ASSUME NInv, [NoteNext]_noteVars PROVE NInv' /\ \A n \in Shown : Spares(n)
  OBVIOUS
<1>1. \A n \in Shown : n \in notes /\ ~ n.ripe /\ Fits(n) /\ Live(n)
  BY DEF Shown
<1>2. NotesStand \/ UNCHANGED notes => \A n \in Shown : Spares(n)
  BY <1>1 DEF NotesStand, Spares
<1>3. CASE RegisterCommandUsage
  BY <1>2, <1>3, RegisterNotes
<1>4. ASSUME NEW u \in Owners, NEW s \in TaskSlots, PutUsage(u, s) PROVE NInv' /\ \A n \in Shown : Spares(n)
  BY <1>2, <1>4, PutNotes
<1>5. CASE Dispatch
  BY <1>2, <1>5, DispatchNotes
<1>6. CASE PruneActorUsage
  <2>1. NInv'
    BY <1>6, FewerNotes DEF PruneActorUsage, CommandRows
  <2>2. QED BY <1>1, <1>6, <2>1 DEF PruneActorUsage, Spares
<1>7. CASE DeleteUsage
  <2>1. NInv'
    BY <1>7, FewerNotes DEF DeleteUsage, NInv
  <2>2. QED BY <1>1, <1>7, <2>1 DEF DeleteUsage, Spares
<1>8. CASE CleanupObsolete \/ CleanupUnfit
  <2>1. NInv'
    BY <1>8, FewerNotes DEF CleanupObsolete, CleanupUnfit, NInv
  <2>2. QED BY <1>1, <1>8, <2>1 DEF CleanupObsolete, CleanupUnfit, Spares
<1>9. ASSUME NEW n \in notes, NoteRipens(n) PROVE NInv' /\ \A m \in Shown : Spares(m)
  BY <1>1, <1>9, RipensNotes DEF NoteRipens, Spares
<1>10. CASE \/ \E u \in Owners, s \in TaskSlots : ChatLock(u, s) \/ PrepareCommandUsage(u, s)
            \/ \E s \in TaskSlots : HoldingEnds(s)
            \/ \E u \in Owners : Revoked(u) \/ Confirmed(u)
            \/ RegistrationFails \/ UNCHANGED noteVars
            \/ \E n \in notes : ReadUsage(n)
  BY <1>2, <1>10, AsideNotes
<1>11. QED BY <1>3, <1>4, <1>5, <1>6, <1>7, <1>8, <1>9, <1>10 DEF NoteNext

\* Two notes shown with a resource are one: both fit, so both are its holder's,
\* both are live, so both are of that user's key.
LEMMA OneIsShown == ASSUME NInv, NEW s \in TaskSlots PROVE OneNoteShown(s)
<1> DEFINE shown == {n \in Shown : n.slot = s}
<1>1. \A n \in shown : /\ n \in notes /\ n.slot = s /\ n.key = key[n.user]
                       /\ hold[s] # Nothing /\ n.user = hold[s].user
  <2>1. \A n \in shown : /\ n \in notes /\ n.slot = s /\ n.key = key[n.user] /\ n.user \in Owners
                         /\ Proof(hold[s], n.user) # 0
    BY DEF Shown, Live, Fits, NInv, StoredNotes
  <2>2. QED BY <2>1, ProofIs
<1>2. \A n, m \in shown : n = m
  BY <1>1 DEF NInv, OneRow
<1>3. Cardinality(shown) <= 1
  <2>1. CASE shown = {}
    BY <2>1, FS_EmptySet
  <2>2. ASSUME NEW n \in shown PROVE Cardinality(shown) <= 1
    <3>1. shown = {n}
      BY <1>2, <2>2
    <3>2. QED BY <3>1, FS_Singleton
  <2>3. QED BY <2>1, <2>2
<1>4. QED BY <1>1, <1>3 DEF OneNoteShown

LEMMA InitNotes == NoteInit => NInv
BY DEF NoteInit, NInv, OneRow, CommandRows

(* NotesStaySound: whatever holdings end, keys are replaced, registrations fail
   and cleanups run behind, one note at most is shown with a resource and it is
   its present holder's, written with the key that user still has; and a note
   that is shown leaves the table by its own key's command, the request of its
   reader, its age or a newer note, never by a cleanup
   (resource_api/usage.py, resource_api/usage_cleanup.py). *)
THEOREM NotesStaySound == NoteSpec => NotesAreSound
<1> DEFINE A == \A n \in Shown :
                  (n \notin notes' /\ n.key = key'[n.user] /\ Proof(hold'[n.slot], n.user) = n.proof) =>
                    \/ [n EXCEPT !.ripe = TRUE] \in notes'
                    \/ \E m \in notes' : m.key = n.key /\ m.slot = n.slot
                    \/ reader = n
           O == \A s \in TaskSlots : OneNoteShown(s)
<1>1. NoteInit => NInv
  BY InitNotes
<1>2. NInv /\ [NoteNext]_noteVars => NInv'
  BY StepNotes
<1>3. NInv => O
  BY OneIsShown
<1>4. NInv /\ [NoteNext]_noteVars => [A]_noteVars
  BY StepNotes DEF Spares
<1> HIDE DEF A, O
<1>5. NoteSpec => []NInv
  BY <1>1, <1>2, PTL DEF NoteSpec
<1>6. NoteSpec => [][A]_noteVars
  BY <1>4, <1>5, PTL DEF NoteSpec
<1>7. NoteSpec => CleanupSpares
  BY <1>6 DEF CleanupSpares, A
<1>8. NoteSpec => []O
  BY <1>3, <1>5, PTL
<1> QED
  BY <1>7, <1>8 DEF NotesAreSound, O

\* A command runs with a live key: a revocation waits for the guard.
KeyInUse == command # NoCommand => key[command.user] # 0

LEMMA StoreTyped ==
  ASSUME NoteTypeOK, NEW u \in Owners, NEW s \in TaskSlots, key[u] # 0, Proof(hold[s], u) # 0,
         NEW p \in Purposes, NEW kept \in SUBSET notes, Store(u, s, Proof(hold[s], u), p, kept)
  PROVE  notes' \subseteq NoteRows
<1> DEFINE r == [user |-> u, key |-> key[u], slot |-> s, proof |-> Proof(hold[s], u),
                 purpose |-> p, ripe |-> FALSE]
<1>1. key[u] \in 1..MaxKeys
  BY NoteAssumption DEF NoteTypeOK
<1>2. Proof(hold[s], u) \in 1..MaxHoldings
  BY DEF NoteTypeOK, Proof, Holdings
<1>3. r \in NoteRows
  BY <1>1, <1>2 DEF NoteRows
<1>4. notes' = (kept \ Row(u, s)) \cup {r}
  BY DEF Store
<1> HIDE DEF r
<1>5. QED BY <1>3, <1>4 DEF NoteTypeOK

LEMMA AcquireTyped ==
  ASSUME NoteTypeOK, NEW u \in Owners, NEW s \in TaskSlots, Acquire(u, s)
  PROVE  hold' \in [TaskSlots -> Holdings \cup {Nothing}] /\ serial' \in 0..MaxHoldings
<1>1. serial + 1 \in 1..MaxHoldings /\ serial' = serial + 1
  BY NoteAssumption DEF NoteTypeOK, Acquire
<1>2. [user |-> u, id |-> serial + 1, longer |-> FALSE] \in Holdings
  BY <1>1 DEF Holdings
<1>3. QED BY <1>1, <1>2 DEF NoteTypeOK, Acquire

LEMMA CommandTyped ==
  ASSUME NInv, NoteTypeOK, KeyInUse, Dispatch \/ RegisterCommandUsage
  PROVE  NoteTypeOK' /\ KeyInUse'
<1> DEFINE u == command.user
           s == command.slot
<1>1. command \in CommandRows \ {NoCommand}
  BY DEF Dispatch, RegisterCommandUsage, NInv, NoCommand
<1>2. u \in Owners /\ s \in TaskSlots /\ key[u] # 0 /\ command'.user = u
  BY <1>1 DEF Dispatch, RegisterCommandUsage, CommandRows, KeyInUse
<1>3. UNCHANGED << key, issued, reader >>
  BY DEF Dispatch, RegisterCommandUsage
<1>4. hold' \in [TaskSlots -> Holdings \cup {Nothing}] /\ serial' \in 0..MaxHoldings
  <2>1. CASE Acquire(u, s)
    BY <1>2, <2>1, AcquireTyped
  <2>2. CASE hold[s] # Nothing /\ hold' = [hold EXCEPT ![s].longer = TRUE] /\ UNCHANGED serial
    <3> DEFINE h == [hold[s] EXCEPT !.longer = TRUE]
    <3>1. h \in Holdings
      BY <1>2, <2>2 DEF NoteTypeOK, Holdings
    <3>2. hold' = [hold EXCEPT ![s] = h]
      BY <1>2, <2>2 DEF NoteTypeOK
    <3> HIDE DEF h
    <3>3. QED BY <1>2, <2>2, <3>1, <3>2 DEF NoteTypeOK
  <2>3. CASE (hold' = [hold EXCEPT ![s] = Nothing] \/ UNCHANGED hold) /\ UNCHANGED serial
    BY <2>3 DEF NoteTypeOK
  <2>4. QED BY <2>1, <2>2, <2>3 DEF Dispatch, RegisterCommandUsage
<1>5. notes' \subseteq NoteRows
  <2> DEFINE reusable == {n \in Row(u, s) : ~ n.ripe /\ n.proof = Proof(command.before, u)}
             kept == {n \in notes : ~ n.ripe}
  <2>1. CASE UNCHANGED notes
    BY <2>1 DEF NoteTypeOK
  <2>2. ASSUME NEW p \in IF command.purpose # Silent THEN {command.purpose} ELSE {n.purpose : n \in reusable},
               Proof(hold[s], u) # 0, Store(u, s, Proof(hold[s], u), p, kept)
        PROVE  notes' \subseteq NoteRows
    <3>1. command.purpose \in Purposes \cup {Silent}
      BY <1>1 DEF CommandRows
    <3>2. \A n \in reusable : n.purpose \in Purposes
      BY DEF Row, NoteTypeOK, NoteRows
    <3>3. p \in Purposes /\ kept \in SUBSET notes
      BY <2>2, <3>1, <3>2
    <3> HIDE DEF u, s, kept, reusable
    <3>4. QED BY <1>2, <2>2, <3>3, StoreTyped
  <2>3. QED BY <2>1, <2>2 DEF Dispatch, RegisterCommandUsage
<1>6. QED BY <1>2, <1>3, <1>4, <1>5 DEF NoteTypeOK, KeyInUse, Dispatch, RegisterCommandUsage

LEMMA NoteStepTyped ==
  ASSUME NInv, NoteTypeOK, KeyInUse, [NoteNext]_noteVars
  PROVE  NoteTypeOK' /\ KeyInUse'
<1>1. ASSUME NEW u \in Owners, NEW s \in TaskSlots, ChatLock(u, s) PROVE NoteTypeOK' /\ KeyInUse'
  BY <1>1, AcquireTyped DEF ChatLock, NoteTypeOK, KeyInUse
<1>2. ASSUME NEW u \in Owners, NEW s \in TaskSlots, PrepareCommandUsage(u, s) PROVE NoteTypeOK' /\ KeyInUse'
  BY <1>2 DEF PrepareCommandUsage, NoteTypeOK, KeyInUse
<1>3. ASSUME NEW u \in Owners, NEW s \in TaskSlots, PutUsage(u, s) PROVE NoteTypeOK' /\ KeyInUse'
  <2>1. PICK p \in Purposes : Store(u, s, Proof(hold[s], u), p, {n \in notes : ~ n.ripe})
    BY <1>3 DEF PutUsage
  <2>2. key[u] # 0 /\ Proof(hold[s], u) # 0 /\ UNCHANGED << hold, key, serial, issued, command, reader >>
    BY <1>3 DEF PutUsage
  <2>3. notes' \subseteq NoteRows
    BY <2>1, <2>2, StoreTyped
  <2>4. QED BY <2>2, <2>3 DEF NoteTypeOK, KeyInUse
<1>4. ASSUME NEW s \in TaskSlots, HoldingEnds(s) PROVE NoteTypeOK' /\ KeyInUse'
  BY <1>4 DEF HoldingEnds, NoteTypeOK, KeyInUse
<1>5. ASSUME NEW u \in Owners, Revoked(u) PROVE NoteTypeOK' /\ KeyInUse'
  BY <1>5, NoteAssumption DEF Revoked, NoteTypeOK, KeyInUse
<1>6. ASSUME NEW u \in Owners, Confirmed(u) PROVE NoteTypeOK' /\ KeyInUse'
  <2>1. issued + 1 \in 0..MaxKeys /\ issued + 1 # 0 /\ issued' = issued + 1
        /\ key' = [key EXCEPT ![u] = issued + 1] /\ UNCHANGED << hold, notes, serial, command, reader >>
    BY <1>6, NoteAssumption DEF Confirmed, NoteTypeOK
  <2>2. key' \in [Owners -> 0..MaxKeys] /\ \A v \in Owners : key[v] # 0 => key'[v] # 0
    BY <2>1 DEF NoteTypeOK
  <2>3. command # NoCommand => command.user \in Owners
    BY DEF NInv, CommandRows
  <2>4. QED BY <2>1, <2>2, <2>3 DEF NoteTypeOK, KeyInUse
<1>7. CASE Dispatch \/ RegisterCommandUsage
  BY <1>7, CommandTyped
<1>8. CASE RegistrationFails \/ PruneActorUsage \/ DeleteUsage \/ CleanupObsolete \/ CleanupUnfit \/ UNCHANGED noteVars
  BY <1>8 DEF RegistrationFails, PruneActorUsage, DeleteUsage, CleanupObsolete, CleanupUnfit, noteVars,
              NoteTypeOK, KeyInUse
<1>9. ASSUME NEW n \in notes, ReadUsage(n) PROVE NoteTypeOK' /\ KeyInUse'
  BY <1>9 DEF ReadUsage, NoteTypeOK, KeyInUse
<1>10. ASSUME NEW n \in notes, NoteRipens(n) PROVE NoteTypeOK' /\ KeyInUse'
  <2>1. [n EXCEPT !.ripe = TRUE] \in NoteRows
    BY DEF NoteTypeOK, NoteRows
  <2>2. QED BY <1>10, <2>1 DEF NoteRipens, NoteTypeOK, KeyInUse
<1>11. QED
  BY <1>1, <1>2, <1>3, <1>4, <1>5, <1>6, <1>7, <1>8, <1>9, <1>10 DEF NoteNext

LEMMA NoteStartsTyped == ASSUME NoteInit PROVE NoteTypeOK /\ KeyInUse
BY NoteAssumption DEF NoteInit, NoteTypeOK, KeyInUse

\* Notes are of a key that was issued and of a holding there was, and a command runs
\* under a key that is not revoked (resource_usage/service.py).
THEOREM NoteTypesHold == NoteSpec => []NoteTypeOK
<1>1. NoteInit => NInv /\ NoteTypeOK /\ KeyInUse
  BY InitNotes, NoteStartsTyped
<1>2. NInv /\ NoteTypeOK /\ KeyInUse /\ [NoteNext]_noteVars => (NInv /\ NoteTypeOK /\ KeyInUse)'
  BY StepNotes, NoteStepTyped
<1>3. NInv /\ NoteTypeOK /\ KeyInUse => NoteTypeOK
  OBVIOUS
<1>4. QED BY <1>1, <1>2, <1>3, PTL DEF NoteSpec

-----------------------------------------------------------------------------
(***************************************************************************)
(* Notices: each is in one place and has one fate, and what goes out goes  *)
(* to the present target in the order of the commands.                     *)
(***************************************************************************)

EventRows == [id : Nat, kind : Kinds]
BatchRows ==
  [key : Nat \ {0}, events : Seq(EventRows), dropped : BOOLEAN, sending : BOOLEAN,
   retry : Seq(EventRows) \cup {NoText}, due : BOOLEAN, lapsed : BOOLEAN]
JobRows ==
  [group : Groups, key : Nat, text : Seq(EventRows), at : {"check", "io"}, own : BOOLEAN,
   orphan : BOOLEAN, slot : 1..Workers]

NoticesTyped ==
  /\ target \in [Groups -> [generation : Nat \ {0}, enabled : BOOLEAN]]
  /\ DOMAIN batches = Groups /\ \A g \in Groups : batches[g] = NoDelivery \/ batches[g] \in BatchRows
  /\ jobs \subseteq JobRows /\ DOMAIN fate = Notice
  /\ offers \in Nat /\ offers <= MaxOffers

Ascending(s) == \A i, k \in DOMAIN s : i < k => s[i].id < s[k].id
Before(S, T) == \A m \in S, n \in T : m < n

\* A batch is in the order of the offers, its deferred text first, and defers
\* nothing while it sends.
BatchSound(b) ==
  b # NoDelivery => /\ Ascending(b.events) /\ Before(Texts(Held(b.retry)), Texts(b.events))
                    /\ b.sending => b.retry = NoText

\* A message on its way is for the present target, and older than what waits in
\* its batch.
JobSound(j) ==
  /\ j.at = "io" => j.key = target[j.group].generation
  /\ ~ j.orphan => /\ batches[j.group] # NoDelivery /\ batches[j.group].sending
                   /\ Before(Texts(j.text), Retained(batches[j.group]))

\* Slots tell jobs apart, and a batch has one job at most, as it says.
OneJobEach ==
  /\ \A j, k \in jobs : j.slot = k.slot => j = k
  /\ \A j, k \in jobs : j.group = k.group /\ ~ j.orphan /\ ~ k.orphan => j = k
  /\ \A g \in Groups : batches[g] # NoDelivery /\ batches[g].sending => OfBatch(g) # {}

\* A notice is in one place.
Apart ==
  /\ \A g, h \in Groups : g # h => Retained(batches[g]) \cap Retained(batches[h]) = {}
  /\ \A j, k \in jobs : j # k => Texts(j.text) \cap Texts(k.text) = {}
WaitingTexts == UNION {Retained(batches[g]) : g \in Groups}
Taken == UNION {Texts(j.text) : j \in jobs}

NoticesInv ==
  /\ NoticesTyped
  /\ \A g \in Groups : BatchSound(batches[g])
  /\ \A j \in jobs : JobSound(j)
  /\ OneJobEach /\ Apart
  /\ WaitingTexts \cup Taken \subseteq 1..offers
  /\ NoticesAccounted

\* What a job remains when its batch is cancelled or its message is cleared to go.
Continues(k, j) ==
  /\ k.slot = j.slot /\ k.group = j.group /\ k.key = j.key /\ k.text = j.text
  /\ j.orphan => k.orphan
JobsFrom(K) ==
  /\ K \subseteq JobRows
  /\ \A k, l \in K : k.slot = l.slot => k = l
  /\ \A k \in K : \E j \in jobs : Continues(k, j)

-----------------------------------------------------------------------------
(* Sequences of notices. *)

LEMMA TextsSplit ==
  ASSUME NEW s \in Seq(EventRows), NEW k \in 0..Len(s), Ascending(s)
  PROVE  LET a == SubSeq(s, 1, k)
             b == SubSeq(s, k + 1, Len(s))
         IN  /\ a \in Seq(EventRows) /\ b \in Seq(EventRows) /\ Ascending(b)
             /\ Texts(s) = Texts(a) \cup Texts(b) /\ Before(Texts(a), Texts(b))
<1> DEFINE a == SubSeq(s, 1, k)
           b == SubSeq(s, k + 1, Len(s))
<1>1. /\ a \in Seq(EventRows) /\ Len(a) = k /\ \A i \in 1..k : a[i] = s[i]
  OBVIOUS
<1>2. /\ b \in Seq(EventRows) /\ Len(b) = Len(s) - k /\ \A i \in 1..Len(s) - k : b[i] = s[k + i]
  OBVIOUS
<1>3. DOMAIN a = 1..k /\ DOMAIN b = 1..Len(s) - k /\ DOMAIN s = 1..Len(s) /\ Len(s) \in Nat
  BY <1>1, <1>2
<1>4. \A i \in DOMAIN s : s[i].id \in Nat
  <2>1. \A i \in DOMAIN s : s[i] \in EventRows
    OBVIOUS
  <2>2. \A e \in EventRows : e.id \in Nat
    BY DEF EventRows
  <2>3. QED BY <2>1, <2>2
<1> HIDE DEF a, b
<1>5. Ascending(b)
  <2>1. ASSUME NEW i \in DOMAIN b, NEW l \in DOMAIN b, i < l PROVE b[i].id < b[l].id
    <3>1. k + i \in DOMAIN s /\ k + l \in DOMAIN s /\ k + i < k + l
      BY <1>3, <2>1
    <3>2. s[k + i].id < s[k + l].id
      BY <3>1 DEF Ascending
    <3>3. b[i] = s[k + i] /\ b[l] = s[k + l]
      BY <1>2, <1>3
    <3>4. QED BY <3>2, <3>3
  <2>2. QED BY <2>1 DEF Ascending
<1>6. Texts(s) \subseteq Texts(a) \cup Texts(b)
  <2>1. ASSUME NEW i \in DOMAIN s PROVE s[i].id \in Texts(a) \cup Texts(b)
    <3>1. CASE i <= k
      BY <1>1, <1>3, <3>1 DEF Texts
    <3>2. CASE i > k
      <4>1. i - k \in DOMAIN b /\ b[i - k] = s[i]
        BY <1>2, <1>3, <3>2
      <4>2. QED BY <4>1 DEF Texts
    <3>3. QED BY <1>3, <3>1, <3>2
  <2>2. QED BY <2>1 DEF Texts
<1>7. Texts(a) \subseteq Texts(s) /\ Texts(b) \subseteq Texts(s)
  <2>1. \A i \in DOMAIN a : i \in DOMAIN s /\ a[i] = s[i]
    BY <1>1, <1>3
  <2>2. \A i \in DOMAIN b : k + i \in DOMAIN s /\ b[i] = s[k + i]
    BY <1>2, <1>3
  <2>3. QED BY <2>1, <2>2 DEF Texts
<1>8. Before(Texts(a), Texts(b))
  <2>1. ASSUME NEW i \in DOMAIN a, NEW l \in DOMAIN b PROVE a[i].id < b[l].id
    <3>1. i \in DOMAIN s /\ k + l \in DOMAIN s /\ i < k + l
      BY <1>3
    <3>2. s[i].id < s[k + l].id
      BY <3>1 DEF Ascending
    <3>3. QED BY <1>1, <1>2, <1>3, <3>2
  <2>2. QED BY <2>1 DEF Before, Texts
<1>9. QED BY <1>1, <1>2, <1>5, <1>6, <1>7, <1>8 DEF a, b

LEMMA TextsAppend ==
  ASSUME NEW s \in Seq(EventRows), NEW e \in EventRows, Ascending(s), \A m \in Texts(s) : m < e.id
  PROVE  /\ Append(s, e) \in Seq(EventRows) /\ Ascending(Append(s, e))
         /\ Texts(Append(s, e)) = Texts(s) \cup {e.id}
<1> DEFINE t == Append(s, e)
<1>1. /\ t \in Seq(EventRows) /\ DOMAIN t = 1..Len(s) + 1 /\ DOMAIN s = 1..Len(s) /\ Len(s) \in Nat
      /\ \A i \in DOMAIN s : t[i] = s[i]
      /\ t[Len(s) + 1] = e
  OBVIOUS
<1> HIDE DEF t
<1>2. \A i \in DOMAIN s : s[i].id < e.id
  BY DEF Texts
<1>3. \A i \in DOMAIN t : i \in DOMAIN s \/ i = Len(s) + 1
  BY <1>1
<1>4. Ascending(t)
  <2>1. ASSUME NEW i \in DOMAIN t, NEW k \in DOMAIN t, i < k PROVE t[i].id < t[k].id
    <3>1. i \in DOMAIN s
      BY <1>1, <2>1
    <3>2. CASE k \in DOMAIN s
      BY <1>1, <2>1, <3>1, <3>2 DEF Ascending
    <3>3. CASE k = Len(s) + 1
      BY <1>1, <1>2, <3>1, <3>3
    <3>4. QED BY <1>3, <3>2, <3>3
  <2>2. QED BY <2>1 DEF Ascending
<1>5. Texts(t) = Texts(s) \cup {e.id}
  <2>1. \A i \in DOMAIN t : t[i].id \in Texts(s) \cup {e.id}
    BY <1>1, <1>3 DEF Texts
  <2>2. \A i \in DOMAIN s : i \in DOMAIN t /\ s[i].id = t[i].id
    BY <1>1
  <2>3. Len(s) + 1 \in DOMAIN t
    BY <1>1
  <2>4. Texts(t) \subseteq Texts(s) \cup {e.id}
    BY <2>1 DEF Texts
  <2>5. Texts(s) \subseteq Texts(t)
    BY <2>2 DEF Texts
  <2>6. e.id \in Texts(t)
    BY <1>1, <2>3 DEF Texts
  <2>7. QED BY <2>4, <2>5, <2>6
<1>6. QED BY <1>1, <1>4, <1>5 DEF t

LEMMA TextsRemove ==
  ASSUME NEW s \in Seq(EventRows), NEW v \in DOMAIN s, Ascending(s)
  PROVE  /\ RemoveAt(s, v) \in Seq(EventRows) /\ Ascending(RemoveAt(s, v))
         /\ Texts(RemoveAt(s, v)) = Texts(s) \ {s[v].id}
<1> DEFINE t == RemoveAt(s, v)
<1>1. /\ DOMAIN s = 1..Len(s) /\ Len(s) \in Nat /\ v \in 1..Len(s)
  OBVIOUS
<1>2. /\ t \in Seq(EventRows) /\ Len(t) = Len(s) - 1
      /\ \A i \in 1..v - 1 : t[i] = s[i]
      /\ \A i \in v..Len(s) - 1 : t[i] = s[i + 1]
  <2> DEFINE a == SubSeq(s, 1, v - 1)
             b == SubSeq(s, v + 1, Len(s))
  <2>1. a \in Seq(EventRows) /\ Len(a) = v - 1 /\ \A i \in 1..v - 1 : a[i] = s[i]
    BY <1>1
  <2>2. b \in Seq(EventRows) /\ Len(b) = Len(s) - v /\ \A i \in 1..Len(s) - v : b[i] = s[v + i]
    BY <1>1
  <2>3. t = a \o b
    BY DEF RemoveAt
  <2> HIDE DEF a, b, t
  <2>4. /\ t \in Seq(EventRows) /\ Len(t) = Len(a) + Len(b)
        /\ \A i \in 1..Len(a) : t[i] = a[i]
        /\ \A i \in Len(a) + 1..Len(a) + Len(b) : t[i] = b[i - Len(a)]
    <3>1. Len(a) \in Nat /\ Len(b) \in Nat
      BY <2>1, <2>2
    <3>2. /\ t \in Seq(EventRows) /\ Len(t) = Len(a) + Len(b)
          /\ \A i \in 1..Len(a) + Len(b) : t[i] = IF i <= Len(a) THEN a[i] ELSE b[i - Len(a)]
      BY <2>1, <2>2, <2>3, ConcatProperties
    <3>3. QED BY ONLY <3>1, <3>2
  <2>5. ASSUME NEW i \in v..Len(s) - 1 PROVE t[i] = s[i + 1]
    <3>1. i - (v - 1) \in 1..Len(s) - v /\ i \in Len(a) + 1..Len(a) + Len(b)
      BY <1>1, <2>1, <2>2
    <3>2. t[i] = b[i - (v - 1)] /\ b[i - (v - 1)] = s[v + (i - (v - 1))]
      BY <1>1, <2>1, <2>2, <2>4, <3>1
    <3>3. v + (i - (v - 1)) = i + 1
      BY <1>1
    <3>4. QED BY <3>2, <3>3
  <2>6. QED BY <1>1, <2>1, <2>2, <2>4, <2>5
<1>3. DOMAIN t = 1..Len(s) - 1
  BY <1>1, <1>2
<1>4. \A i \in DOMAIN s : s[i].id \in Nat
  <2>1. \A i \in DOMAIN s : s[i] \in EventRows
    OBVIOUS
  <2>2. \A e \in EventRows : e.id \in Nat
    BY DEF EventRows
  <2>3. QED BY <2>1, <2>2
<1> HIDE DEF t
<1>5. \A i \in DOMAIN t : \/ i < v /\ i \in DOMAIN s /\ t[i] = s[i]
                          \/ i >= v /\ i + 1 \in DOMAIN s /\ t[i] = s[i + 1]
  BY <1>1, <1>2, <1>3
<1>6. Ascending(t)
  <2>1. ASSUME NEW i \in DOMAIN t, NEW k \in DOMAIN t, i < k PROVE t[i].id < t[k].id
    <3>1. \A a, c \in DOMAIN s : a < c => s[a].id < s[c].id
      BY DEF Ascending
    <3>2. /\ i < v => i \in DOMAIN s /\ t[i] = s[i]
          /\ i >= v => i + 1 \in DOMAIN s /\ t[i] = s[i + 1]
          /\ k < v => k \in DOMAIN s /\ t[k] = s[k]
          /\ k >= v => k + 1 \in DOMAIN s /\ t[k] = s[k + 1]
      BY <1>1, <1>3, <1>5, <2>1
    <3>3. i \in Nat /\ k \in Nat /\ v \in Nat /\ i < k
      BY <1>1, <1>3, <2>1
    <3>4. CASE k < v
      BY <2>1, <3>1, <3>2, <3>3, <3>4
    <3>5. CASE k >= v /\ i < v
      <4>1. i < k + 1 /\ t[i] = s[i] /\ t[k] = s[k + 1] /\ i \in DOMAIN s /\ k + 1 \in DOMAIN s
        BY <3>2, <3>3, <3>5
      <4>2. QED BY <3>1, <4>1
    <3>6. CASE k >= v /\ i >= v
      <4>1. i + 1 < k + 1 /\ t[i] = s[i + 1] /\ t[k] = s[k + 1] /\ i + 1 \in DOMAIN s /\ k + 1 \in DOMAIN s
        BY <3>2, <3>3, <3>6
      <4>2. QED BY <3>1, <4>1
    <3>7. QED BY <3>3, <3>4, <3>5, <3>6
  <2>2. QED BY <2>1 DEF Ascending
<1>7. ASSUME NEW i \in DOMAIN s, i # v PROVE s[i].id # s[v].id /\ s[i].id \in Texts(t)
  <2>1. s[i].id # s[v].id
    BY <1>1, <1>4, <1>7 DEF Ascending
  <2>2. CASE i < v
    <3>1. i \in DOMAIN t /\ t[i] = s[i]
      BY <1>1, <1>2, <1>3, <2>2
    <3>2. QED BY <2>1, <3>1 DEF Texts
  <2>3. CASE i > v
    <3>1. i - 1 \in DOMAIN t /\ t[i - 1] = s[i]
      <4>1. i - 1 \in v..Len(s) - 1 /\ i - 1 \in DOMAIN t /\ (i - 1) + 1 = i
        BY <1>1, <1>3, <2>3
      <4>2. t[i - 1] = s[(i - 1) + 1]
        BY <1>2, <4>1
      <4>3. QED BY <4>1, <4>2
    <3>2. QED BY <2>1, <3>1 DEF Texts
  <2>4. QED BY <1>1, <1>7, <2>2, <2>3
<1>8. \A i \in DOMAIN t : t[i].id \in Texts(s) /\ t[i].id # s[v].id
  <2>1. ASSUME NEW i \in DOMAIN t PROVE t[i].id \in Texts(s) /\ t[i].id # s[v].id
    <3>1. CASE i < v /\ i \in DOMAIN s /\ t[i] = s[i]
      BY <1>1, <1>7, <3>1 DEF Texts
    <3>2. CASE i >= v /\ i + 1 \in DOMAIN s /\ t[i] = s[i + 1]
      <4>1. i + 1 # v
        BY <1>1, <1>3, <3>2
      <4>2. QED BY <1>7, <3>2, <4>1 DEF Texts
    <3>3. QED BY <1>5, <3>1, <3>2
  <2>2. QED BY <2>1
<1>9. Texts(t) = Texts(s) \ {s[v].id}
  <2>1. Texts(t) \subseteq Texts(s) \ {s[v].id}
    BY <1>8 DEF Texts
  <2>2. Texts(s) \ {s[v].id} \subseteq Texts(t)
    BY <1>7 DEF Texts
  <2>3. QED BY <2>1, <2>2
<1>10. QED BY <1>2, <1>6, <1>9 DEF t

-----------------------------------------------------------------------------
(* Batches and jobs. *)

LEMMA BatchIs ==
  ASSUME NEW b \in BatchRows
  PROVE  /\ b # NoDelivery /\ b.events \in Seq(EventRows) /\ Held(b.retry) \in Seq(EventRows)
         /\ Retained(b) = Texts(b.events) \cup Texts(Held(b.retry))
         /\ b.retry = NoText => Held(b.retry) = << >> /\ Texts(Held(b.retry)) = {}
         /\ b.retry # NoText => Held(b.retry) = b.retry
         /\ Resting(b) => Retained(b) = {}
         /\ b.sending \in BOOLEAN /\ b.key \in Nat /\ b.key # 0
<1>1. b.key # 0 /\ NoDelivery.key = 0
  BY DEF BatchRows, NoDelivery
<1>2. b # NoDelivery
  BY <1>1
<1>3. Texts(<< >>) = {}
  BY DEF Texts
<1>4. b.events \in Seq(EventRows) /\ (b.retry \in Seq(EventRows) \/ b.retry = NoText)
  BY DEF BatchRows
<1>5. << >> \in Seq(EventRows)
  OBVIOUS
<1>6. Held(b.retry) \in Seq(EventRows)
  BY <1>4, <1>5 DEF Held
<1>7. Retained(b) = Texts(b.events) \cup Texts(Held(b.retry))
  BY <1>2 DEF Retained
<1>8. b.retry = NoText => Held(b.retry) = << >> /\ Texts(Held(b.retry)) = {}
  BY <1>3 DEF Held
<1>9. Resting(b) => Retained(b) = {}
  BY <1>3, <1>7, <1>8 DEF Resting
<1>10. QED BY <1>1, <1>2, <1>4, <1>6, <1>7, <1>8, <1>9 DEF Held, BatchRows

LEMMA NothingHeld == Retained(NoDelivery) = {}
BY DEF Retained

\* One batch changes: what waits elsewhere stays.
LEMMA WaitingMoves ==
  ASSUME NoticesInv, NEW g \in Groups,
         \A h \in Groups \ {g} : Retained(batches'[h]) = Retained(batches[h]),
         NEW X, X \cap WaitingTexts = {}, Retained(batches'[g]) \subseteq Retained(batches[g]) \cup X
  PROVE  /\ WaitingTexts' = (WaitingTexts \ Retained(batches[g])) \cup Retained(batches'[g])
         /\ \A a, b \in Groups : a # b => Retained(batches'[a]) \cap Retained(batches'[b]) = {}
<1> DEFINE R(h) == Retained(batches[h])
           Q(h) == Retained(batches'[h])
<1>1. \A a, b \in Groups : a # b => R(a) \cap R(b) = {}
  BY DEF NoticesInv, Apart
<1>2. WaitingTexts = UNION {R(h) : h \in Groups} /\ WaitingTexts' = UNION {Q(h) : h \in Groups}
  BY DEF WaitingTexts, Retained, Texts, Held
<1>3. /\ \A h \in Groups \ {g} : Q(h) = R(h)
      /\ Q(g) \subseteq R(g) \cup X /\ X \cap WaitingTexts = {}
  OBVIOUS
<1> HIDE DEF R, Q
<1>4. WaitingTexts' = (WaitingTexts \ R(g)) \cup Q(g)
  BY <1>1, <1>2, <1>3
<1>5. ASSUME NEW h \in Groups, h # g PROVE Q(g) \cap Q(h) = {}
  <2>1. R(h) \subseteq WaitingTexts
    BY <1>2
  <2>2. R(g) \cap R(h) = {} /\ Q(h) = R(h)
    BY <1>1, <1>3, <1>5
  <2>3. QED BY <1>3, <2>1, <2>2
<1>6. ASSUME NEW a \in Groups, NEW b \in Groups, a # b PROVE Q(a) \cap Q(b) = {}
  <2>1. CASE a = g
    BY <1>5, <1>6, <2>1
  <2>2. CASE b = g
    BY <1>5, <1>6, <2>2
  <2>3. CASE a # g /\ b # g
    BY <1>1, <1>3, <1>6, <2>3
  <2>4. QED BY <2>1, <2>2, <2>3
<1>7. QED BY <1>4, <1>6 DEF R, Q

LEMMA JobsKept ==
  ASSUME NoticesInv, NEW K, JobsFrom(K)
  PROVE  /\ \A k, l \in K : k.group = l.group /\ ~ k.orphan /\ ~ l.orphan => k = l
         /\ \A k, l \in K : k # l => Texts(k.text) \cap Texts(l.text) = {}
         /\ \A k \in K : Texts(k.text) \subseteq Taken
<1>1. ASSUME NEW k \in K, NEW l \in K, k # l
      PROVE  \E j, i \in jobs : j # i /\ Continues(k, j) /\ Continues(l, i)
  <2>1. PICK j \in jobs : Continues(k, j)
    BY DEF JobsFrom
  <2>2. PICK i \in jobs : Continues(l, i)
    BY DEF JobsFrom
  <2>3. j.slot # i.slot
    BY <1>1, <2>1, <2>2 DEF Continues, JobsFrom
  <2>4. QED BY <2>1, <2>2, <2>3
<1>2. /\ \A j, i \in jobs : j.group = i.group /\ ~ j.orphan /\ ~ i.orphan => j = i
      /\ \A j, i \in jobs : j # i => Texts(j.text) \cap Texts(i.text) = {}
  BY DEF NoticesInv, OneJobEach, Apart
<1>3. ASSUME NEW k \in K, NEW l \in K, k.group = l.group, ~ k.orphan, ~ l.orphan PROVE k = l
  BY <1>1, <1>2, <1>3 DEF Continues
<1>4. ASSUME NEW k \in K, NEW l \in K, k # l PROVE Texts(k.text) \cap Texts(l.text) = {}
  BY <1>1, <1>2, <1>4 DEF Continues
<1>5. \A k \in K : Texts(k.text) \subseteq Taken
  BY DEF JobsFrom, Continues, Taken
<1>6. QED BY <1>3, <1>4, <1>5

LEMMA OrphansFollow ==
  ASSUME NoticesInv, NEW S
  PROVE  /\ JobsFrom(Orphaned(S))
         /\ \A k \in Orphaned(S) : \E j \in jobs : /\ Continues(k, j) /\ k.at = j.at
                                                   /\ k.orphan <=> j.orphan \/ j \in S
         /\ \A j \in jobs : \E k \in Orphaned(S) : /\ Continues(k, j) /\ k.at = j.at
                                                   /\ k.orphan <=> j.orphan \/ j \in S
<1> DEFINE F(j) == IF j \in S THEN [j EXCEPT !.orphan = TRUE] ELSE j
<1>1. ASSUME NEW j \in jobs
      PROVE  /\ F(j) \in JobRows /\ Continues(F(j), j) /\ F(j).at = j.at
             /\ F(j).orphan <=> j.orphan \/ j \in S
             /\ F(j).slot = j.slot
  <2>1. j \in JobRows
    BY DEF NoticesInv, NoticesTyped
  <2>2. QED BY <2>1 DEF JobRows, Continues
<1>2. Orphaned(S) = {F(j) : j \in jobs}
  BY DEF Orphaned
<1> HIDE DEF F
<1>3. ASSUME NEW k \in Orphaned(S), NEW l \in Orphaned(S), k.slot = l.slot PROVE k = l
  <2>1. PICK j \in jobs : k = F(j)
    BY <1>2
  <2>2. PICK i \in jobs : l = F(i)
    BY <1>2
  <2>3. j.slot = i.slot
    BY <1>1, <1>3, <2>1, <2>2
  <2>4. j = i
    BY <2>3 DEF NoticesInv, OneJobEach
  <2>5. QED BY <2>1, <2>2, <2>4
<1>4. JobsFrom(Orphaned(S))
  BY <1>1, <1>2, <1>3 DEF JobsFrom
<1>5. QED BY <1>1, <1>2, <1>4

LEMMA SameJobs == ASSUME NoticesInv PROVE JobsFrom(jobs) /\ \A j \in jobs : Continues(j, j)
BY DEF NoticesInv, NoticesTyped, OneJobEach, JobsFrom, Continues

\* What waits has the fate "queued", what is under way "taken".
LEMMA FateIs ==
  ASSUME NoticesInv
  PROVE  /\ \A n \in Notice : /\ fate[n] = "queued" <=> n \in WaitingTexts
                              /\ fate[n] = "taken" <=> n \in Taken
         /\ WaitingTexts \cap Taken = {}
         /\ WaitingTexts \subseteq Notice /\ Taken \subseteq Notice
         /\ WaitingTexts \subseteq 1..offers /\ Taken \subseteq 1..offers
         /\ \A g \in Groups : Retained(batches[g]) \subseteq WaitingTexts
         /\ \A j \in jobs : Texts(j.text) \subseteq Taken
<1>1. WaitingTexts \subseteq 1..offers /\ Taken \subseteq 1..offers
  BY DEF NoticesInv
<1>2. 1..offers \subseteq Notice
  BY NoticeAssumption DEF NoticesInv, NoticesTyped, Notice
<1>3. {n \in Notice : fate[n] = "queued"} = WaitingTexts /\ {n \in Notice : fate[n] = "taken"} = Taken
  BY DEF NoticesInv, NoticesAccounted, WaitingTexts, Taken
<1>4. (\A g \in Groups : Retained(batches[g]) \subseteq WaitingTexts)
        /\ (\A j \in jobs : Texts(j.text) \subseteq Taken)
  BY DEF WaitingTexts, Taken
<1> HIDE DEF WaitingTexts, Taken
<1>5. QED BY <1>1, <1>2, <1>3, <1>4

\* The invariant again, when no job was added ...
LEMMA NoNewJob ==
  ASSUME NoticesInv, NoticesTyped', JobsFrom(jobs'),
         \A g \in Groups : BatchSound(batches'[g]),
         \A k \in jobs' : JobSound(k)',
         \A g \in Groups : batches'[g] # NoDelivery /\ batches'[g].sending =>
                              \E j \in jobs' : j.group = g /\ ~ j.orphan,
         \A a, b \in Groups : a # b => Retained(batches'[a]) \cap Retained(batches'[b]) = {},
         WaitingTexts' \subseteq 1..offers', Taken' \subseteq 1..offers',
         \A n \in Notice : /\ fate'[n] = "queued" <=> n \in WaitingTexts'
                           /\ fate'[n] = "taken" <=> n \in Taken'
  PROVE  NoticesInv'
<1>1. OneJobEach'
  BY JobsKept DEF JobsFrom, OneJobEach, OfBatch
<1>2. Apart'
  BY JobsKept DEF Apart, Retained, Texts, Held
<1>3. NoticesAccounted'
  <2>1. WaitingTexts' \subseteq Notice /\ Taken' \subseteq Notice
    BY NoticeAssumption DEF NoticesTyped, Notice
  <2>2. {n \in Notice : fate'[n] = "queued"} = WaitingTexts' /\ {n \in Notice : fate'[n] = "taken"} = Taken'
    BY <2>1
  <2>3. QED BY <2>2 DEF NoticesAccounted, WaitingTexts, Taken
<1>4. \A g \in Groups : BatchSound(batches[g])'
  BY DEF BatchSound, Ascending, Before, Texts, Held
<1>5. QED BY <1>1, <1>2, <1>3, <1>4 DEF NoticesInv

\* ... and when one was, for a batch that had none.
Starts(K, new) ==
  /\ JobsFrom(K) /\ new \in JobRows /\ jobs' = K \cup {new}
  /\ \A k \in K : k.slot # new.slot /\ (k.group = new.group => k.orphan)
  /\ Texts(new.text) \cap Taken = {}

LEMMA NewJob ==
  ASSUME NoticesInv, NoticesTyped', NEW K, NEW new, Starts(K, new),
         \A g \in Groups : BatchSound(batches'[g]),
         \A k \in jobs' : JobSound(k)',
         \A g \in Groups : batches'[g] # NoDelivery /\ batches'[g].sending =>
                              \E j \in jobs' : j.group = g /\ ~ j.orphan,
         \A a, b \in Groups : a # b => Retained(batches'[a]) \cap Retained(batches'[b]) = {},
         WaitingTexts' \subseteq 1..offers', Taken' \subseteq 1..offers',
         \A n \in Notice : /\ fate'[n] = "queued" <=> n \in WaitingTexts'
                           /\ fate'[n] = "taken" <=> n \in Taken'
  PROVE  NoticesInv'
<1>0. /\ JobsFrom(K) /\ new \in JobRows /\ jobs' = K \cup {new}
      /\ \A k \in K : k.slot # new.slot /\ (k.group = new.group => k.orphan)
      /\ Texts(new.text) \cap Taken = {}
  BY DEF Starts
<1>1. /\ \A k, l \in K : k.group = l.group /\ ~ k.orphan /\ ~ l.orphan => k = l
      /\ \A k, l \in K : k # l => Texts(k.text) \cap Texts(l.text) = {}
      /\ \A k \in K : Texts(k.text) \subseteq Taken
      /\ \A k, l \in K : k.slot = l.slot => k = l
  BY <1>0, JobsKept DEF JobsFrom
<1>2. \A k \in jobs' : k \in K \/ k = new
  BY <1>0
<1>3. \A k, l \in jobs' : k.slot = l.slot => k = l
  BY <1>0, <1>1, <1>2
<1>4. \A k, l \in jobs' : k.group = l.group /\ ~ k.orphan /\ ~ l.orphan => k = l
  BY <1>0, <1>1, <1>2
<1>5. ASSUME NEW k \in jobs', NEW l \in jobs', k # l PROVE Texts(k.text) \cap Texts(l.text) = {}
  BY <1>0, <1>1, <1>2, <1>5
<1>6. OneJobEach'
  BY <1>3, <1>4 DEF OneJobEach, OfBatch
<1>7. Apart'
  BY <1>5 DEF Apart, Retained, Texts, Held
<1>8. NoticesAccounted'
  <2>1. WaitingTexts' \subseteq Notice /\ Taken' \subseteq Notice
    BY NoticeAssumption DEF NoticesTyped, Notice
  <2>2. {n \in Notice : fate'[n] = "queued"} = WaitingTexts' /\ {n \in Notice : fate'[n] = "taken"} = Taken'
    BY <2>1
  <2>3. QED BY <2>2 DEF NoticesAccounted, WaitingTexts, Taken
<1>9. \A g \in Groups : BatchSound(batches[g])'
  BY DEF BatchSound, Ascending, Before, Texts, Held
<1>10. QED BY <1>6, <1>7, <1>8, <1>9 DEF NoticesInv

\* A job is as sound as the one it follows while its target and its batch stay.
LEMMA JobStaysSound ==
  ASSUME NoticesInv, NEW j \in jobs, NEW k, Continues(k, j), k.at = "io" => j.at = "io",
         target'[j.group].generation = target[j.group].generation \/ k.at # "io",
         ~ k.orphan => batches'[j.group] = batches[j.group]
  PROVE  JobSound(k)'
BY DEF NoticesInv, JobSound, Continues, Retained, Before, Texts, Held

LEMMA BatchPut ==
  ASSUME NoticesInv, NEW g \in Groups, NEW b, batches' = [batches EXCEPT ![g] = b]
  PROVE  /\ DOMAIN batches' = Groups /\ batches'[g] = b
         /\ \A h \in Groups \ {g} : batches'[h] = batches[h]
BY DEF NoticesInv, NoticesTyped

\* A batch is touched where it makes no difference, or the row of its bot.
LEMMA QuietStep ==
  ASSUME NoticesInv, NEW g \in Groups, NEW b,
         \/ b = batches[g]
         \/ /\ batches[g] \in BatchRows /\ b \in BatchRows
            /\ b.events = batches[g].events /\ b.retry = batches[g].retry
            /\ b.sending = batches[g].sending,
         DOMAIN batches' = Groups, batches'[g] = b,
         \A h \in Groups \ {g} : batches'[h] = batches[h],
         UNCHANGED << jobs, fate, offers >>,
         target' \in [Groups -> [generation : Nat \ {0}, enabled : BOOLEAN]],
         \A h \in Groups : target'[h].generation = target[h].generation
  PROVE  NoticesInv'
<1>1. /\ DOMAIN batches' = Groups /\ batches'[g] = b
      /\ \A h \in Groups \ {g} : batches'[h] = batches[h]
  OBVIOUS
<1>2. \A h \in Groups : batches[h] = NoDelivery \/ batches[h] \in BatchRows
  BY DEF NoticesInv, NoticesTyped
<1>3. /\ b # NoDelivery <=> batches[g] # NoDelivery
      /\ b # NoDelivery => /\ b.events = batches[g].events /\ b.retry = batches[g].retry
                           /\ b.sending = batches[g].sending
  BY BatchIs
<1>4. Retained(b) = Retained(batches[g])
  BY <1>3 DEF Retained
<1>5. BatchSound(b)
  BY <1>3 DEF BatchSound, NoticesInv
<1>6. \A h \in Groups : /\ Retained(batches'[h]) = Retained(batches[h]) /\ BatchSound(batches'[h])
                        /\ batches'[h] # NoDelivery <=> batches[h] # NoDelivery
                        /\ batches'[h] # NoDelivery => batches'[h].sending = batches[h].sending
  <2>1. \A h \in Groups : BatchSound(batches[h])
    BY DEF NoticesInv
  <2>2. QED BY <1>1, <1>3, <1>4, <1>5, <2>1
<1>7. NoticesTyped'
  <2>1. \A h \in Groups : batches'[h] = NoDelivery \/ batches'[h] \in BatchRows
    BY <1>1, <1>2
  <2>2. QED BY <1>1, <2>1 DEF NoticesInv, NoticesTyped
<1>8. ASSUME NEW k \in jobs' PROVE JobSound(k)'
  <2>1. k \in jobs /\ JobSound(k) /\ k.group \in Groups
    BY DEF NoticesInv, NoticesTyped, JobRows
  <2>2. k.at = "io" => k.key = target'[k.group].generation
    BY <2>1 DEF JobSound
  <2>3. ~ k.orphan => /\ batches'[k.group] # NoDelivery /\ batches'[k.group].sending
                      /\ Before(Texts(k.text), Retained(batches'[k.group]))
    BY <1>6, <2>1 DEF JobSound
  <2>4. QED BY <2>2, <2>3 DEF JobSound, Before, Retained, Texts, Held
<1>9. \A h \in Groups : batches'[h] # NoDelivery /\ batches'[h].sending =>
                           \E j \in jobs' : j.group = h /\ ~ j.orphan
  BY <1>6 DEF NoticesInv, OneJobEach, OfBatch
<1>10. WaitingTexts' = WaitingTexts /\ \A a, c \in Groups : a # c => Retained(batches'[a]) \cap Retained(batches'[c]) = {}
  <2>1. Retained(batches[g]) \subseteq WaitingTexts
    BY DEF WaitingTexts
  <2>2. Retained(batches'[g]) = Retained(batches[g])
    BY <1>6
  <2>3. /\ WaitingTexts' = (WaitingTexts \ Retained(batches[g])) \cup Retained(batches'[g])
        /\ \A a, c \in Groups : a # c => Retained(batches'[a]) \cap Retained(batches'[c]) = {}
    <3>1. \A h \in Groups \ {g} : Retained(batches'[h]) = Retained(batches[h])
      BY <1>6
    <3>2. {} \cap WaitingTexts = {} /\ Retained(batches'[g]) \subseteq Retained(batches[g]) \cup {}
      BY <2>2
    <3>3. QED BY <3>1, <3>2, WaitingMoves
  <2>4. QED BY <2>1, <2>2, <2>3
<1>11. Taken' = Taken
  BY DEF Taken, Texts
<1>12. JobsFrom(jobs')
  BY SameJobs
<1>13. WaitingTexts' \subseteq 1..offers' /\ Taken' \subseteq 1..offers'
  BY <1>10, <1>11, FateIs
<1>14. \A n \in Notice : /\ fate'[n] = "queued" <=> n \in WaitingTexts'
                         /\ fate'[n] = "taken" <=> n \in Taken'
  BY <1>10, <1>11, FateIs
<1>15. QED BY <1>6, <1>7, <1>8, <1>9, <1>10, <1>12, <1>13, <1>14, NoNewJob

LEMMA TimeAndRows ==
  ASSUME NoticesInv, NEW g \in Groups,
         ComesDue(g) \/ RetryLapses(g) \/ DisableNotices(g) \/ EnableNotices(g)
  PROVE  NoticesInv'
<1>1. /\ batches[g] = NoDelivery \/ batches[g] \in BatchRows
      /\ DOMAIN batches = Groups
      /\ target \in [Groups -> [generation : Nat \ {0}, enabled : BOOLEAN]]
  BY DEF NoticesInv, NoticesTyped
<1>2. CASE ComesDue(g)
  <2> DEFINE b == [batches[g] EXCEPT !.due = TRUE]
  <2>1. batches' = [batches EXCEPT ![g] = b]
    BY <1>2 DEF ComesDue
  <2>2. /\ b \in BatchRows /\ b.events = batches[g].events /\ b.retry = batches[g].retry
        /\ b.sending = batches[g].sending /\ batches[g] \in BatchRows
    BY <1>1, <1>2 DEF ComesDue, BatchRows
  <2> HIDE DEF b
  <2>3. UNCHANGED << target, jobs, fate, offers >>
    BY <1>2 DEF ComesDue
  <2>4. QED BY <1>1, <2>1, <2>2, <2>3, QuietStep, BatchPut
<1>3. CASE RetryLapses(g)
  <2> DEFINE b == [batches[g] EXCEPT !.lapsed = TRUE]
  <2>1. batches' = [batches EXCEPT ![g] = b]
    BY <1>3 DEF RetryLapses
  <2>2. /\ b \in BatchRows /\ b.events = batches[g].events /\ b.retry = batches[g].retry
        /\ b.sending = batches[g].sending /\ batches[g] \in BatchRows
    BY <1>1, <1>3 DEF RetryLapses, BatchRows
  <2> HIDE DEF b
  <2>3. UNCHANGED << target, jobs, fate, offers >>
    BY <1>3 DEF RetryLapses
  <2>4. QED BY <1>1, <2>1, <2>2, <2>3, QuietStep, BatchPut
<1>4. CASE DisableNotices(g) \/ EnableNotices(g)
  <2>1. UNCHANGED << batches, jobs, fate, offers >>
    BY <1>4 DEF DisableNotices, EnableNotices
  <2>2. /\ target' \in [Groups -> [generation : Nat \ {0}, enabled : BOOLEAN]]
        /\ \A h \in Groups : target'[h].generation = target[h].generation
    <3>1. CASE DisableNotices(g)
      BY <1>1, <3>1 DEF DisableNotices
    <3>2. CASE EnableNotices(g)
      BY <1>1, <3>2 DEF EnableNotices
    <3>3. QED BY <1>4, <3>1, <3>2
  <2>3. DOMAIN batches' = Groups /\ batches'[g] = batches[g]
    BY <1>1, <2>1
  <2>4. QED BY <2>1, <2>2, <2>3, QuietStep
<1>5. QED BY <1>2, <1>3, <1>4

\* The batches of C are cancelled, and the jobs that have one of them marked.
LEMMA CancelStep ==
  ASSUME NoticesInv, NEW C \in SUBSET Groups, NEW S,
         DOMAIN batches' = Groups,
         \A h \in Groups : batches'[h] = IF h \in C THEN NoDelivery ELSE batches[h],
         jobs' = Orphaned(S),
         \A j \in jobs : j.group \in C /\ ~ j.orphan => j \in S,
         \A j \in jobs \cap S : j.group \in C,
         Mark(UNION {Retained(batches[h]) : h \in C}, "cancelled"),
         offers' = offers,
         target' \in [Groups -> [generation : Nat \ {0}, enabled : BOOLEAN]],
         \A j \in jobs : j.at = "io" => target'[j.group].generation = target[j.group].generation
  PROVE  NoticesInv'
<1>1. \A h \in Groups : batches[h] = NoDelivery \/ batches[h] \in BatchRows
  BY DEF NoticesInv, NoticesTyped
<1>2. /\ JobsFrom(jobs')
      /\ \A k \in jobs' : \E j \in jobs : /\ Continues(k, j) /\ k.at = j.at
                                          /\ k.orphan <=> j.orphan \/ j \in S
      /\ \A j \in jobs : \E k \in jobs' : /\ Continues(k, j) /\ k.at = j.at
                                          /\ k.orphan <=> j.orphan \/ j \in S
  BY OrphansFollow
<1>3. NoticesTyped'
  <2>1. \A h \in Groups : batches'[h] = NoDelivery \/ batches'[h] \in BatchRows
    BY <1>1
  <2>2. jobs' \subseteq JobRows
    BY <1>2 DEF JobsFrom
  <2>3. DOMAIN fate' = Notice
    BY DEF Mark
  <2>4. QED BY <2>1, <2>2, <2>3 DEF NoticesInv, NoticesTyped
<1>4. \A h \in Groups : BatchSound(batches'[h])
  BY DEF NoticesInv, BatchSound
<1>5. ASSUME NEW k \in jobs' PROVE JobSound(k)'
  <2>1. PICK j \in jobs : Continues(k, j) /\ k.at = j.at /\ (k.orphan <=> j.orphan \/ j \in S)
    BY <1>2
  <2>2. j.group \in Groups
    BY DEF NoticesInv, NoticesTyped, JobRows
  <2>3. ~ k.orphan => batches'[j.group] = batches[j.group]
    BY <2>1, <2>2
  <2>4. target'[j.group].generation = target[j.group].generation \/ k.at # "io"
    BY <2>1
  <2>5. QED BY <2>1, <2>3, <2>4, JobStaysSound
<1>6. ASSUME NEW h \in Groups, batches'[h] # NoDelivery, batches'[h].sending
      PROVE  \E k \in jobs' : k.group = h /\ ~ k.orphan
  <2>1. h \notin C /\ batches[h] # NoDelivery /\ batches[h].sending
    BY <1>6
  <2>2. PICK j \in jobs : j.group = h /\ ~ j.orphan
    BY <2>1 DEF NoticesInv, OneJobEach, OfBatch
  <2>3. j \notin S
    BY <2>1, <2>2
  <2>4. QED BY <1>2, <2>2, <2>3 DEF Continues
<1>7. /\ WaitingTexts' = WaitingTexts \ UNION {Retained(batches[h]) : h \in C}
      /\ \A a, b \in Groups : a # b => Retained(batches'[a]) \cap Retained(batches'[b]) = {}
  <2> DEFINE R(h) == Retained(batches[h])
             Q(h) == Retained(batches'[h])
  <2>1. \A h \in Groups : Q(h) = IF h \in C THEN {} ELSE R(h)
    BY NothingHeld
  <2>2. WaitingTexts = UNION {R(h) : h \in Groups} /\ WaitingTexts' = UNION {Q(h) : h \in Groups}
    BY DEF WaitingTexts, Retained, Texts, Held
  <2>3. \A a, b \in Groups : a # b => R(a) \cap R(b) = {}
    BY DEF NoticesInv, Apart
  <2> HIDE DEF R, Q
  <2>4. WaitingTexts' = WaitingTexts \ UNION {R(h) : h \in C}
    BY <2>1, <2>2, <2>3
  <2>5. \A a, b \in Groups : a # b => Q(a) \cap Q(b) = {}
    BY <2>1, <2>3
  <2>6. QED BY <2>4, <2>5 DEF R, Q
<1>8. Taken' = Taken
  <2> DEFINE T(j) == Texts(j.text)
  <2>1. Taken = UNION {T(j) : j \in jobs} /\ Taken' = UNION {T(j) : j \in jobs'}
    BY DEF Taken, Texts
  <2>2. (\A k \in jobs' : \E j \in jobs : T(k) = T(j)) /\ (\A j \in jobs : \E k \in jobs' : T(k) = T(j))
    BY <1>2 DEF Continues
  <2> HIDE DEF T
  <2>3. QED BY <2>1, <2>2
<1>9. UNION {Retained(batches[h]) : h \in C} \subseteq WaitingTexts
  BY DEF WaitingTexts
<1>10. \A n \in Notice : /\ fate'[n] = "queued" <=> n \in WaitingTexts'
                         /\ fate'[n] = "taken" <=> n \in Taken'
  <2> DEFINE X == UNION {Retained(batches[h]) : h \in C}
  <2>1. \A n \in Notice : fate'[n] = IF n \in X THEN "cancelled" ELSE fate[n]
    BY DEF Mark
  <2>2. WaitingTexts' = WaitingTexts \ X /\ X \subseteq WaitingTexts
    BY <1>7, <1>9
  <2> HIDE DEF X
  <2>3. QED BY <1>8, <2>1, <2>2, FateIs
<1>11. WaitingTexts' \subseteq 1..offers' /\ Taken' \subseteq 1..offers'
  BY <1>7, <1>8, FateIs
<1>12. QED BY <1>2, <1>3, <1>4, <1>5, <1>6, <1>7, <1>10, <1>11, NoNewJob

LEMMA Cancels ==
  ASSUME NoticesInv, NEW g \in Groups, RetireTarget(g) \/ CancelDisabled(g)
  PROVE  NoticesInv'
<1>1. target \in [Groups -> [generation : Nat \ {0}, enabled : BOOLEAN]]
  BY DEF NoticesInv, NoticesTyped
<1>2. Cancel(g) /\ offers' = offers
  BY DEF RetireTarget, CancelDisabled
<1>3. /\ target' \in [Groups -> [generation : Nat \ {0}, enabled : BOOLEAN]]
      /\ \A j \in jobs : j.at = "io" => target'[j.group].generation = target[j.group].generation
  <2>1. CASE RetireTarget(g)
    <3> DEFINE t == [target[g] EXCEPT !.generation = @ + 1]
    <3>1. target' = [target EXCEPT ![g] = t]
      BY <2>1 DEF RetireTarget
    <3>2. t \in [generation : Nat \ {0}, enabled : BOOLEAN]
      BY <1>1
    <3>3. \A j \in jobs : j.at = "io" => j.group # g /\ j.group \in Groups
      BY <2>1 DEF RetireTarget, NoticesInv, NoticesTyped, JobRows
    <3> HIDE DEF t
    <3>4. QED BY <1>1, <3>1, <3>2, <3>3
  <2>2. CASE CancelDisabled(g)
    BY <1>1, <2>2 DEF CancelDisabled
  <2>3. QED BY <2>1, <2>2
<1>4. /\ DOMAIN batches' = Groups
      /\ \A h \in Groups : batches'[h] = IF h \in {g} THEN NoDelivery ELSE batches[h]
  <2>1. batches' = [batches EXCEPT ![g] = NoDelivery]
    BY <1>2 DEF Cancel
  <2>2. QED BY <2>1, BatchPut
<1>5. jobs' = Orphaned(OfBatch(g)) /\ Mark(UNION {Retained(batches[h]) : h \in {g}}, "cancelled")
  BY <1>2 DEF Cancel
<1>6. /\ \A j \in jobs : j.group \in {g} /\ ~ j.orphan => j \in OfBatch(g)
      /\ \A j \in jobs \cap OfBatch(g) : j.group \in {g}
  BY DEF OfBatch
<1>7. QED BY <1>2, <1>3, <1>4, <1>5, <1>6, CancelStep

LEMMA Stops == ASSUME NoticesInv, StopQueue PROVE NoticesInv'
<1>1. /\ DOMAIN batches' = Groups
      /\ \A h \in Groups : batches'[h] = IF h \in Groups THEN NoDelivery ELSE batches[h]
      /\ Mark(UNION {Retained(batches[h]) : h \in Groups}, "cancelled")
      /\ offers' = offers /\ target' = target
  BY DEF StopQueue
<1>2. jobs' = Orphaned(jobs)
  BY DEF StopQueue, Orphaned
<1>3. \A j \in jobs : j.group \in Groups
  BY DEF NoticesInv, NoticesTyped, JobRows
<1>4. target \in [Groups -> [generation : Nat \ {0}, enabled : BOOLEAN]]
  BY DEF NoticesInv, NoticesTyped
<1>5. QED BY <1>1, <1>2, <1>3, <1>4, CancelStep

\* A job is over; its message may be deferred to its batch.
LEMMA NoticeJobEnds ==
  ASSUME NoticesInv, NEW j \in jobs, NEW how, how # "taken",
         jobs' = jobs \ {j}, Mark(Texts(j.text), how), offers' = offers, target' = target,
         DOMAIN batches' = Groups,
         \A h \in Groups \ {j.group} : batches'[h] = batches[h],
         NEW b, batches'[j.group] = b,
         \/ how # "queued" /\ j.orphan /\ b = batches[j.group]
         \/ /\ ~ j.orphan /\ b \in BatchRows /\ ~ b.sending /\ b.events = batches[j.group].events
            /\ b.retry = IF how = "queued" THEN j.text ELSE batches[j.group].retry
  PROVE  NoticesInv'
<1> DEFINE g == j.group
           t == Texts(j.text)
           X == IF how = "queued" THEN t ELSE {}
<1>1. /\ g \in Groups /\ j \in JobRows /\ j.text \in Seq(EventRows)
      /\ \A h \in Groups : batches[h] = NoDelivery \/ batches[h] \in BatchRows
  BY DEF NoticesInv, NoticesTyped, JobRows
<1>2. NoText \notin Seq(EventRows)
  BY NoticeAssumption DEF EventRows, Kinds
<1>3. /\ Retained(b) = Retained(batches[g]) \cup X /\ BatchSound(b)
      /\ b = NoDelivery \/ b \in BatchRows
  <2>1. CASE how # "queued" /\ j.orphan /\ b = batches[g]
    BY <1>1, <2>1 DEF NoticesInv
  <2>2. CASE /\ ~ j.orphan /\ b \in BatchRows /\ ~ b.sending /\ b.events = batches[g].events
             /\ b.retry = IF how = "queued" THEN j.text ELSE batches[g].retry
    <3> DEFINE old == batches[g]
    <3>1. /\ old # NoDelivery /\ old.sending /\ Before(t, Retained(old)) /\ BatchSound(old)
      BY <1>1, <2>2 DEF NoticesInv, JobSound
    <3>2. old \in BatchRows /\ old.retry = NoText
      BY <1>1, <3>1 DEF BatchSound
    <3>3. Retained(old) = Texts(old.events) /\ Held(old.retry) = << >>
      BY <3>2, BatchIs
    <3>4. Retained(b) = Texts(b.events) \cup Texts(Held(b.retry)) /\ Texts(<< >>) = {}
      <4>1. Texts(<< >>) = {}
        BY DEF Texts
      <4>2. QED BY <2>2, <4>1, BatchIs
    <3>5. Texts(Held(b.retry)) = X
      BY <1>1, <1>2, <2>2, <3>2, <3>3, <3>4 DEF Held
    <3>6. Ascending(old.events)
      BY <3>1 DEF BatchSound
    <3>7. Before(X, Texts(b.events))
      BY <2>2, <3>1, <3>3 DEF Before
    <3> HIDE DEF old, X
    <3>8. Retained(b) = Retained(old) \cup X
      BY <2>2, <3>3, <3>4, <3>5 DEF old
    <3>9. BatchSound(b)
      BY <2>2, <3>5, <3>6, <3>7 DEF BatchSound, old
    <3>10. QED BY <2>2, <3>8, <3>9 DEF old
  <2>3. QED BY <2>1, <2>2
<1> HIDE DEF X
<1>4. NoticesTyped'
  <2>1. \A h \in Groups : batches'[h] = NoDelivery \/ batches'[h] \in BatchRows
    BY <1>1, <1>3
  <2>2. jobs' \subseteq JobRows /\ DOMAIN fate' = Notice
    BY DEF NoticesInv, NoticesTyped, Mark
  <2>3. QED BY <2>1, <2>2 DEF NoticesInv, NoticesTyped
<1>5. \A h \in Groups : BatchSound(batches'[h])
  BY <1>3 DEF NoticesInv
<1>6. \A k, l \in jobs : k.group = l.group /\ ~ k.orphan /\ ~ l.orphan => k = l
  BY DEF NoticesInv, OneJobEach
<1>7. JobsFrom(jobs')
  BY SameJobs DEF JobsFrom
<1>8. ASSUME NEW k \in jobs' PROVE JobSound(k)'
  <2>1. k \in jobs /\ k # j /\ Continues(k, k) /\ k.group \in Groups
    BY SameJobs DEF NoticesInv, NoticesTyped, JobRows
  <2>2. ~ k.orphan => batches'[k.group] = batches[k.group]
    BY <1>6, <2>1
  <2>3. QED BY <2>1, <2>2, JobStaysSound
<1>9. ASSUME NEW h \in Groups, batches'[h] # NoDelivery, batches'[h].sending
      PROVE  \E k \in jobs' : k.group = h /\ ~ k.orphan
  <2>1. h # g \/ j.orphan
    BY <1>9
  <2>2. batches'[h] = batches[h]
    BY <1>9
  <2>3. PICK k \in jobs : k.group = h /\ ~ k.orphan
    BY <1>9, <2>2 DEF NoticesInv, OneJobEach, OfBatch
  <2>4. k # j
    BY <2>1, <2>3
  <2>5. QED BY <2>3, <2>4
<1>10. X \cap WaitingTexts = {} /\ X \subseteq t /\ t \subseteq Taken
  BY FateIs DEF X
<1>11. /\ WaitingTexts' = (WaitingTexts \ Retained(batches[g])) \cup Retained(batches'[g])
       /\ \A a, c \in Groups : a # c => Retained(batches'[a]) \cap Retained(batches'[c]) = {}
  BY <1>1, <1>3, <1>10, WaitingMoves
<1>12. WaitingTexts' = WaitingTexts \cup X
  <2>1. Retained(batches[g]) \subseteq WaitingTexts /\ Retained(batches'[g]) = Retained(batches[g]) \cup X
    BY <1>1, <1>3, FateIs
  <2>2. QED BY <1>11, <2>1
<1>13. Taken' = Taken \ t
  <2> DEFINE T(k) == Texts(k.text)
  <2>1. Taken = UNION {T(k) : k \in jobs} /\ Taken' = UNION {T(k) : k \in jobs \ {j}}
    BY DEF Taken, Texts
  <2>2. \A k, l \in jobs : k # l => T(k) \cap T(l) = {}
    BY DEF NoticesInv, Apart
  <2> HIDE DEF T
  <2>3. Taken' = Taken \ T(j)
    BY <2>1, <2>2
  <2>4. QED BY <2>3 DEF T
<1>14. WaitingTexts' \subseteq 1..offers' /\ Taken' \subseteq 1..offers'
  BY <1>10, <1>12, <1>13, FateIs
<1>15. \A n \in Notice : /\ fate'[n] = "queued" <=> n \in WaitingTexts'
                         /\ fate'[n] = "taken" <=> n \in Taken'
  <2>1. \A n \in Notice : fate'[n] = IF n \in t THEN how ELSE fate[n]
    BY DEF Mark
  <2>2. /\ \A n \in Notice : (fate[n] = "queued" <=> n \in WaitingTexts) /\ (fate[n] = "taken" <=> n \in Taken)
        /\ WaitingTexts \cap Taken = {}
    BY FateIs
  <2>3. X = IF how = "queued" THEN t ELSE {}
    BY DEF X
  <2> HIDE DEF t
  <2>4. QED BY <1>10, <1>12, <1>13, <2>1, <2>2, <2>3
<1>16. QED BY <1>4, <1>5, <1>7, <1>8, <1>9, <1>11, <1>14, <1>15, NoNewJob

LEMMA JobLeaves ==
  ASSUME NoticesInv, NEW j \in jobs, NEW how, how # "taken",
         jobs' = jobs \ {j}, Mark(Texts(j.text), how), offers' = offers, target' = target,
         ~ j.orphan, NEW b \in BatchRows, ~ b.sending, b.events = batches[j.group].events,
         b.retry = IF how = "queued" THEN j.text ELSE batches[j.group].retry,
         batches' = [batches EXCEPT ![j.group] = b]
  PROVE  NoticesInv'
<1>1. j.group \in Groups
  BY DEF NoticesInv, NoticesTyped, JobRows
<1>2. /\ DOMAIN batches' = Groups /\ batches'[j.group] = b
      /\ \A h \in Groups \ {j.group} : batches'[h] = batches[h]
  BY <1>1, BatchPut
<1>3. QED BY <1>2, NoticeJobEnds

LEMMA Lapses == ASSUME NoticesInv, NEW g \in Groups, Lapse(g) PROVE NoticesInv'
<1> DEFINE old == batches[g]
           b == [old EXCEPT !.retry = NoText, !.lapsed = FALSE]
<1>1. /\ old \in BatchRows /\ ~ old.sending /\ old.retry # NoText /\ old.events = << >>
      /\ Mark(Texts(old.retry), "expired") /\ UNCHANGED << target, jobs, offers >>
  BY DEF Lapse, NoticesInv, NoticesTyped
<1>2. batches' = [batches EXCEPT ![g] = b]
  BY DEF Lapse
<1>3. b \in BatchRows /\ b.events = << >> /\ b.retry = NoText /\ ~ b.sending
  BY <1>1 DEF BatchRows
<1> HIDE DEF b
<1>4. /\ DOMAIN batches' = Groups /\ batches'[g] = b
      /\ \A h \in Groups \ {g} : batches'[h] = batches[h]
  BY <1>2, BatchPut
<1>5. /\ Retained(old) = Texts(old.retry) /\ Retained(b) = {} /\ Held(b.retry) = << >>
      /\ b # NoDelivery /\ old # NoDelivery
  <2>1. Texts(<< >>) = {}
    BY DEF Texts
  <2>2. QED BY <1>1, <1>3, <2>1, BatchIs
<1>6. BatchSound(b)
  BY <1>3 DEF BatchSound, Ascending, Before, Held, Texts
<1>7. \A h \in Groups : batches[h] = NoDelivery \/ batches[h] \in BatchRows
  BY DEF NoticesInv, NoticesTyped
<1> HIDE DEF old
<1>8. NoticesTyped'
  <2>1. \A h \in Groups : batches'[h] = NoDelivery \/ batches'[h] \in BatchRows
    BY <1>3, <1>4, <1>7
  <2>2. DOMAIN fate' = Notice
    BY <1>1 DEF Mark
  <2>3. QED BY <1>1, <1>4, <2>1, <2>2 DEF NoticesInv, NoticesTyped
<1>9. \A h \in Groups : BatchSound(batches'[h])
  BY <1>4, <1>6 DEF NoticesInv
<1>10. JobsFrom(jobs')
  BY <1>1, SameJobs
<1>11. ASSUME NEW k \in jobs' PROVE JobSound(k)'
  <2>1. k \in jobs /\ Continues(k, k) /\ k.group \in Groups /\ JobSound(k)
    BY <1>1, SameJobs DEF NoticesInv, NoticesTyped, JobRows
  <2>2. ~ k.orphan => k.group # g
    BY <1>1, <2>1 DEF JobSound, old
  <2>3. QED BY <1>1, <1>4, <2>1, <2>2, JobStaysSound
<1>12. \A h \in Groups : batches'[h] # NoDelivery /\ batches'[h].sending =>
                            \E j \in jobs' : j.group = h /\ ~ j.orphan
  BY <1>1, <1>3, <1>4 DEF NoticesInv, OneJobEach, OfBatch
<1>13. /\ WaitingTexts' = (WaitingTexts \ Retained(batches[g])) \cup Retained(batches'[g])
       /\ \A a, c \in Groups : a # c => Retained(batches'[a]) \cap Retained(batches'[c]) = {}
  <2>1. \A h \in Groups \ {g} : Retained(batches'[h]) = Retained(batches[h])
    BY <1>4
  <2>2. {} \cap WaitingTexts = {} /\ Retained(batches'[g]) \subseteq Retained(batches[g]) \cup {}
    BY <1>4, <1>5
  <2>3. QED BY <2>1, <2>2, WaitingMoves
<1>14. WaitingTexts' = WaitingTexts \ Texts(old.retry) /\ Texts(old.retry) \subseteq WaitingTexts
  BY <1>4, <1>5, <1>13, FateIs DEF old
<1>15. Taken' = Taken
  BY <1>1 DEF Taken, Texts
<1>16. WaitingTexts' \subseteq 1..offers' /\ Taken' \subseteq 1..offers'
  BY <1>1, <1>14, <1>15, FateIs
<1>17. \A n \in Notice : /\ fate'[n] = "queued" <=> n \in WaitingTexts'
                         /\ fate'[n] = "taken" <=> n \in Taken'
  <2>1. \A n \in Notice : fate'[n] = IF n \in Texts(old.retry) THEN "expired" ELSE fate[n]
    BY <1>1 DEF Mark
  <2>2. QED BY <1>14, <1>15, <2>1, FateIs
<1>18. QED BY <1>8, <1>9, <1>10, <1>11, <1>12, <1>13, <1>16, <1>17, NoNewJob

\* The admission cleared a job to send.
LEMMA JobClears ==
  ASSUME NoticesInv, NEW j \in jobs, j.key = target[j.group].generation,
         jobs' = (jobs \ {j}) \cup {[j EXCEPT !.at = "io"]},
         UNCHANGED << batches, fate, target, offers >>
  PROVE  NoticesInv'
<1> DEFINE n == [j EXCEPT !.at = "io"]
<1>1. /\ n \in JobRows /\ n.slot = j.slot /\ n.group = j.group /\ n.key = j.key
      /\ n.text = j.text /\ n.orphan = j.orphan
  BY DEF NoticesInv, NoticesTyped, JobRows
<1>2. jobs' = (jobs \ {j}) \cup {n} /\ Continues(n, j)
  BY <1>1 DEF Continues
<1> HIDE DEF n
<1>3. \A k, l \in jobs : k.slot = l.slot => k = l
  BY DEF NoticesInv, OneJobEach
<1>4. JobsFrom(jobs')
  <2>1. jobs' \subseteq JobRows
    BY <1>1, <1>2 DEF NoticesInv, NoticesTyped
  <2>2. \A k, l \in jobs' : k.slot = l.slot => k = l
    BY <1>1, <1>2, <1>3
  <2>3. \A k \in jobs' : \E i \in jobs : Continues(k, i)
    BY <1>2, SameJobs
  <2>4. QED BY <2>1, <2>2, <2>3 DEF JobsFrom
<1>5. ASSUME NEW k \in jobs' PROVE JobSound(k)'
  <2>1. CASE k \in jobs
    BY <2>1, SameJobs, JobStaysSound
  <2>2. CASE k = n
    <3>1. JobSound(j)
      BY DEF NoticesInv
    <3>2. QED BY <1>1, <2>2, <3>1 DEF JobSound, Retained, Before, Texts, Held
  <2>3. QED BY <1>2, <2>1, <2>2
<1>6. NoticesTyped'
  BY <1>4 DEF NoticesInv, NoticesTyped, JobsFrom
<1>7. \A h \in Groups : batches'[h] # NoDelivery /\ batches'[h].sending =>
                           \E k \in jobs' : k.group = h /\ ~ k.orphan
  BY <1>1, <1>2 DEF NoticesInv, OneJobEach, OfBatch
<1>8. WaitingTexts' = WaitingTexts
  BY DEF WaitingTexts, Retained, Texts, Held
<1>9. Taken' = Taken
  <2> DEFINE T(k) == Texts(k.text)
  <2>1. Taken = UNION {T(k) : k \in jobs} /\ Taken' = UNION {T(k) : k \in jobs'}
    BY DEF Taken, Texts
  <2>2. T(n) = T(j)
    BY <1>1
  <2> HIDE DEF T
  <2>3. QED BY <1>2, <2>1, <2>2
<1>10. WaitingTexts' \subseteq 1..offers' /\ Taken' \subseteq 1..offers'
  BY <1>8, <1>9, FateIs
<1>11. \A m \in Notice : /\ fate'[m] = "queued" <=> m \in WaitingTexts'
                         /\ fate'[m] = "taken" <=> m \in Taken'
  BY <1>8, <1>9, FateIs
<1>12. \A h \in Groups : BatchSound(batches'[h])
  BY DEF NoticesInv
<1>13. \A a, c \in Groups : a # c => Retained(batches'[a]) \cap Retained(batches'[c]) = {}
  BY DEF NoticesInv, Apart
<1>14. QED BY <1>4, <1>5, <1>6, <1>7, <1>10, <1>11, <1>12, <1>13, NoNewJob

LEMMA Checks == ASSUME NoticesInv, NEW j \in jobs, Check(j) \/ Send(j) PROVE NoticesInv'
<1> DEFINE g == j.group
           old == batches[g]
           gone == j.orphan \/ old = NoDelivery
<1>1. /\ g \in Groups /\ JobSound(j) /\ target' = target /\ offers' = offers
      /\ old = NoDelivery \/ old \in BatchRows
      /\ j.text \in Seq(EventRows)
      /\ DOMAIN batches = Groups
  BY DEF NoticesInv, NoticesTyped, JobRows, Check, Send
<1>2. gone <=> j.orphan
  BY <1>1 DEF JobSound
<1>3. ASSUME NEW how, how # "taken", how # "queued", jobs' = jobs \ {j}, Mark(Texts(j.text), how), 
             \/ gone /\ batches' = batches
             \/ /\ ~ gone
                /\ \/ batches' = [batches EXCEPT ![g].sending = FALSE]
                   \/ batches' = [batches EXCEPT ![g].sending = FALSE, ![g].lapsed = FALSE]
      PROVE  NoticesInv'
  <2>1. CASE gone /\ batches' = batches
    <3>1. DOMAIN batches' = Groups /\ \A h \in Groups \ {g} : batches'[h] = batches[h]
      BY <1>1, <2>1
    <3>2. batches'[g] = old
      BY <2>1
    <3>3. QED BY <1>1, <1>2, <1>3, <2>1, <3>1, <3>2, NoticeJobEnds
  <2>2. CASE ~ gone /\ batches' = [batches EXCEPT ![g].sending = FALSE]
    <3> DEFINE b == [old EXCEPT !.sending = FALSE]
    <3>1. b \in BatchRows /\ ~ b.sending /\ b.events = old.events /\ b.retry = old.retry
      BY <1>1, <2>2 DEF BatchRows
    <3>2. batches' = [batches EXCEPT ![g] = b]
      BY <2>2
    <3> HIDE DEF b
    <3>3. QED BY <1>1, <1>2, <1>3, <2>2, <3>1, <3>2, JobLeaves
  <2>3. CASE ~ gone /\ batches' = [batches EXCEPT ![g].sending = FALSE, ![g].lapsed = FALSE]
    <3> DEFINE b == [old EXCEPT !.sending = FALSE, !.lapsed = FALSE]
    <3>1. b \in BatchRows /\ ~ b.sending /\ b.events = old.events /\ b.retry = old.retry
      BY <1>1, <2>3 DEF BatchRows
    <3>2. batches' = [batches EXCEPT ![g] = b]
      BY <2>3
    <3> HIDE DEF b
    <3>3. QED BY <1>1, <1>2, <1>3, <2>3, <3>1, <3>2, JobLeaves
  <2>4. QED BY <1>3, <2>1, <2>2, <2>3
<1>4. CASE Send(j)
  <2>1. PICK how \in {"accepted", "failed", "unknown"} : Mark(Texts(j.text), how)
    BY <1>4 DEF Send
  <2>2. jobs' = jobs \ {j} /\ how # "taken" /\ how # "queued"
    BY <1>4 DEF Send
  <2>3. \/ gone /\ batches' = batches
        \/ /\ ~ gone
           /\ \/ batches' = [batches EXCEPT ![g].sending = FALSE]
              \/ batches' = [batches EXCEPT ![g].sending = FALSE, ![g].lapsed = FALSE]
    <3>1. CASE gone
      BY <1>4, <3>1 DEF Send
    <3>2. CASE ~ gone /\ j.own
      <4> DEFINE v == [old EXCEPT !.sending = FALSE, !.lapsed = @]
                 w == [old EXCEPT !.sending = FALSE]
      <4>1. batches' = [batches EXCEPT ![g] = v]
        BY <1>4, <3>2 DEF Send
      <4>2. v = w
        BY <1>1, <3>2 DEF BatchRows
      <4>3. batches' = [batches EXCEPT ![g] = w]
        BY <4>1, <4>2
      <4>4. QED BY <3>2, <4>3
    <3>3. CASE ~ gone /\ ~ j.own
      BY <1>4, <3>3 DEF Send
    <3>4. QED BY <3>1, <3>2, <3>3
  <2>4. QED BY <1>3, <2>1, <2>2, <2>3
<1>5. CASE Check(j)
  <2>1. CASE /\ j.key = target[g].generation
             /\ jobs' = (jobs \ {j}) \cup {[j EXCEPT !.at = "io"]}
             /\ UNCHANGED << batches, fate >>
    BY <1>1, <2>1, JobClears
  <2>2. ASSUME NEW how \in {"cancelled", "unknown", "lost"}, Settled(j), Mark(Texts(j.text), how)
        PROVE  NoticesInv'
    <3>1. how # "taken" /\ how # "queued"
      OBVIOUS
    <3>2. QED BY <1>3, <2>2, <3>1 DEF Settled
  <2>3. CASE gone /\ jobs' = jobs \ {j} /\ Mark(Texts(j.text), "lost") /\ UNCHANGED batches
    BY <1>3, <2>3
  <2>4. CASE /\ ~ gone /\ jobs' = jobs \ {j} /\ Mark(Texts(j.text), "queued")
             /\ batches' = [batches EXCEPT ![g].sending = FALSE, ![g].retry = j.text]
    <3> DEFINE b == [old EXCEPT !.sending = FALSE, !.retry = j.text]
    <3>1. b \in BatchRows /\ ~ b.sending /\ b.events = old.events /\ b.retry = j.text
      BY <1>1, <2>4 DEF BatchRows
    <3>2. batches' = [batches EXCEPT ![g] = b]
      BY <2>4
    <3> HIDE DEF b
    <3>3. QED BY <1>1, <1>2, <2>4, <3>1, <3>2, JobLeaves
  <2>5. QED BY <1>2, <1>5, <2>1, <2>2, <2>3, <2>4 DEF Check, Alike
<1>6. QED BY <1>4, <1>5

-----------------------------------------------------------------------------
(* A send starts. *)

LEMMA FreeSlotIs ==
  ASSUME FreeSlots # {}
  PROVE  FreeSlot \in 1..Workers /\ \A j \in jobs : j.slot # FreeSlot
<1>1. FreeSlot \in FreeSlots
  BY DEF FreeSlot
<1>2. QED BY <1>1 DEF FreeSlots

LEMMA EarlierAreOthers ==
  ASSUME NEW s \in Seq(EventRows), NEW T, Before(Texts(s), T) \/ Before(T, Texts(s))
  PROVE  Texts(s) \cap T = {}
<1>1. \A i \in DOMAIN s : s[i] \in EventRows
  OBVIOUS
<1>2. \A e \in EventRows : e.id \in Nat
  BY DEF EventRows
<1>3. \A m \in Texts(s) : m \in Nat
  BY <1>1, <1>2 DEF Texts
<1>4. \A m \in Nat : ~ m < m
  OBVIOUS
<1>5. QED BY <1>3, <1>4 DEF Before

LEMMA TakeKeeps == ASSUME NoticesInv, NEW g \in Groups, Take(g) PROVE NoticesInv'
<1> DEFINE old == batches[g]
           late == old.retry # NoText /\ old.lapsed
           retry == IF late THEN NoText ELSE old.retry
           E == IF late THEN Texts(old.retry) ELSE {}
<1>1. old \in BatchRows /\ ~ old.sending /\ FreeSlots # {} /\ UNCHANGED << target, offers >>
  BY DEF Take, NoticesInv, NoticesTyped
<1>2. PICK k \in (IF retry # NoText THEN {0}
                  ELSE IF old.dropped THEN 0..Len(old.events) ELSE 1..Len(old.events)) :
        /\ batches' = [batches EXCEPT ![g] =
                         [old EXCEPT !.sending = TRUE, !.due = FALSE, !.retry = NoText,
                                     !.lapsed = IF late THEN FALSE ELSE @,
                                     !.events = SubSeq(@, k + 1, Len(@)),
                                     !.dropped = IF retry # NoText THEN @ ELSE FALSE]]
        /\ jobs' = jobs \cup {[group |-> g, key |-> old.key, at |-> "check", own |-> FALSE, orphan |-> FALSE,
                               slot |-> FreeSlot,
                               text |-> IF retry # NoText THEN retry ELSE SubSeq(old.events, 1, k)]}
        /\ fate' = [m \in Notice |->
                      IF late /\ m \in Texts(old.retry) THEN "expired"
                      ELSE IF m \in Texts(IF retry # NoText THEN retry ELSE SubSeq(old.events, 1, k))
                           THEN "taken" ELSE fate[m]]
  BY DEF Take
<1> DEFINE head == SubSeq(old.events, 1, k)
           rest == SubSeq(old.events, k + 1, Len(old.events))
           text == IF retry # NoText THEN retry ELSE head
           b == [old EXCEPT !.sending = TRUE, !.due = FALSE, !.retry = NoText,
                            !.lapsed = IF late THEN FALSE ELSE @,
                            !.events = SubSeq(@, k + 1, Len(@)),
                            !.dropped = IF retry # NoText THEN @ ELSE FALSE]
           new == [group |-> g, key |-> old.key, at |-> "check", own |-> FALSE, orphan |-> FALSE,
                   slot |-> FreeSlot, text |-> text]
<1>3. batches' = [batches EXCEPT ![g] = b] /\ jobs' = jobs \cup {new}
  BY <1>2
<1>4. \A m \in Notice : fate'[m] = IF m \in E THEN "expired"
                                   ELSE IF m \in Texts(text) THEN "taken" ELSE fate[m]
  BY <1>2
<1>5. DOMAIN fate' = Notice
  BY <1>2
<1>6. old.events \in Seq(EventRows) /\ k \in 0..Len(old.events) /\ Ascending(old.events)
  <2>1. old.events \in Seq(EventRows) /\ Len(old.events) \in Nat
    BY <1>1, BatchIs
  <2>2. Ascending(old.events)
    BY <1>1, BatchIs DEF NoticesInv, BatchSound
  <2>3. k \in 0..Len(old.events)
    BY <1>2, <2>1
  <2>4. QED BY <2>1, <2>2, <2>3
<1>7. /\ head \in Seq(EventRows) /\ rest \in Seq(EventRows) /\ Ascending(rest)
      /\ Texts(old.events) = Texts(head) \cup Texts(rest) /\ Before(Texts(head), Texts(rest))
  BY <1>6, TextsSplit
<1>8. retry # NoText => Texts(head) = {}
  <2>1. ASSUME retry # NoText PROVE Texts(head) = {}
    <3>1. k = 0
      BY <1>2, <2>1
    <3>2. head = << >>
      BY <1>6, <3>1
    <3>3. QED BY <3>2 DEF Texts
  <2>2. QED BY <2>1
<1>9. /\ b \in BatchRows /\ b.events = rest /\ b.retry = NoText /\ b.sending
  BY <1>1, <1>7 DEF BatchRows
<1> HIDE DEF head, rest, b
<1>10. Before(Texts(Held(old.retry)), Texts(old.events)) /\ Held(old.retry) \in Seq(EventRows)
  BY <1>1, BatchIs DEF NoticesInv, BatchSound
<1>11. /\ text \in Seq(EventRows)
       /\ Texts(Held(old.retry)) = IF retry # NoText THEN Texts(retry) ELSE E
       /\ retry # NoText => E = {}
  <2>1. Texts(<< >>) = {}
    BY DEF Texts
  <2>2. QED BY <1>7, <1>10, <2>1 DEF Held
<1>12. Retained(old) = E \cup Texts(text) \cup Texts(rest)
  <2>1. Retained(old) = Texts(old.events) \cup Texts(Held(old.retry))
    BY <1>1, BatchIs
  <2>2. QED BY <1>7, <1>8, <1>11, <2>1
<1>13. Before(Texts(text), Texts(rest)) /\ Before(E, Texts(rest)) /\ E \cap Texts(text) = {}
  <2>1. Before(Texts(Held(old.retry)), Texts(rest)) /\ Before(Texts(Held(old.retry)), Texts(head))
    BY <1>7, <1>10 DEF Before
  <2>2. Texts(Held(old.retry)) \cap Texts(head) = {}
    BY <1>10, <2>1, EarlierAreOthers
  <2>3. CASE retry # NoText
    BY <1>11, <2>1, <2>3 DEF Before
  <2>4. CASE retry = NoText
    BY <1>7, <1>11, <2>1, <2>2, <2>4
  <2>5. QED BY <2>3, <2>4
<1>14. Texts(rest) \cap (E \cup Texts(text)) = {}
  BY <1>7, <1>13, EarlierAreOthers
<1> HIDE DEF text, E
<1>15. /\ FreeSlot \in 1..Workers /\ \A j \in jobs : j.slot # FreeSlot
  BY <1>1, FreeSlotIs
<1>16. /\ new \in JobRows /\ new.group = g /\ new.slot = FreeSlot /\ new.text = text
       /\ new.at = "check" /\ ~ new.orphan
  <2>1. old.key \in Nat
    BY <1>1, BatchIs
  <2>2. QED BY <1>11, <1>15, <2>1 DEF JobRows
<1> HIDE DEF new
<1>17. /\ DOMAIN batches' = Groups /\ batches'[g] = b
       /\ \A h \in Groups \ {g} : batches'[h] = batches[h]
  BY <1>3, BatchPut
<1>18. b # NoDelivery /\ Retained(b) = Texts(rest) /\ BatchSound(b)
  <2>1. b # NoDelivery /\ Retained(b) = Texts(rest) /\ Texts(Held(b.retry)) = {}
    BY <1>9, BatchIs
  <2>2. QED BY <1>7, <1>9, <2>1 DEF BatchSound, Before
<1>19. NoticesTyped'
  <2>1. \A h \in Groups : batches'[h] = NoDelivery \/ batches'[h] \in BatchRows
    BY <1>9, <1>17 DEF NoticesInv, NoticesTyped
  <2>2. QED BY <1>1, <1>3, <1>5, <1>16, <1>17, <2>1 DEF NoticesInv, NoticesTyped
<1>20. \A j \in jobs : j.slot # new.slot /\ (j.group = new.group => j.orphan)
  <2>1. ASSUME NEW j \in jobs, j.group = g PROVE j.orphan
    BY <1>1, <2>1 DEF NoticesInv, JobSound
  <2>2. QED BY <1>15, <1>16, <2>1
<1>21. JobsFrom(jobs)
  BY SameJobs
<1>22. \A h \in Groups : Retained(batches[h]) \subseteq WaitingTexts
  BY FateIs
<1>23. /\ WaitingTexts \cap Taken = {}
       /\ \A n \in Notice : /\ fate[n] = "queued" <=> n \in WaitingTexts
                            /\ fate[n] = "taken" <=> n \in Taken
       /\ WaitingTexts \subseteq 1..offers /\ Taken \subseteq 1..offers
  BY FateIs
<1>24. Texts(new.text) \cap Taken = {}
  BY <1>12, <1>16, <1>22, <1>23
<1>25. \A h \in Groups : BatchSound(batches'[h])
  BY <1>17, <1>18 DEF NoticesInv
<1>26. ASSUME NEW j \in jobs' PROVE JobSound(j)'
  <2>1. CASE j \in jobs
    <3>1. j.group \in Groups /\ Continues(j, j)
      BY <2>1, SameJobs DEF NoticesInv, NoticesTyped, JobRows
    <3>2. ~ j.orphan => j.group # g
      BY <1>16, <1>20, <2>1
    <3>3. QED BY <1>1, <1>17, <2>1, <3>1, <3>2, JobStaysSound
  <2>2. CASE j = new
    <3>1. batches'[g] # NoDelivery /\ batches'[g].sending
      BY <1>9, <1>17, <1>18
    <3>2. Before(Texts(new.text), Retained(batches'[g]))
      BY <1>13, <1>16, <1>17, <1>18
    <3>3. QED BY <1>16, <2>2, <3>1, <3>2 DEF JobSound, Before, Retained, Texts, Held
  <2>3. QED BY <1>3, <2>1, <2>2
<1>27. ASSUME NEW h \in Groups, batches'[h] # NoDelivery, batches'[h].sending
       PROVE  \E j \in jobs' : j.group = h /\ ~ j.orphan
  <2>1. CASE h = g
    BY <1>3, <1>16, <2>1
  <2>2. CASE h # g
    BY <1>3, <1>17, <1>27, <2>2 DEF NoticesInv, OneJobEach, OfBatch
  <2>3. QED BY <2>1, <2>2
<1>28. /\ WaitingTexts' = (WaitingTexts \ Retained(batches[g])) \cup Retained(batches'[g])
       /\ \A a, c \in Groups : a # c => Retained(batches'[a]) \cap Retained(batches'[c]) = {}
  <2>1. \A h \in Groups \ {g} : Retained(batches'[h]) = Retained(batches[h])
    BY <1>17
  <2>2. {} \cap WaitingTexts = {} /\ Retained(batches'[g]) \subseteq Retained(batches[g]) \cup {}
    BY <1>12, <1>17, <1>18
  <2>3. QED BY <2>1, <2>2, WaitingMoves
<1>29. WaitingTexts' = WaitingTexts \ (E \cup Texts(text)) /\ E \cup Texts(text) \subseteq WaitingTexts
  BY <1>12, <1>14, <1>17, <1>18, <1>22, <1>28
<1>30. Taken' = Taken \cup Texts(text)
  <2> DEFINE T(j) == Texts(j.text)
  <2>1. Taken = UNION {T(j) : j \in jobs} /\ Taken' = UNION {T(j) : j \in jobs'}
    BY DEF Taken, Texts
  <2>2. T(new) = Texts(text)
    BY <1>16
  <2> HIDE DEF T
  <2>3. QED BY <1>3, <2>1, <2>2
<1>31. WaitingTexts' \subseteq 1..offers' /\ Taken' \subseteq 1..offers'
  BY <1>1, <1>23, <1>29, <1>30
<1>32. \A n \in Notice : /\ fate'[n] = "queued" <=> n \in WaitingTexts'
                         /\ fate'[n] = "taken" <=> n \in Taken'
  <2>1. ASSUME NEW n \in Notice PROVE (fate'[n] = "queued" <=> n \in WaitingTexts') /\ (fate'[n] = "taken" <=> n \in Taken')
    <3>1. CASE n \in E
      BY <1>4, <1>13, <1>23, <1>29, <1>30, <3>1
    <3>2. CASE n \notin E /\ n \in Texts(text)
      BY <1>4, <1>29, <1>30, <3>2
    <3>3. CASE n \notin E /\ n \notin Texts(text)
      BY <1>4, <1>23, <1>29, <1>30, <3>3
    <3>4. QED BY <3>1, <3>2, <3>3
  <2>2. QED BY <2>1
<1>33. Starts(jobs, new)
  BY <1>3, <1>16, <1>20, <1>21, <1>24 DEF Starts
<1>34. \A a, c \in Groups : a # c => Retained(batches'[a]) \cap Retained(batches'[c]) = {}
  BY <1>28
<1>35. \A h \in Groups : batches'[h] # NoDelivery /\ batches'[h].sending =>
                            \E j \in jobs' : j.group = h /\ ~ j.orphan
  BY <1>27
<1>36. \A j \in jobs' : JobSound(j)'
  BY <1>26
<1>37. QED
  BY ONLY NoticesInv, <1>19, <1>25, <1>31, <1>32, <1>33, <1>34, <1>35, <1>36, NewJob

-----------------------------------------------------------------------------
(* A notice is offered. *)

\* What the batch b is with n in it: the newest waits behind the others, and
\* what the limit pushed out waits no more.
Holding1(b, c, n, lost) ==
  /\ c \in BatchRows /\ BatchSound(c) /\ c.sending = b.sending
  /\ Retained(c) = (Retained(b) \cup {n}) \ lost
  /\ lost \subseteq Retained(b) \cup {n}

LEMMA Appends ==
  ASSUME NEW b \in BatchRows, BatchSound(b), NEW n \in EventRows, \A m \in Retained(b) : m < n.id
  PROVE  Holding1(b, Append1(b, n).batch, n.id, Append1(b, n).lost)
<1> DEFINE q == b.events
           full == Len(q) >= MaxWaiting
           aliases == {i \in DOMAIN q : q[i].kind = "alias"}
           victim == CHOOSE i \in aliases : \A j \in aliases : i <= j
           held == Texts(Held(b.retry))
           put == Append1(b, n)
<1>1. /\ q \in Seq(EventRows) /\ Retained(b) = Texts(q) \cup held /\ Ascending(q)
      /\ Before(held, Texts(q)) /\ Held(b.retry) \in Seq(EventRows)
      /\ n.id \in Nat /\ b # NoDelivery
  BY BatchIs DEF BatchSound, EventRows
<1>2. held \cap Texts(q) = {} /\ n.id \notin Retained(b)
  <2>1. held \cap Texts(q) = {}
    BY <1>1, EarlierAreOthers
  <2>2. ~ n.id < n.id
    BY <1>1
  <2>3. QED BY <2>1, <2>2
<1>3. Before(held, {n.id}) /\ \A m \in Texts(q) : m < n.id
  BY <1>1 DEF Before
<1> HIDE DEF q, held
\* The row c with other events.
<1>4. ASSUME NEW s \in Seq(EventRows), Ascending(s), NEW c \in BatchRows,
             c.events = s, c.retry = b.retry, c.sending = b.sending,
             NEW lost, Texts(s) = (Texts(q) \ lost) \cup ({n.id} \ lost), lost \subseteq Texts(q) \cup {n.id}
      PROVE  Holding1(b, c, n.id, lost)
  <2>1. Retained(c) = Texts(s) \cup held /\ held \cap lost = {}
    BY <1>1, <1>2, <1>4, BatchIs DEF held
  <2>2. Retained(c) = (Retained(b) \cup {n.id}) \ lost
    BY <1>1, <1>4, <2>1
  <2>3. Before(held, Texts(s))
    BY <1>1, <1>3, <1>4 DEF Before
  <2>4. BatchSound(c)
    BY <1>1, <1>4, <2>3 DEF BatchSound, held
  <2>5. QED BY <1>1, <1>4, <2>2, <2>4 DEF Holding1
<1>5. CASE ~ full
  <2> DEFINE s == Append(q, n)
             c == [b EXCEPT !.events = s]
  <2>1. s \in Seq(EventRows) /\ Ascending(s) /\ Texts(s) = Texts(q) \cup {n.id}
    BY <1>1, <1>3, TextsAppend
  <2>2. put = [batch |-> c, lost |-> {}]
    BY <1>5 DEF Append1, q
  <2> HIDE DEF s
  <2>3. c \in BatchRows /\ c.events = s /\ c.retry = b.retry /\ c.sending = b.sending
    BY <2>1 DEF BatchRows
  <2> HIDE DEF c
  <2>4. Texts(s) = (Texts(q) \ {}) \cup ({n.id} \ {})
    BY <2>1
  <2>5. Holding1(b, c, n.id, {})
    BY <1>4, <2>1, <2>3, <2>4
  <2>6. QED BY <2>2, <2>5
<1>6. CASE full /\ n.kind # "alias" /\ aliases # {}
  <2>1. victim \in aliases
    <3>1. aliases \in SUBSET Nat
      BY <1>1
    <3>2. \E i \in aliases : \A j \in aliases : i <= j
      BY <1>6, <3>1, LeastOf
    <3>3. QED BY <3>2
  <2>2. victim \in DOMAIN q
    BY <2>1
  <2> HIDE DEF victim
  <2> DEFINE r == RemoveAt(q, victim)
             s == Append(r, n)
             v == q[victim].id
             c == [b EXCEPT !.events = s, !.dropped = TRUE]
  <2>3. r \in Seq(EventRows) /\ Ascending(r) /\ Texts(r) = Texts(q) \ {v}
    BY <1>1, <2>2, TextsRemove
  <2>4. v \in Texts(q) /\ v # n.id
    BY <1>1, <1>2, <2>2 DEF Texts
  <2>5. put = [batch |-> c, lost |-> {v}]
    BY <1>6 DEF Append1, q, victim
  <2> HIDE DEF r, v
  <2>6. s \in Seq(EventRows) /\ Ascending(s) /\ Texts(s) = Texts(r) \cup {n.id}
    BY <1>3, <2>3, TextsAppend
  <2> HIDE DEF s
  <2>7. c \in BatchRows /\ c.events = s /\ c.retry = b.retry /\ c.sending = b.sending
    BY <2>6 DEF BatchRows
  <2> HIDE DEF c
  <2>8. Texts(s) = (Texts(q) \ {v}) \cup ({n.id} \ {v}) /\ {v} \subseteq Texts(q) \cup {n.id}
    BY <2>3, <2>4, <2>6
  <2>9. Holding1(b, c, n.id, {v})
    BY <1>4, <2>6, <2>7, <2>8
  <2>10. QED BY <2>5, <2>9
<1>7. CASE full /\ ~ (n.kind # "alias" /\ aliases # {})
  <2> DEFINE c == [b EXCEPT !.dropped = TRUE]
  <2>1. put = [batch |-> c, lost |-> {n.id}]
    BY <1>7 DEF Append1, q
  <2>2. c \in BatchRows /\ c.events = q /\ c.retry = b.retry /\ c.sending = b.sending
    BY DEF BatchRows, q
  <2> HIDE DEF c
  <2>3. Texts(q) = (Texts(q) \ {n.id}) \cup ({n.id} \ {n.id})
    BY <1>1, <1>2
  <2>4. {n.id} \subseteq Texts(q) \cup {n.id}
    OBVIOUS
  <2>5. Holding1(b, c, n.id, {n.id})
    BY <1>1, <1>4, <2>2, <2>3, <2>4
  <2>6. QED BY <2>1, <2>5
<1>8. QED BY <1>5, <1>6, <1>7

Changed(g) == batches[g] # NoDelivery /\ batches[g].key # target[g].generation
KnownBatch(g) == batches[g] # NoDelivery /\ ~ Changed(g)
Cut(g) == IF Changed(g) THEN Retained(batches[g]) ELSE {}
FreshBatch(g) ==
  [key |-> target[g].generation, events |-> << >>, dropped |-> FALSE, sending |-> FALSE,
   retry |-> NoText, due |-> TRUE, lapsed |-> FALSE]
Mine(g) == IF KnownBatch(g) THEN batches[g] ELSE FreshBatch(g)
KeptJobs(g) == IF Changed(g) THEN Orphaned(OfBatch(g)) ELSE jobs

\* The batch the notice finds: the present one, or a new one.
LEMMA MineIs ==
  ASSUME NoticesInv, NEW g \in Groups
  PROVE  /\ Mine(g) \in BatchRows /\ BatchSound(Mine(g))
         /\ Retained(Mine(g)) = Retained(batches[g]) \ Cut(g)
         /\ Cut(g) \subseteq Retained(batches[g])
         /\ Mine(g).sending => KnownBatch(g)
         /\ ~ KnownBatch(g) => Cut(g) = Retained(batches[g])
         /\ Mine(g).key = target[g].generation
<1>1. /\ batches[g] = NoDelivery \/ batches[g] \in BatchRows
      /\ BatchSound(batches[g]) /\ target[g].generation \in Nat \ {0}
  BY DEF NoticesInv, NoticesTyped
<1>2. CASE KnownBatch(g)
  BY <1>1, <1>2 DEF KnownBatch, Changed, Mine, Cut
<1>3. CASE ~ KnownBatch(g)
  <2> DEFINE f == FreshBatch(g)
  <2>1. << >> \in Seq(EventRows)
    OBVIOUS
  <2>2. /\ f \in BatchRows /\ f.events = << >> /\ f.retry = NoText /\ f.sending = FALSE
        /\ f.key = target[g].generation
    BY <1>1, <2>1 DEF FreshBatch, BatchRows
  <2> HIDE DEF f
  <2>3. Texts(<< >>) = {}
    BY DEF Texts
  <2>4. Retained(f) = {}
    BY <2>2, <2>3, BatchIs
  <2>5. BatchSound(f)
    BY <2>2 DEF BatchSound, Ascending, Before, Held, Texts
  <2>6. Cut(g) = Retained(batches[g])
    BY <1>3, NothingHeld DEF KnownBatch, Cut
  <2>7. Mine(g) = f
    BY <1>3 DEF Mine, f
  <2>8. QED BY <2>2, <2>4, <2>5, <2>6, <2>7
<1>4. QED BY <1>2, <1>3

\* The jobs a cancelled batch leaves.
LEMMA KeptIs ==
  ASSUME NoticesInv, NEW g \in Groups
  PROVE  /\ JobsFrom(KeptJobs(g))
         /\ \A k \in KeptJobs(g) : \E j \in jobs :
              /\ Continues(k, j) /\ k.at = j.at
              /\ k.group = g /\ ~ k.orphan => KnownBatch(g) /\ Mine(g).sending
         /\ \A j \in jobs : \E k \in KeptJobs(g) : /\ Continues(k, j)
                                                   /\ j.group # g \/ KnownBatch(g) => (k.orphan <=> j.orphan)
         /\ UNION {Texts(k.text) : k \in KeptJobs(g)} = Taken
<1>1. \A j \in jobs : j.group = g /\ ~ j.orphan => batches[g] # NoDelivery /\ batches[g].sending
  BY DEF NoticesInv, JobSound
<1>2. /\ JobsFrom(KeptJobs(g))
      /\ \A k \in KeptJobs(g) : \E j \in jobs :
           /\ Continues(k, j) /\ k.at = j.at
           /\ k.group = g /\ ~ k.orphan => KnownBatch(g) /\ Mine(g).sending
      /\ \A j \in jobs : \E k \in KeptJobs(g) : /\ Continues(k, j)
                                                /\ j.group # g \/ KnownBatch(g) => (k.orphan <=> j.orphan)
  <2>1. CASE Changed(g)
    <3> DEFINE K == Orphaned(OfBatch(g))
    <3>1. /\ JobsFrom(K)
          /\ \A k \in K : \E j \in jobs : /\ Continues(k, j) /\ k.at = j.at
                                          /\ k.orphan <=> j.orphan \/ j \in OfBatch(g)
          /\ \A j \in jobs : \E k \in K : /\ Continues(k, j) /\ k.at = j.at
                                          /\ k.orphan <=> j.orphan \/ j \in OfBatch(g)
      BY OrphansFollow
    <3>2. \A j \in jobs : j \in OfBatch(g) <=> j.group = g /\ ~ j.orphan
      BY DEF OfBatch
    <3>3. KeptJobs(g) = K /\ ~ KnownBatch(g)
      BY <2>1 DEF KeptJobs, KnownBatch
    <3> HIDE DEF K
    <3>4. ASSUME NEW k \in K
          PROVE  \E j \in jobs : /\ Continues(k, j) /\ k.at = j.at
                                 /\ k.group = g /\ ~ k.orphan => KnownBatch(g) /\ Mine(g).sending
      <4>1. PICK j \in jobs : /\ Continues(k, j) /\ k.at = j.at
                              /\ k.orphan <=> j.orphan \/ j \in OfBatch(g)
        BY <3>1
      <4>2. ~ (k.group = g /\ ~ k.orphan)
        BY <3>2, <4>1 DEF Continues
      <4>3. QED BY <4>1, <4>2
    <3>5. ASSUME NEW j \in jobs
          PROVE  \E k \in K : /\ Continues(k, j)
                              /\ j.group # g \/ KnownBatch(g) => (k.orphan <=> j.orphan)
      BY <3>1, <3>2, <3>3
    <3>6. QED BY <3>1, <3>3, <3>4, <3>5
  <2>2. CASE ~ Changed(g)
    <3>1. KeptJobs(g) = jobs
      BY <2>2 DEF KeptJobs
    <3>2. ASSUME NEW k \in jobs, k.group = g, ~ k.orphan PROVE KnownBatch(g) /\ Mine(g).sending
      BY <1>1, <2>2, <3>2 DEF KnownBatch, Mine
    <3>3. JobsFrom(jobs) /\ \A j \in jobs : Continues(j, j)
      BY SameJobs
    <3>4. QED BY <3>1, <3>2, <3>3
  <2>3. QED BY <2>1, <2>2
<1>3. UNION {Texts(k.text) : k \in KeptJobs(g)} = Taken
  <2> DEFINE T(j) == Texts(j.text)
             K == KeptJobs(g)
  <2>1. (\A k \in K : \E j \in jobs : T(k) = T(j)) /\ (\A j \in jobs : \E k \in K : T(k) = T(j))
    BY <1>2 DEF Continues
  <2>2. Taken = UNION {T(j) : j \in jobs}
    BY DEF Taken
  <2> HIDE DEF T, K
  <2>3. UNION {T(k) : k \in K} = Taken
    BY <2>1, <2>2
  <2>4. QED BY <2>3 DEF T, K
<1>4. QED BY <1>2, <1>3

\* An offer touches the batch of g and may clear away one at rest.
Offered(g, b) ==
  /\ offers' = offers + 1 /\ target' = target
  /\ DOMAIN batches' = Groups /\ batches'[g] = b
  /\ \A h \in Groups \ {g} : \/ batches'[h] = batches[h]
                             \/ /\ batches'[h] = NoDelivery /\ batches[h] \in BatchRows
                                /\ Resting(batches[h])
  /\ b = NoDelivery \/ b \in BatchRows
  /\ BatchSound(b)
  /\ Retained(b) \subseteq Retained(Mine(g)) \cup {offers + 1}
  /\ KnownBatch(g) => b # NoDelivery /\ (Mine(g).sending => b.sending)

LEMMA OfferFrame ==
  ASSUME NoticesInv, NEW g \in Groups, NEW b, Offered(g, b)
  PROVE  /\ \A h \in Groups : /\ BatchSound(batches'[h])
                              /\ batches'[h] = NoDelivery \/ batches'[h] \in BatchRows
         /\ \A k \in KeptJobs(g) : JobSound(k)'
         /\ \A h \in Groups \ {g} : batches'[h] # NoDelivery /\ batches'[h].sending =>
                                      \E k \in KeptJobs(g) : k.group = h /\ ~ k.orphan
         /\ \A a, c \in Groups : a # c => Retained(batches'[a]) \cap Retained(batches'[c]) = {}
         /\ WaitingTexts' = (WaitingTexts \ Retained(batches[g])) \cup Retained(b)
         /\ WaitingTexts' \subseteq 1..offers' /\ Taken \subseteq 1..offers'
         /\ offers + 1 \notin WaitingTexts /\ offers + 1 \notin Taken
<1>1. /\ \A h \in Groups : batches[h] = NoDelivery \/ batches[h] \in BatchRows
      /\ \A h \in Groups : BatchSound(batches[h])
      /\ offers \in Nat
  BY DEF NoticesInv, NoticesTyped
<1>2. /\ WaitingTexts \subseteq 1..offers /\ Taken \subseteq 1..offers
      /\ \A h \in Groups : Retained(batches[h]) \subseteq WaitingTexts
  BY FateIs
<1>3. offers + 1 \notin WaitingTexts /\ offers + 1 \notin Taken
  BY <1>1, <1>2
<1>4. \A h \in Groups \ {g} : Retained(batches'[h]) = Retained(batches[h])
  BY NothingHeld, BatchIs DEF Offered
<1>5. Retained(Mine(g)) \subseteq Retained(batches[g])
  BY MineIs
<1>6. \A h \in Groups : /\ BatchSound(batches'[h])
                        /\ batches'[h] = NoDelivery \/ batches'[h] \in BatchRows
  BY <1>1 DEF Offered, BatchSound
<1>7. /\ WaitingTexts' = (WaitingTexts \ Retained(batches[g])) \cup Retained(batches'[g])
      /\ \A a, c \in Groups : a # c => Retained(batches'[a]) \cap Retained(batches'[c]) = {}
  <2>1. {offers + 1} \cap WaitingTexts = {} /\ Retained(batches'[g]) \subseteq Retained(batches[g]) \cup {offers + 1}
    BY <1>3, <1>5 DEF Offered
  <2>2. QED BY <1>4, <2>1, WaitingMoves
<1>8. WaitingTexts' \subseteq 1..offers' /\ Taken \subseteq 1..offers'
  <2>1. offers' = offers + 1 /\ Retained(batches'[g]) \subseteq WaitingTexts \cup {offers + 1}
    BY <1>2, <1>5 DEF Offered
  <2>2. 1..offers \subseteq 1..offers' /\ offers + 1 \in 1..offers'
    BY <1>1, <2>1
  <2>3. QED BY <1>2, <1>7, <2>1, <2>2
<1>9. ASSUME NEW k \in KeptJobs(g) PROVE JobSound(k)'
  <2>1. PICK j \in jobs : /\ Continues(k, j) /\ k.at = j.at
                          /\ k.group = g /\ ~ k.orphan => KnownBatch(g) /\ Mine(g).sending
    BY KeptIs
  <2>2. JobSound(j) /\ j.group \in Groups /\ j.group = k.group
    BY <2>1 DEF NoticesInv, NoticesTyped, JobRows, Continues
  <2>3. CASE k.group # g \/ k.orphan
    <3>1. ~ k.orphan => batches'[j.group] = batches[j.group]
      <4>1. ASSUME ~ k.orphan PROVE batches[j.group] # NoDelivery /\ batches[j.group].sending
        BY <2>1, <2>2, <4>1 DEF JobSound, Continues
      <4>2. QED BY <2>2, <2>3, <4>1 DEF Offered, Resting
    <3>2. QED BY <2>1, <3>1, JobStaysSound DEF Offered
  <2>4. CASE k.group = g /\ ~ k.orphan
    <3>1. b # NoDelivery /\ b.sending /\ Mine(g) = batches[g]
      BY <2>1, <2>4 DEF Offered, Mine
    <3>2. Before(Texts(k.text), Retained(batches[g])) /\ Texts(k.text) \subseteq Taken
      BY <2>1, <2>2, <2>4, FateIs DEF JobSound, Continues
    <3>3. Before(Texts(k.text), Retained(b))
      <4>1. \A m \in Texts(k.text) : m < offers + 1
        <5>1. \A m \in 1..offers : m < offers + 1
          BY <1>1
        <5>2. QED BY <1>2, <3>2, <5>1
      <4>2. Retained(b) \subseteq Retained(batches[g]) \cup {offers + 1}
        BY <3>1 DEF Offered
      <4>3. QED BY <3>2, <4>1, <4>2 DEF Before
    <3>4. k.at = "io" => k.key = target'[k.group].generation
      BY <2>1, <2>2 DEF JobSound, Continues, Offered
    <3>5. batches'[k.group] = b
      BY <2>4 DEF Offered
    <3>6. QED BY <3>1, <3>3, <3>4, <3>5 DEF JobSound, Before, Retained, Texts, Held
  <2>5. QED BY <2>3, <2>4
<1>10. ASSUME NEW h \in Groups \ {g}, batches'[h] # NoDelivery, batches'[h].sending
       PROVE  \E k \in KeptJobs(g) : k.group = h /\ ~ k.orphan
  <2>1. batches[h] # NoDelivery /\ batches[h].sending
    BY <1>10 DEF Offered
  <2>2. PICK j \in jobs : j.group = h /\ ~ j.orphan
    BY <2>1 DEF NoticesInv, OneJobEach, OfBatch
  <2>3. QED BY <2>2, KeptIs DEF Continues
<1>11. QED BY <1>3, <1>6, <1>7, <1>8, <1>9, <1>10 DEF Offered

\* The notice waits, or it and what else is lost is counted.
LEMMA OfferWaits ==
  ASSUME NoticesInv, NEW g \in Groups, NEW b, Offered(g, b), offers < MaxOffers, jobs' = KeptJobs(g), NEW lost,
         Retained(b) = (Retained(Mine(g)) \cup {offers + 1}) \ lost,
         lost \subseteq Retained(Mine(g)) \cup {offers + 1},
         b # NoDelivery /\ b.sending => Mine(g).sending,
         fate' = [m \in Notice |-> IF m \in lost THEN "dropped"
                                   ELSE IF m = offers + 1 THEN "queued"
                                   ELSE IF m \in Cut(g) THEN "cancelled" ELSE fate[m]]
  PROVE  NoticesInv'
<1> DEFINE n == offers + 1
           R == Retained(batches[g])
<1>1. /\ \A h \in Groups : /\ BatchSound(batches'[h])
                           /\ batches'[h] = NoDelivery \/ batches'[h] \in BatchRows
      /\ \A k \in KeptJobs(g) : JobSound(k)'
      /\ \A h \in Groups \ {g} : batches'[h] # NoDelivery /\ batches'[h].sending =>
                                   \E k \in KeptJobs(g) : k.group = h /\ ~ k.orphan
      /\ \A a, c \in Groups : a # c => Retained(batches'[a]) \cap Retained(batches'[c]) = {}
      /\ WaitingTexts' = (WaitingTexts \ R) \cup Retained(b)
      /\ WaitingTexts' \subseteq 1..offers' /\ Taken \subseteq 1..offers'
      /\ n \notin WaitingTexts /\ n \notin Taken
  BY OfferFrame
<1>2. /\ JobsFrom(jobs')
      /\ \A j \in jobs : \E k \in jobs' : /\ Continues(k, j)
                                          /\ j.group # g \/ KnownBatch(g) => (k.orphan <=> j.orphan)
      /\ UNION {Texts(k.text) : k \in jobs'} = Taken
  BY KeptIs
<1>3. Taken' = Taken
  BY <1>2 DEF Taken, Texts
<1>4. /\ Retained(Mine(g)) = R \ Cut(g) /\ Cut(g) \subseteq R /\ R \subseteq WaitingTexts
      /\ Mine(g).sending => KnownBatch(g)
  BY MineIs, FateIs
<1>5. NoticesTyped'
  <2>1. offers' \in Nat /\ offers' <= MaxOffers
    BY NoticeAssumption DEF Offered, NoticesInv, NoticesTyped
  <2>2. jobs' \subseteq JobRows
    BY <1>2 DEF JobsFrom
  <2>3. QED BY <1>1, <2>1, <2>2 DEF Offered, NoticesInv, NoticesTyped
<1>6. ASSUME NEW h \in Groups, batches'[h] # NoDelivery, batches'[h].sending
      PROVE  \E k \in jobs' : k.group = h /\ ~ k.orphan
  <2>1. CASE h # g
    BY <1>1, <1>6, <2>1
  <2>2. CASE h = g
    <3>1. KnownBatch(g) /\ batches[g].sending /\ batches[g] # NoDelivery
      BY <1>4, <1>6, <2>2 DEF Offered, Mine, KnownBatch
    <3>2. PICK j \in jobs : j.group = g /\ ~ j.orphan
      BY <3>1 DEF NoticesInv, OneJobEach, OfBatch
    <3>3. QED BY <1>2, <2>2, <3>1, <3>2 DEF Continues
  <2>3. QED BY <2>1, <2>2
<1>7. \A m \in Notice : fate'[m] = IF m \in lost THEN "dropped"
                                   ELSE IF m = n THEN "queued"
                                   ELSE IF m \in Cut(g) THEN "cancelled" ELSE fate[m]
  OBVIOUS
<1>8. \A m \in Notice : /\ fate'[m] = "queued" <=> m \in WaitingTexts'
                        /\ fate'[m] = "taken" <=> m \in Taken'
  <2>1. /\ \A m \in Notice : (fate[m] = "queued" <=> m \in WaitingTexts) /\ (fate[m] = "taken" <=> m \in Taken)
        /\ WaitingTexts \cap Taken = {}
    BY FateIs
  <2>2. /\ Retained(b) = ((R \ Cut(g)) \cup {n}) \ lost
        /\ lost \subseteq (R \ Cut(g)) \cup {n}
    BY <1>4
  <2>3. WaitingTexts' = (WaitingTexts \ R) \cup Retained(b) /\ n \notin WaitingTexts /\ n \notin Taken
    BY <1>1
  <2> HIDE DEF n, R
  <2>4. ASSUME NEW m \in Notice PROVE fate'[m] = "queued" <=> m \in WaitingTexts'
    BY <1>4, <1>7, <2>1, <2>2, <2>3
  <2>5. ASSUME NEW m \in Notice PROVE fate'[m] = "taken" <=> m \in Taken'
    BY <1>3, <1>4, <1>7, <2>1, <2>2, <2>3
  <2>6. QED BY <2>4, <2>5
<1>9. \A h \in Groups : BatchSound(batches'[h])
  BY <1>1
<1>10. \A k \in jobs' : JobSound(k)'
  BY <1>1
<1>11. \A h \in Groups : batches'[h] # NoDelivery /\ batches'[h].sending =>
                           \E k \in jobs' : k.group = h /\ ~ k.orphan
  BY <1>6
<1>12. WaitingTexts' \subseteq 1..offers' /\ Taken' \subseteq 1..offers'
  BY <1>1, <1>3
<1>13. \A a, c \in Groups : a # c => Retained(batches'[a]) \cap Retained(batches'[c]) = {}
  BY <1>1
<1>14. QED BY ONLY NoticesInv, <1>2, <1>5, <1>8, <1>9, <1>10, <1>11, <1>12, <1>13, NoNewJob

\* The command sends its notice itself: nothing waited.
LEMMA OfferSends ==
  ASSUME NoticesInv, NEW g \in Groups, NEW b, Offered(g, b), offers < MaxOffers, NEW new,
         jobs' = KeptJobs(g) \cup {new}, new \in JobRows,
         new.group = g, \A j \in jobs : j.slot # new.slot, ~ new.orphan,
         new.key = target[g].generation, Texts(new.text) = {offers + 1},
         b \in BatchRows, b.sending, ~ Mine(g).sending, Retained(Mine(g)) = {}, Retained(b) = {},
         fate' = [m \in Notice |-> IF m = offers + 1 THEN "taken"
                                   ELSE IF m \in Cut(g) THEN "cancelled" ELSE fate[m]]
  PROVE  NoticesInv'
<1> DEFINE n == offers + 1
           R == Retained(batches[g])
           K == KeptJobs(g)
<1>1. /\ \A h \in Groups : /\ BatchSound(batches'[h])
                           /\ batches'[h] = NoDelivery \/ batches'[h] \in BatchRows
      /\ \A k \in K : JobSound(k)'
      /\ \A h \in Groups \ {g} : batches'[h] # NoDelivery /\ batches'[h].sending =>
                                   \E k \in K : k.group = h /\ ~ k.orphan
      /\ \A a, c \in Groups : a # c => Retained(batches'[a]) \cap Retained(batches'[c]) = {}
      /\ WaitingTexts' = (WaitingTexts \ R) \cup Retained(b)
      /\ WaitingTexts' \subseteq 1..offers' /\ Taken \subseteq 1..offers'
      /\ n \notin WaitingTexts /\ n \notin Taken
  BY OfferFrame
<1>2. /\ JobsFrom(K)
      /\ \A k \in K : \E j \in jobs :
           /\ Continues(k, j) /\ k.at = j.at
           /\ k.group = g /\ ~ k.orphan => KnownBatch(g) /\ Mine(g).sending
      /\ UNION {Texts(k.text) : k \in K} = Taken
  BY KeptIs
<1>3. R \ Cut(g) = {} /\ Cut(g) \subseteq R /\ R \subseteq WaitingTexts
  BY MineIs, FateIs
<1>4. Taken' = Taken \cup {n}
  <2> DEFINE T(j) == Texts(j.text)
  <2>1. Taken = UNION {T(k) : k \in K} /\ Taken' = UNION {T(k) : k \in jobs'}
    BY <1>2 DEF Taken, Texts
  <2>2. T(new) = {n}
    OBVIOUS
  <2>3. jobs' = K \cup {new}
    OBVIOUS
  <2> HIDE DEF T, K
  <2>4. QED BY <2>1, <2>2, <2>3
<1>5. WaitingTexts' = WaitingTexts \ Cut(g)
  BY <1>1, <1>3
<1>6. /\ offers \in Nat /\ offers' = offers + 1 /\ offers' <= MaxOffers
      /\ target' = target /\ batches'[g] = b /\ DOMAIN batches' = Groups
  BY NoticeAssumption DEF Offered, NoticesInv, NoticesTyped
<1>7. NoticesTyped'
  <2>1. jobs' \subseteq JobRows
    BY <1>2 DEF JobsFrom
  <2>2. offers' \in Nat
    BY <1>6
  <2>3. QED BY <1>1, <1>6, <2>1, <2>2 DEF NoticesInv, NoticesTyped
<1>8. Starts(K, new)
  <2>1. \A k \in K : k.slot # new.slot /\ (k.group = new.group => k.orphan)
    BY <1>2 DEF Continues
  <2>2. Texts(new.text) \cap Taken = {}
    BY <1>1
  <2>3. QED BY <1>2, <2>1, <2>2 DEF Starts
<1>9. \A k \in jobs' : JobSound(k)'
  <2>1. JobSound(new)'
    <3>1. b # NoDelivery
      BY BatchIs
    <3>2. new.key = target'[g].generation
      BY <1>6
    <3>3. batches'[new.group] = b /\ target'[new.group] = target'[g]
      BY <1>6
    <3>4. JobSound(new)' <=>
            /\ new.at = "io" => new.key = target'[new.group].generation
            /\ ~ new.orphan => /\ batches'[new.group] # NoDelivery /\ batches'[new.group].sending
                               /\ Before(Texts(new.text), Retained(batches'[new.group]))
      BY DEF JobSound, Before, Retained, Texts, Held
    <3>5. Before(Texts(new.text), Retained(b))
      BY DEF Before
    <3>6. QED BY ONLY <3>1, <3>2, <3>3, <3>4, <3>5, b.sending, new.group = g
  <2>2. QED BY <1>1, <2>1
<1>10. ASSUME NEW h \in Groups, batches'[h] # NoDelivery, batches'[h].sending
       PROVE  \E k \in jobs' : k.group = h /\ ~ k.orphan
  BY <1>1, <1>10
<1>11. \A h \in Groups : batches'[h] # NoDelivery /\ batches'[h].sending =>
                           \E k \in jobs' : k.group = h /\ ~ k.orphan
  BY <1>10
<1>12. WaitingTexts' \subseteq 1..offers' /\ Taken' \subseteq 1..offers'
  <2>1. n \in 1..offers'
    BY <1>6
  <2>2. QED BY <1>1, <1>4, <2>1
<1>13. \A m \in Notice : /\ fate'[m] = "queued" <=> m \in WaitingTexts'
                         /\ fate'[m] = "taken" <=> m \in Taken'
  <2>1. /\ \A m \in Notice : (fate[m] = "queued" <=> m \in WaitingTexts) /\ (fate[m] = "taken" <=> m \in Taken)
        /\ WaitingTexts \cap Taken = {}
    BY FateIs
  <2>2. n \notin WaitingTexts /\ n \notin Taken
    BY <1>1
  <2>3. \A m \in Notice : fate'[m] = IF m = n THEN "taken"
                                     ELSE IF m \in Cut(g) THEN "cancelled" ELSE fate[m]
    OBVIOUS
  <2> HIDE DEF n, R
  <2>4. QED BY <1>3, <1>4, <1>5, <2>1, <2>2, <2>3
<1>14. \A h \in Groups : BatchSound(batches'[h])
  BY <1>1
<1>15. \A a, c \in Groups : a # c => Retained(batches'[a]) \cap Retained(batches'[c]) = {}
  BY <1>1
<1>16. QED
  BY ONLY NoticesInv, <1>7, <1>8, <1>9, <1>11, <1>12, <1>13, <1>14, <1>15, NewJob

LEMMA OfferStopped ==
  ASSUME NoticesInv, offers < MaxOffers, offers' = offers + 1, Mark({offers + 1}, "dropped"),
         UNCHANGED << batches, jobs, target >>
  PROVE  NoticesInv'
<1>1. /\ offers \in Nat /\ offers' \in Nat /\ offers' <= MaxOffers
      /\ \A h \in Groups : BatchSound(batches'[h])
      /\ \A a, c \in Groups : a # c => Retained(batches'[a]) \cap Retained(batches'[c]) = {}
      /\ \A h \in Groups : batches'[h] # NoDelivery /\ batches'[h].sending =>
                             \E k \in jobs' : k.group = h /\ ~ k.orphan
  BY NoticeAssumption DEF NoticesInv, NoticesTyped, Apart, OneJobEach, OfBatch
<1>2. WaitingTexts' = WaitingTexts /\ Taken' = Taken
  BY DEF WaitingTexts, Taken, Retained, Texts, Held
<1>3. /\ \A m \in Notice : (fate[m] = "queued" <=> m \in WaitingTexts) /\ (fate[m] = "taken" <=> m \in Taken)
      /\ WaitingTexts \subseteq 1..offers /\ Taken \subseteq 1..offers
  BY FateIs
<1>4. WaitingTexts' \subseteq 1..offers' /\ Taken' \subseteq 1..offers'
  BY <1>1, <1>2, <1>3
<1>5. \A m \in Notice : /\ fate'[m] = "queued" <=> m \in WaitingTexts'
                        /\ fate'[m] = "taken" <=> m \in Taken'
  <2>1. offers + 1 \notin WaitingTexts /\ offers + 1 \notin Taken
    BY <1>1, <1>3
  <2>2. \A m \in Notice : fate'[m] = IF m = offers + 1 THEN "dropped" ELSE fate[m]
    BY DEF Mark
  <2>3. QED BY <1>2, <1>3, <2>1, <2>2
<1>6. NoticesTyped'
  BY <1>1 DEF NoticesInv, NoticesTyped, Mark
<1>7. \A k \in jobs' : JobSound(k)'
  <2>1. ASSUME NEW k \in jobs' PROVE JobSound(k)'
    BY SameJobs, JobStaysSound
  <2>2. QED BY <2>1
<1>8. JobsFrom(jobs')
  BY SameJobs
<1>9. QED BY ONLY NoticesInv, <1>1, <1>4, <1>5, <1>6, <1>7, <1>8, NoNewJob

\* The batches a placed notice finds: one at rest may have made room.
Cleared(g, kept) ==
  /\ DOMAIN kept = Groups /\ kept[g] = batches[g]
  /\ \A h \in Groups \ {g} : \/ kept[h] = batches[h]
                             \/ /\ kept[h] = NoDelivery /\ batches[h] \in BatchRows
                                /\ Resting(batches[h])

\* Place of Offer.
PutsOffer(g, kept) ==
  \E kind \in Kinds :
    LET put == Append1(Mine(g), [id |-> offers + 1, kind |-> kind]) IN
    IF Resting(Mine(g)) /\ Mine(g).due /\ FreeSlots # {}
    THEN /\ batches' = [kept EXCEPT ![g] = [Mine(g) EXCEPT !.sending = TRUE, !.due = FALSE]]
         /\ jobs' = KeptJobs(g) \cup
                    {[group |-> g, key |-> Mine(g).key, text |-> << [id |-> offers + 1, kind |-> kind] >>,
                      at |-> "io", own |-> TRUE, orphan |-> FALSE, slot |-> FreeSlot]}
         /\ fate' = [m \in Notice |-> IF m = offers + 1 THEN "taken"
                                      ELSE IF m \in Cut(g) THEN "cancelled" ELSE fate[m]]
    ELSE /\ batches' = [kept EXCEPT ![g] = put.batch]
         /\ jobs' = KeptJobs(g)
         /\ fate' = [m \in Notice |-> IF m \in put.lost THEN "dropped"
                                      ELSE IF m = offers + 1 THEN "queued"
                                      ELSE IF m \in Cut(g) THEN "cancelled" ELSE fate[m]]

LEMMA OfferPlaces ==
  ASSUME NoticesInv, NEW g \in Groups, offers < MaxOffers, offers' = offers + 1, target' = target,
         NEW kept, Cleared(g, kept), PutsOffer(g, kept)
  PROVE  NoticesInv'
<1> DEFINE n == offers + 1
           mine == Mine(g)
<1>1. PICK kind \in Kinds :
    LET put == Append1(mine, [id |-> n, kind |-> kind]) IN
    IF Resting(mine) /\ mine.due /\ FreeSlots # {}
    THEN /\ batches' = [kept EXCEPT ![g] = [mine EXCEPT !.sending = TRUE, !.due = FALSE]]
         /\ jobs' = KeptJobs(g) \cup
                    {[group |-> g, key |-> mine.key, text |-> << [id |-> n, kind |-> kind] >>,
                      at |-> "io", own |-> TRUE, orphan |-> FALSE, slot |-> FreeSlot]}
         /\ fate' = [m \in Notice |-> IF m = n THEN "taken"
                                      ELSE IF m \in Cut(g) THEN "cancelled" ELSE fate[m]]
    ELSE /\ batches' = [kept EXCEPT ![g] = put.batch]
         /\ jobs' = KeptJobs(g)
         /\ fate' = [m \in Notice |-> IF m \in put.lost THEN "dropped"
                                      ELSE IF m = n THEN "queued"
                                      ELSE IF m \in Cut(g) THEN "cancelled" ELSE fate[m]]
  BY DEF PutsOffer
<1> DEFINE e == [id |-> n, kind |-> kind]
<1>2. offers \in Nat /\ n \in Nat
  BY DEF NoticesInv, NoticesTyped
<1>3. e \in EventRows /\ e.id = n
  BY <1>2 DEF EventRows
<1>4. /\ mine \in BatchRows /\ BatchSound(mine) /\ mine.key = target[g].generation
      /\ Retained(mine) \subseteq WaitingTexts
  BY MineIs, FateIs
<1>5. \A m \in Retained(mine) : m < n
  <2>1. WaitingTexts \subseteq 1..offers
    BY FateIs
  <2>2. \A m \in 1..offers : m < n
    BY <1>2
  <2>3. QED BY <1>4, <2>1, <2>2
<1> HIDE DEF mine, e
<1>6. CASE Resting(mine) /\ mine.due /\ FreeSlots # {}
  <2> DEFINE b == [mine EXCEPT !.sending = TRUE, !.due = FALSE]
             new == [group |-> g, key |-> mine.key, text |-> << e >>,
                     at |-> "io", own |-> TRUE, orphan |-> FALSE, slot |-> FreeSlot]
  <2>1. /\ batches' = [kept EXCEPT ![g] = b] /\ jobs' = KeptJobs(g) \cup {new}
        /\ fate' = [m \in Notice |-> IF m = n THEN "taken"
                                     ELSE IF m \in Cut(g) THEN "cancelled" ELSE fate[m]]
    BY <1>1, <1>6 DEF e
  <2>2. /\ b \in BatchRows /\ b.events = mine.events /\ b.retry = mine.retry /\ b.sending
        /\ ~ mine.sending /\ mine.retry = NoText
    BY <1>4, <1>6 DEF BatchRows, Resting
  <2> HIDE DEF b
  <2>3. Retained(mine) = {}
    BY <1>4, <1>6, BatchIs
  <2>4. Retained(b) = {}
    BY <1>4, <2>2, <2>3, BatchIs
  <2>5. BatchSound(b)
    BY <1>4, <2>2, BatchIs DEF BatchSound
  <2>6. << e >> \in Seq(EventRows) /\ Texts(<< e >>) = {n}
    <3>1. /\ << e >> \in Seq(EventRows) /\ DOMAIN << e >> = {1} /\ << e >>[1] = e
      BY <1>3
    <3>2. QED BY <1>3, <3>1 DEF Texts
  <2>7. FreeSlot \in 1..Workers /\ \A j \in jobs : j.slot # FreeSlot
    BY <1>6, FreeSlotIs
  <2>8. /\ new \in JobRows /\ new.group = g /\ new.slot = FreeSlot /\ ~ new.orphan
        /\ new.key = target[g].generation /\ new.text = << e >>
    <3>1. mine.key \in Nat
      BY <1>4, BatchIs
    <3>2. QED BY <1>4, <2>6, <2>7, <3>1 DEF JobRows
  <2> HIDE DEF new
  <2>9. Offered(g, b)
    <3>1. DOMAIN batches' = Groups /\ batches'[g] = b /\ \A h \in Groups \ {g} : batches'[h] = kept[h]
      BY <2>1 DEF Cleared
    <3>2. KnownBatch(g) => b # NoDelivery /\ (Mine(g).sending => b.sending)
      BY <2>2, BatchIs
    <3>3. QED BY <2>2, <2>4, <2>5, <3>1, <3>2 DEF Offered, Cleared
  <2>10. Texts(new.text) = {n}
    BY <2>6, <2>8
  <2>11. ~ Mine(g).sending /\ Retained(Mine(g)) = {}
    BY <2>2, <2>3 DEF mine
  <2>12. \A j \in jobs : j.slot # new.slot
    BY <2>7, <2>8
  <2>13. QED BY <2>1, <2>2, <2>4, <2>8, <2>9, <2>10, <2>11, <2>12, OfferSends
<1>7. CASE ~ (Resting(mine) /\ mine.due /\ FreeSlots # {})
  <2> DEFINE b == Append1(mine, e).batch
             lost == Append1(mine, e).lost
  <2>1. /\ batches' = [kept EXCEPT ![g] = b] /\ jobs' = KeptJobs(g)
        /\ fate' = [m \in Notice |-> IF m \in lost THEN "dropped"
                                     ELSE IF m = n THEN "queued"
                                     ELSE IF m \in Cut(g) THEN "cancelled" ELSE fate[m]]
    BY <1>1, <1>7 DEF e
  <2>2. Holding1(mine, b, n, lost)
    BY <1>3, <1>4, <1>5, Appends
  <2> HIDE DEF b, lost
  <2>3. /\ b \in BatchRows /\ BatchSound(b) /\ b.sending = mine.sending
        /\ Retained(b) = (Retained(mine) \cup {n}) \ lost /\ lost \subseteq Retained(mine) \cup {n}
    BY <2>2 DEF Holding1
  <2>4. Offered(g, b)
    <3>1. DOMAIN batches' = Groups /\ batches'[g] = b /\ \A h \in Groups \ {g} : batches'[h] = kept[h]
      BY <2>1 DEF Cleared
    <3>2. KnownBatch(g) => b # NoDelivery /\ (Mine(g).sending => b.sending)
      BY <2>3, BatchIs DEF mine
    <3>3. QED BY <2>3, <3>1, <3>2 DEF Offered, Cleared, mine
  <2>5. /\ Retained(b) = (Retained(Mine(g)) \cup {n}) \ lost
        /\ lost \subseteq Retained(Mine(g)) \cup {n}
        /\ b # NoDelivery /\ b.sending => Mine(g).sending
    BY <2>3 DEF mine
  <2>6. QED BY <2>1, <2>4, <2>5, OfferWaits
<1>8. QED BY <1>6, <1>7

LEMMA Offers == ASSUME NoticesInv, NEW g \in Groups, Offer(g) PROVE NoticesInv'
<1> DEFINE others == {h \in Groups \ {g} : batches[h] # NoDelivery}
           idle == {h \in others : Resting(batches[h])}
<1>1. offers < MaxOffers /\ offers' = offers + 1 /\ target' = target
  BY DEF Offer
<1>2. \/ stopped /\ Mark({offers + 1}, "dropped") /\ UNCHANGED << batches, jobs >>
      \/ PutsOffer(g, batches)
      \/ \E h \in idle : PutsOffer(g, [batches EXCEPT ![h] = NoDelivery])
      \/ /\ ~ KnownBatch(g)
         /\ batches' = [batches EXCEPT ![g] = NoDelivery] /\ jobs' = KeptJobs(g)
         /\ fate' = [m \in Notice |-> IF m = offers + 1 THEN "dropped"
                                      ELSE IF m \in Cut(g) THEN "cancelled" ELSE fate[m]]
  BY DEF Offer, PutsOffer, Mine, KnownBatch, Changed, Cut, KeptJobs, FreshBatch
<1>3. DOMAIN batches = Groups /\ \A h \in Groups : batches[h] = NoDelivery \/ batches[h] \in BatchRows
  BY DEF NoticesInv, NoticesTyped
<1>4. CASE Mark({offers + 1}, "dropped") /\ UNCHANGED << batches, jobs >>
  BY <1>1, <1>4, OfferStopped
<1>5. CASE PutsOffer(g, batches)
  <2>1. Cleared(g, batches)
    BY <1>3 DEF Cleared
  <2>2. QED BY <1>1, <1>5, <2>1, OfferPlaces
<1>6. CASE \E h \in idle : PutsOffer(g, [batches EXCEPT ![h] = NoDelivery])
  <2>1. PICK h \in idle : PutsOffer(g, [batches EXCEPT ![h] = NoDelivery])
    BY <1>6
  <2>2. Cleared(g, [batches EXCEPT ![h] = NoDelivery])
    BY <1>3 DEF Cleared
  <2>3. QED BY <1>1, <2>1, <2>2, OfferPlaces
<1>7. CASE /\ ~ KnownBatch(g)
           /\ batches' = [batches EXCEPT ![g] = NoDelivery] /\ jobs' = KeptJobs(g)
           /\ fate' = [m \in Notice |-> IF m = offers + 1 THEN "dropped"
                                        ELSE IF m \in Cut(g) THEN "cancelled" ELSE fate[m]]
  <2> DEFINE n == offers + 1
  <2>1. Retained(Mine(g)) = {}
    BY <1>7, MineIs
  <2>2. Retained(NoDelivery) = {} /\ BatchSound(NoDelivery)
    BY NothingHeld DEF BatchSound
  <2>3. Offered(g, NoDelivery)
    <3>1. /\ DOMAIN batches' = Groups /\ batches'[g] = NoDelivery
          /\ \A h \in Groups \ {g} : batches'[h] = batches[h]
      BY <1>7, BatchPut
    <3>2. QED BY <1>1, <1>7, <2>2, <3>1 DEF Offered
  <2>4. fate' = [m \in Notice |-> IF m \in {n} THEN "dropped"
                                  ELSE IF m = offers + 1 THEN "queued"
                                  ELSE IF m \in Cut(g) THEN "cancelled" ELSE fate[m]]
    <3>1. \A m \in Notice : (IF m = n THEN "dropped"
                             ELSE IF m \in Cut(g) THEN "cancelled" ELSE fate[m])
                            = (IF m \in {n} THEN "dropped"
                               ELSE IF m = offers + 1 THEN "queued"
                               ELSE IF m \in Cut(g) THEN "cancelled" ELSE fate[m])
      OBVIOUS
    <3>2. QED BY <1>7, <3>1
  <2>5. /\ Retained(NoDelivery) = (Retained(Mine(g)) \cup {offers + 1}) \ {n}
        /\ {n} \subseteq Retained(Mine(g)) \cup {offers + 1}
    BY <2>1, <2>2
  <2>6. QED BY <1>1, <1>7, <2>3, <2>4, <2>5, OfferWaits
<1>8. QED BY <1>2, <1>4, <1>5, <1>6, <1>7

-----------------------------------------------------------------------------
(* The theorem. *)

LEMMA NoticesInit == ASSUME NoticeInit PROVE NoticesInv
<1>1. \A g \in Groups : batches[g] = NoDelivery
  BY DEF NoticeInit
<1>2. WaitingTexts = {} /\ Taken = {}
  BY <1>1, NothingHeld DEF NoticeInit, WaitingTexts, Taken
<1>3. NoticesTyped
  BY NoticeAssumption DEF NoticeInit, NoticesTyped
<1>4. (\A g \in Groups : BatchSound(batches[g])) /\ OneJobEach /\ Apart
  BY <1>1, NothingHeld DEF BatchSound, OneJobEach, Apart, NoticeInit
<1>5. \A j \in jobs : JobSound(j)
  BY DEF NoticeInit
<1>6. NoticesAccounted
  <2>1. {n \in Notice : fate[n] = "queued"} = {} /\ {n \in Notice : fate[n] = "taken"} = {}
    BY DEF NoticeInit
  <2>2. QED BY <1>2, <2>1 DEF NoticesAccounted, WaitingTexts, Taken
<1>7. QED BY <1>2, <1>3, <1>4, <1>5, <1>6 DEF NoticesInv

LEMMA NoticesNext == NoticesInv /\ [NoticeNext]_noticeVars => NoticesInv'
<1>1. ASSUME NoticesInv, UNCHANGED noticeVars PROVE NoticesInv'
  <2>1. UNCHANGED << target, batches, jobs, fate, offers >>
    BY <1>1 DEF noticeVars
  <2>2. NoticesTyped'
    BY <1>1, <2>1 DEF NoticesInv, NoticesTyped
  <2>3. (\A g \in Groups : BatchSound(batches[g]))' /\ (\A j \in jobs : JobSound(j))'
    BY <1>1, <2>1 DEF NoticesInv, BatchSound, JobSound, Retained, Held, Texts, Ascending, Before
  <2>4. OneJobEach' /\ Apart'
    <3>1. OneJobEach'
      BY <1>1, <2>1 DEF NoticesInv, OneJobEach, OfBatch
    <3>2. \A g \in Groups : Retained(batches[g])' = Retained(batches[g])
      BY <2>1 DEF Retained, Held, Texts
    <3>3. \A j \in jobs : Texts(j.text)' = Texts(j.text)
      BY DEF Texts
    <3>4. Apart'
      BY <1>1, <2>1, <3>2, <3>3 DEF NoticesInv, Apart, Retained, Held, Texts
    <3>5. QED BY <3>1, <3>4
  <2>5. NoticesAccounted'
    BY <1>1, <2>1 DEF NoticesInv, NoticesAccounted, Retained, Held, Texts
  <2>6. (WaitingTexts \cup Taken \subseteq 1..offers)'
    BY <1>1, <2>1 DEF NoticesInv, WaitingTexts, Taken, Retained, Held, Texts
  <2>7. QED BY <2>2, <2>3, <2>4, <2>5, <2>6 DEF NoticesInv
<1>2. ASSUME NoticesInv, NoticeNext PROVE NoticesInv'
  <2>1. ASSUME NEW g \in Groups,
               \/ Offer(g) \/ NoticeWork(g)
               \/ RetireTarget(g) \/ DisableNotices(g) \/ CancelDisabled(g) \/ EnableNotices(g)
        PROVE  NoticesInv'
    BY <1>2, <2>1, Offers, TakeKeeps, Lapses, TimeAndRows, Cancels DEF NoticeWork
  <2>2. CASE NoticeRun
    BY <1>2, <2>2, Checks DEF NoticeRun
  <2>3. QED BY <1>2, <2>1, <2>2, Stops DEF NoticeNext
<1>3. QED BY <1>1, <1>2

LEMMA SendsHaveSlots ==
  ASSUME NoticesInv
  PROVE  OneSendEach
<1>1. Cardinality(jobs) <= Workers
  <2> DEFINE f == [j \in jobs |-> j.slot]
  <2>1. Workers \in Nat
    BY NoticeAssumption
  <2>2. IsFiniteSet(1..Workers) /\ Cardinality(1..Workers) = Workers
    BY <2>1, FS_Interval
  <2>3. \A j \in jobs : j.slot \in 1..Workers
    BY DEF NoticesInv, NoticesTyped, JobRows
  <2>4. f \in Injection(jobs, 1..Workers)
    <3>1. f \in [jobs -> 1..Workers]
      BY <2>3
    <3>2. \A j, k \in jobs : f[j] = f[k] => j = k
      BY DEF NoticesInv, OneJobEach
    <3> HIDE DEF f
    <3>3. QED BY <3>1, <3>2, Fun_IsInj
  <2>5. QED BY <2>2, <2>4, FS_Injection
<1>2. ASSUME NEW g \in Groups
      PROVE  /\ Cardinality(OfBatch(g)) <= 1
             /\ batches[g] # NoDelivery => (batches[g].sending <=> OfBatch(g) # {})
  <2>1. \A j, k \in OfBatch(g) : j = k
    BY DEF NoticesInv, OneJobEach, OfBatch
  <2>2. OfBatch(g) = {} \/ \E j : OfBatch(g) = {j}
    BY <2>1
  <2>3. Cardinality(OfBatch(g)) <= 1
    <3>1. CASE OfBatch(g) = {}
      BY <3>1, FS_EmptySet
    <3>2. CASE \E j : OfBatch(g) = {j}
      <4>1. PICK j : OfBatch(g) = {j}
        BY <3>2
      <4>2. Cardinality({j}) = 1
        BY FS_Singleton
      <4>3. QED BY <4>1, <4>2
    <3>3. QED BY <2>2, <3>1, <3>2
  <2>4. batches[g] # NoDelivery => (batches[g].sending <=> OfBatch(g) # {})
    <3>1. batches[g] # NoDelivery => batches[g].sending \in BOOLEAN
      BY BatchIs DEF NoticesInv, NoticesTyped
    <3>2. batches[g] # NoDelivery /\ batches[g].sending => OfBatch(g) # {}
      BY DEF NoticesInv, OneJobEach
    <3>3. OfBatch(g) # {} => batches[g].sending
      BY DEF NoticesInv, JobSound, OfBatch
    <3>4. QED BY <3>1, <3>2, <3>3
  <2>5. QED BY <2>3, <2>4
<1>3. QED BY <1>1, <1>2 DEF OneSendEach

\* Only a send makes a notice accepted.
LEMMA OnlySendsAccept ==
  ASSUME NoticesInv, [NoticeNext]_noticeVars, \A j \in jobs : ~ Send(j), NEW n \in Notice, fate'[n] = "accepted"
  PROVE  fate[n] = "accepted"
<1>1. ASSUME NEW S, NEW how, how # "accepted", Mark(S, how) PROVE fate[n] = "accepted"
  BY <1>1 DEF Mark
<1>2. CASE UNCHANGED noticeVars
  BY <1>2 DEF noticeVars
<1>3. ASSUME NEW g \in Groups, Offer(g) PROVE fate[n] = "accepted"
  <2> DEFINE others == {h \in Groups \ {g} : batches[h] # NoDelivery}
             idle == {h \in others : Resting(batches[h])}
  <2>1. \/ stopped /\ Mark({offers + 1}, "dropped") /\ UNCHANGED << batches, jobs >>
        \/ PutsOffer(g, batches)
        \/ \E h \in idle : PutsOffer(g, [batches EXCEPT ![h] = NoDelivery])
        \/ /\ ~ KnownBatch(g)
           /\ batches' = [batches EXCEPT ![g] = NoDelivery] /\ jobs' = KeptJobs(g)
           /\ fate' = [m \in Notice |-> IF m = offers + 1 THEN "dropped"
                                        ELSE IF m \in Cut(g) THEN "cancelled" ELSE fate[m]]
    BY <1>3 DEF Offer, PutsOffer, Mine, KnownBatch, Changed, Cut, KeptJobs, FreshBatch
  <2>2. ASSUME NEW kept, PutsOffer(g, kept) PROVE fate[n] = "accepted"
    BY <2>2 DEF PutsOffer
  <2>3. CASE fate' = [m \in Notice |-> IF m = offers + 1 THEN "dropped"
                                       ELSE IF m \in Cut(g) THEN "cancelled" ELSE fate[m]]
    BY <2>3
  <2>4. QED BY <1>1, <2>1, <2>2, <2>3
<1>4. ASSUME NEW g \in Groups, Take(g) PROVE fate[n] = "accepted"
  BY <1>4 DEF Take
<1>5. ASSUME NEW g \in Groups, Lapse(g) PROVE fate[n] = "accepted"
  BY <1>1, <1>5 DEF Lapse
<1>6. ASSUME NEW g \in Groups,
             ComesDue(g) \/ RetryLapses(g) \/ DisableNotices(g) \/ EnableNotices(g)
      PROVE  fate[n] = "accepted"
  BY <1>6 DEF ComesDue, RetryLapses, DisableNotices, EnableNotices
<1>7. ASSUME NEW g \in Groups, RetireTarget(g) \/ CancelDisabled(g) PROVE fate[n] = "accepted"
  BY <1>1, <1>7 DEF RetireTarget, CancelDisabled, Cancel
<1>8. CASE StopQueue
  BY <1>1, <1>8 DEF StopQueue
<1>9. ASSUME NEW j \in jobs, Check(j) PROVE fate[n] = "accepted"
  BY <1>1, <1>9 DEF Check
<1>10. QED
  BY <1>2, <1>3, <1>4, <1>5, <1>6, <1>7, <1>8, <1>9 DEF NoticeNext, NoticeWork, NoticeRun

LEMMA SentAsItShould ==
  ASSUME NoticesInv, [NoticeNext]_noticeVars, NEW j \in jobs, j \notin jobs',
         NEW n \in Texts(j.text), fate'[n] = "accepted"
  PROVE  /\ j.key = target[j.group].generation
         /\ \A w \in Retained(batches[j.group]) : ~ j.orphan => \A m \in Texts(j.text) : m < w
<1>1. n \in Notice /\ fate[n] = "taken"
  BY FateIs
<1>2. PICK k \in jobs : Send(k)
  BY <1>1, OnlySendsAccept
<1>3. k = j /\ j.at = "io"
  BY <1>2 DEF Send
<1>4. JobSound(j)
  BY DEF NoticesInv
<1>5. QED BY <1>3, <1>4 DEF JobSound, Before

\* What an offer takes from a batch had waited in it.
LEMMA OfferMoves ==
  ASSUME NoticesInv, NEW g \in Groups, Offer(g), NEW n \in 1..offers, fate'[n] # fate[n]
  PROVE  fate[n] = "queued" /\ fate'[n] # "lost"
<1> DEFINE others == {h \in Groups \ {g} : batches[h] # NoDelivery}
           idle == {h \in others : Resting(batches[h])}
<1>1. \/ stopped /\ Mark({offers + 1}, "dropped") /\ UNCHANGED << batches, jobs >>
      \/ PutsOffer(g, batches)
      \/ \E h \in idle : PutsOffer(g, [batches EXCEPT ![h] = NoDelivery])
      \/ /\ ~ KnownBatch(g)
         /\ batches' = [batches EXCEPT ![g] = NoDelivery] /\ jobs' = KeptJobs(g)
         /\ fate' = [m \in Notice |-> IF m = offers + 1 THEN "dropped"
                                      ELSE IF m \in Cut(g) THEN "cancelled" ELSE fate[m]]
  BY DEF Offer, PutsOffer, Mine, KnownBatch, Changed, Cut, KeptJobs, FreshBatch
<1>2. /\ offers \in Nat /\ n # offers + 1 /\ n \in Notice
      /\ \A m \in Retained(Mine(g)) : m < offers + 1
  <2>1. offers \in Nat /\ offers <= MaxOffers
    BY DEF NoticesInv, NoticesTyped
  <2>2. Retained(Mine(g)) \subseteq 1..offers
    BY MineIs, FateIs
  <2>3. QED BY <2>1, <2>2, NoticeAssumption DEF Notice
<1>3. /\ Mine(g) \in BatchRows /\ BatchSound(Mine(g))
      /\ Retained(Mine(g)) \subseteq Retained(batches[g]) /\ Cut(g) \subseteq Retained(batches[g])
  BY MineIs
<1>4. \A m \in Retained(batches[g]) : m \in Notice => fate[m] = "queued"
  BY FateIs
<1>5. CASE Mark({offers + 1}, "dropped")
  BY <1>2, <1>5 DEF Mark
<1>6. ASSUME NEW kept, PutsOffer(g, kept) PROVE fate[n] = "queued" /\ fate'[n] # "lost"
  <2>1. PICK kind \in Kinds :
          LET put == Append1(Mine(g), [id |-> offers + 1, kind |-> kind]) IN
          \/ fate' = [m \in Notice |-> IF m = offers + 1 THEN "taken"
                                       ELSE IF m \in Cut(g) THEN "cancelled" ELSE fate[m]]
          \/ fate' = [m \in Notice |-> IF m \in put.lost THEN "dropped"
                                       ELSE IF m = offers + 1 THEN "queued"
                                       ELSE IF m \in Cut(g) THEN "cancelled" ELSE fate[m]]
    BY <1>6 DEF PutsOffer
  <2> DEFINE e == [id |-> offers + 1, kind |-> kind]
             lost == Append1(Mine(g), e).lost
  <2>2. e \in EventRows /\ e.id = offers + 1
    BY <1>2 DEF EventRows
  <2> HIDE DEF e
  <2>3. lost \subseteq Retained(Mine(g)) \cup {offers + 1}
    <3>1. Holding1(Mine(g), Append1(Mine(g), e).batch, e.id, lost)
      BY <1>2, <1>3, <2>2, Appends
    <3>2. QED BY <2>2, <3>1 DEF Holding1
  <2>4. \/ fate' = [m \in Notice |-> IF m = offers + 1 THEN "taken"
                                     ELSE IF m \in Cut(g) THEN "cancelled" ELSE fate[m]]
        \/ fate' = [m \in Notice |-> IF m \in lost THEN "dropped"
                                     ELSE IF m = offers + 1 THEN "queued"
                                     ELSE IF m \in Cut(g) THEN "cancelled" ELSE fate[m]]
    BY <2>1 DEF e
  <2> HIDE DEF lost
  <2>5. (n \in lost \/ n \in Cut(g)) /\ fate'[n] \in {"dropped", "cancelled"}
    BY <1>2, <2>4
  <2>6. QED BY <1>2, <1>3, <1>4, <2>3, <2>5
<1>7. CASE fate' = [m \in Notice |-> IF m = offers + 1 THEN "dropped"
                                     ELSE IF m \in Cut(g) THEN "cancelled" ELSE fate[m]]
  <2>1. n \in Cut(g) /\ fate'[n] = "cancelled"
    BY <1>2, <1>7
  <2>2. QED BY <1>2, <1>3, <1>4, <2>1
<1>8. QED BY <1>1, <1>5, <1>6, <1>7

\* What a job takes from a batch had waited in it.
LEMMA TakeMoves ==
  ASSUME NoticesInv, NEW g \in Groups, Take(g) \/ Lapse(g), NEW n \in Notice, fate'[n] # fate[n]
  PROVE  fate[n] = "queued" /\ fate'[n] # "lost"
<1> DEFINE b == batches[g]
<1>1. b \in BatchRows /\ BatchSound(b)
  BY DEF Take, Lapse, NoticesInv, NoticesTyped
<1>2. Texts(b.events) \subseteq Retained(b) /\ (b.retry # NoText => Texts(b.retry) \subseteq Retained(b))
  BY <1>1, BatchIs
<1>3. \A m \in Retained(b) : m \in Notice => fate[m] = "queued"
  BY FateIs
<1>4. ASSUME NEW k \in 0..Len(b.events) PROVE Texts(SubSeq(b.events, 1, k)) \subseteq Texts(b.events)
  <2>1. b.events \in Seq(EventRows) /\ Ascending(b.events)
    BY <1>1, BatchIs DEF BatchSound
  <2>2. QED BY <2>1, TextsSplit
<1>5. CASE Lapse(g)
  <2>1. n \in Texts(b.retry) /\ b.retry # NoText /\ fate'[n] = "expired"
    BY <1>5 DEF Lapse, Mark
  <2>2. QED BY <1>2, <1>3, <2>1
<1>6. CASE Take(g)
  <2> DEFINE late == b.retry # NoText /\ b.lapsed
             retry == IF late THEN NoText ELSE b.retry
             T(k) == Texts(IF retry # NoText THEN retry ELSE SubSeq(b.events, 1, k))
  <2>1. PICK k \in 0..Len(b.events) :
          fate' = [m \in Notice |-> IF late /\ m \in Texts(b.retry) THEN "expired"
                                   ELSE IF m \in T(k) THEN "taken" ELSE fate[m]]
    <3>1. Len(b.events) \in Nat
      BY <1>1, BatchIs
    <3>2. PICK k \in (IF retry # NoText THEN {0}
                     ELSE IF b.dropped THEN 0..Len(b.events) ELSE 1..Len(b.events)) :
            fate' = [m \in Notice |->
                       IF late /\ m \in Texts(b.retry) THEN "expired"
                       ELSE IF m \in Texts(IF retry # NoText THEN retry ELSE SubSeq(b.events, 1, k))
                            THEN "taken" ELSE fate[m]]
      BY <1>6, Zenon DEF Take
    <3> HIDE DEF b, late, retry
    <3>3. k \in 0..Len(b.events)
      BY <3>1, <3>2
    <3>4. QED BY <3>2, <3>3
  <2>2. T(k) \subseteq Retained(b)
    BY <1>2, <1>4
  <2> HIDE DEF T
  <2>3. /\ n \in T(k) \/ (late /\ n \in Texts(b.retry))
        /\ fate'[n] # "lost"
    BY <2>1
  <2>4. QED BY <1>2, <1>3, <2>2, <2>3
<1>7. QED BY <1>5, <1>6

\* Only what waits or is under way comes to an end, and only what is under way
\* without its batch, or while the queue stops, to one that nobody counts.
LEMMA OutcomesStay ==
  ASSUME NoticesInv, [NoticeNext]_noticeVars, NEW n \in 1..offers, fate'[n] # fate[n]
  PROVE  /\ fate[n] \in {"queued", "taken"}
         /\ fate'[n] = "lost" => stopped \/ \E j \in jobs : j.orphan /\ n \in Texts(j.text)
<1>1. n \in Notice
  BY NoticeAssumption DEF NoticesInv, NoticesTyped, Notice
<1>2. /\ \A g \in Groups : n \in Retained(batches[g]) => fate[n] = "queued"
      /\ \A j \in jobs : n \in Texts(j.text) => fate[n] = "taken"
  BY <1>1, FateIs
<1>3. ASSUME NEW S, NEW how, Mark(S, how) PROVE n \in S /\ fate'[n] = how
  BY <1>1, <1>3 DEF Mark
<1>4. ~ UNCHANGED noticeVars
  BY DEF noticeVars
<1>5. ASSUME NEW g \in Groups, Offer(g) \/ Take(g) \/ Lapse(g)
      PROVE  fate[n] \in {"queued", "taken"} /\ fate'[n] # "lost"
  BY <1>1, <1>5, OfferMoves, TakeMoves
<1>6. ASSUME NEW g \in Groups,
             ComesDue(g) \/ RetryLapses(g) \/ DisableNotices(g) \/ EnableNotices(g)
      PROVE  FALSE
  BY <1>6 DEF ComesDue, RetryLapses, DisableNotices, EnableNotices
<1>7. ASSUME NEW g \in Groups, RetireTarget(g) \/ CancelDisabled(g)
      PROVE  fate[n] = "queued" /\ fate'[n] # "lost"
  <2>1. Mark(Retained(batches[g]), "cancelled")
    BY <1>7 DEF RetireTarget, CancelDisabled, Cancel
  <2>2. QED BY <1>2, <1>3, <2>1
<1>8. CASE StopQueue
  <2>1. Mark(UNION {Retained(batches[g]) : g \in Groups}, "cancelled")
    BY <1>8 DEF StopQueue
  <2>2. QED BY <1>2, <1>3, <2>1
<1>9. ASSUME NEW j \in jobs, Send(j) PROVE fate[n] = "taken" /\ fate'[n] # "lost"
  <2>1. PICK how \in {"accepted", "failed", "unknown"} : Mark(Texts(j.text), how)
    BY <1>9 DEF Send
  <2>2. QED BY <1>2, <1>3, <2>1
<1>10. ASSUME NEW j \in jobs, Check(j)
       PROVE  fate[n] = "taken" /\ (fate'[n] = "lost" => stopped \/ (j.orphan /\ n \in Texts(j.text)))
  <2>1. \/ fate' = fate
        \/ \E how \in {"cancelled", "queued", "unknown"} : Mark(Texts(j.text), how)
        \/ (stopped \/ j.orphan) /\ Mark(Texts(j.text), "lost")
    BY <1>10 DEF Check
  <2>2. QED BY <1>2, <1>3, <2>1
<1>11. QED
  BY <1>4, <1>5, <1>6, <1>7, <1>8, <1>9, <1>10 DEF NoticeNext, NoticeWork, NoticeRun

(***************************************************************************)
(* The notices: slots are kept, each notice is in one place and has one    *)
(* outcome for good, none is lost uncounted but from a job whose batch was *)
(* cancelled or whose queue stopped, and what goes out goes to the present *)
(* target in the order of the commands.                                    *)
(***************************************************************************)
THEOREM NoticesStaySound == NoticeSpec => NoticesAreSound
<1> DEFINE A == \A j \in jobs : (j \notin jobs' /\ \E m \in Texts(j.text) : fate'[m] = "accepted") =>
                  /\ j.key = target[j.group].generation
                  /\ \A n \in Retained(batches[j.group]) : ~ j.orphan => \A m \in Texts(j.text) : m < n
           B == \A n \in 1..offers : fate'[n] # fate[n] =>
                  /\ fate[n] \in {"queued", "taken"}
                  /\ fate'[n] = "lost" => stopped \/ \E j \in jobs : j.orphan /\ n \in Texts(j.text)
<1>1. NoticesInv => OneSendEach /\ NoticesAccounted
  BY SendsHaveSlots DEF NoticesInv
<1>2. NoticesInv /\ [NoticeNext]_noticeVars => [A]_noticeVars
  <2>1. ASSUME NoticesInv, [NoticeNext]_noticeVars PROVE A
    BY <2>1, SentAsItShould
  <2>2. QED BY <2>1
<1>3. NoticesInv /\ [NoticeNext]_noticeVars => [B]_noticeVars
  <2>1. ASSUME NoticesInv, [NoticeNext]_noticeVars PROVE B
    BY <2>1, OutcomesStay
  <2>2. QED BY <2>1
<1> HIDE DEF A, B
<1>4. NoticeSpec => [](OneSendEach /\ NoticesAccounted) /\ [][A]_noticeVars /\ [][B]_noticeVars
  BY <1>1, <1>2, <1>3, NoticesInit, NoticesNext, PTL DEF NoticeSpec
<1>5. QED BY <1>4 DEF NoticesAreSound, SentInOrder, OutcomesAreFinal, A, B

Fates == {"unborn", "queued", "taken", "accepted", "failed", "unknown", "cancelled", "dropped", "expired",
          "lost"}

\* A batch is of a target there was, and keeps no more than its limit.
Limited(b) == b # NoDelivery => b.key \in 1..(MaxTargets + 1) /\ Len(b.events) <= MaxWaiting

NoticesBounded ==
  /\ \A g \in Groups : target[g].generation \in 1..(MaxTargets + 1) /\ Limited(batches[g])
  /\ fate \in [Notice -> Fates] /\ stopped \in BOOLEAN

LEMMA AppendLimited ==
  ASSUME NEW b \in BatchRows, Limited(b), b # NoDelivery, NEW n \in EventRows
  PROVE  Limited(Append1(b, n).batch)
<1> DEFINE q == b.events
           aliases == {i \in DOMAIN q : q[i].kind = "alias"}
           victim == CHOOSE i \in aliases : \A j \in aliases : i <= j
           put == Append1(b, n)
<1>1. q \in Seq(EventRows) /\ Len(q) <= MaxWaiting /\ b.key \in 1..(MaxTargets + 1) /\ MaxWaiting \in Nat
  BY NoticeAssumption DEF BatchRows, Limited
<1>2. CASE ~ (Len(q) >= MaxWaiting)
  <2> DEFINE s == Append(q, n)
             c == [b EXCEPT !.events = s]
  <2>1. Len(s) <= MaxWaiting
    BY <1>1, <1>2
  <2>2. put = [batch |-> c, lost |-> {}]
    BY <1>2 DEF Append1, q
  <2>3. c.events = s /\ c.key = b.key
    BY DEF BatchRows
  <2> HIDE DEF s, c
  <2>4. QED BY <1>1, <2>1, <2>2, <2>3 DEF Limited
<1>3. CASE Len(q) >= MaxWaiting /\ n.kind # "alias" /\ aliases # {}
  <2>1. victim \in aliases
    <3>1. aliases \in SUBSET Nat
      BY <1>1
    <3>2. \E i \in aliases : \A j \in aliases : i <= j
      BY <1>3, <3>1, LeastOf
    <3>3. QED BY <3>2
  <2>2. victim \in DOMAIN q
    BY <2>1
  <2> HIDE DEF victim
  <2> DEFINE r == RemoveAt(q, victim)
             s == Append(r, n)
             c == [b EXCEPT !.events = s, !.dropped = TRUE]
  <2>3. r \in Seq(EventRows) /\ Len(r) = Len(q) - 1
    <3> DEFINE left == SubSeq(q, 1, victim - 1)
               right == SubSeq(q, victim + 1, Len(q))
    <3>1. left \in Seq(EventRows) /\ Len(left) = victim - 1
      BY <1>1, <2>2
    <3>2. right \in Seq(EventRows) /\ Len(right) = Len(q) - victim
      BY <1>1, <2>2
    <3>3. r = left \o right
      BY DEF RemoveAt
    <3>4. victim \in Nat /\ Len(q) \in Nat
      BY <1>1, <2>2
    <3> HIDE DEF r, q, left, right
    <3>5. r \in Seq(EventRows) /\ Len(r) = Len(left) + Len(right)
      BY <3>1, <3>2, <3>3, ConcatProperties
    <3>6. QED BY ONLY <3>1, <3>2, <3>4, <3>5
  <2>4. put = [batch |-> c, lost |-> {q[victim].id}]
    BY <1>3 DEF Append1, q, victim
  <2> HIDE DEF r
  <2>5. Len(s) <= MaxWaiting
    BY <1>1, <2>3
  <2>6. c.events = s /\ c.key = b.key
    BY DEF BatchRows
  <2> HIDE DEF s, c
  <2>7. QED BY <1>1, <2>4, <2>5, <2>6 DEF Limited
<1>4. CASE Len(q) >= MaxWaiting /\ ~ (n.kind # "alias" /\ aliases # {})
  <2> DEFINE c == [b EXCEPT !.dropped = TRUE]
  <2>1. put.batch = c
    BY <1>4 DEF Append1, q
  <2>2. c.events = b.events /\ c.key = b.key
    BY DEF BatchRows
  <2> HIDE DEF c
  <2>3. QED BY <1>1, <2>1, <2>2 DEF Limited
<1>5. QED BY <1>2, <1>3, <1>4

\* The batch of an offer is within its limits, the others are as they were or gone.
LEMMA PutsLimited ==
  ASSUME NoticesInv, NoticesBounded, NEW g \in Groups, NEW kept, Cleared(g, kept), PutsOffer(g, kept)
  PROVE  (\A h \in Groups : Limited(batches'[h])) /\ fate' \in [Notice -> Fates]
<1>1. /\ Mine(g) \in BatchRows /\ offers \in Nat
      /\ \A kind \in Kinds : [id |-> offers + 1, kind |-> kind] \in EventRows
  BY MineIs DEF NoticesInv, NoticesTyped, EventRows
<1>2. Limited(Mine(g)) /\ Mine(g) # NoDelivery
  <2>1. CASE KnownBatch(g)
    BY <2>1 DEF Mine, KnownBatch, NoticesBounded
  <2>2. CASE ~ KnownBatch(g)
    <3>1. FreshBatch(g).events = << >> /\ FreshBatch(g).key = target[g].generation /\ MaxWaiting \in Nat
      BY NoticeAssumption DEF FreshBatch
    <3>2. Len(<< >>) = 0
      OBVIOUS
    <3>3. Mine(g) = FreshBatch(g) /\ Limited(FreshBatch(g))
      BY <2>2, <3>1, <3>2 DEF Mine, NoticesBounded, Limited
    <3>4. FreshBatch(g) # NoDelivery
      <4>1. Mine(g).key \in Nat \ {0}
        BY <1>1 DEF BatchRows
      <4>2. QED BY <3>3, <4>1 DEF NoDelivery
    <3>5. QED BY <3>3, <3>4
  <2>3. QED BY <2>1, <2>2
<1> DEFINE sent == [Mine(g) EXCEPT !.sending = TRUE, !.due = FALSE]
<1>3. sent.key = Mine(g).key /\ sent.events = Mine(g).events
  BY <1>1 DEF BatchRows
<1>4. PICK b : batches' = [kept EXCEPT ![g] = b] /\ Limited(b)
  <2>1. PICK kind \in Kinds :
          \/ batches' = [kept EXCEPT ![g] = sent]
          \/ batches' = [kept EXCEPT ![g] = Append1(Mine(g), [id |-> offers + 1, kind |-> kind]).batch]
    BY DEF PutsOffer
  <2> HIDE DEF sent
  <2>2. Limited(sent)
    BY <1>2, <1>3 DEF Limited
  <2>3. Limited(Append1(Mine(g), [id |-> offers + 1, kind |-> kind]).batch)
    BY <1>1, <1>2, AppendLimited
  <2>4. QED BY <2>1, <2>2, <2>3
<1>5. fate' \in [Notice -> Fates]
  BY DEF PutsOffer, Fates, NoticesBounded
<1>6. \A h \in Groups : Limited(batches'[h])
  BY <1>4 DEF Cleared, NoticesBounded, Limited
<1>7. QED BY <1>5, <1>6

LEMMA OfferLimited ==
  ASSUME NoticesInv, NoticesBounded, NEW g \in Groups, Offer(g)
  PROVE  NoticesBounded'
<1> DEFINE idle == {h \in Groups \ {g} : batches[h] # NoDelivery /\ Resting(batches[h])}
<1>1. target' = target /\ stopped' = stopped
  BY DEF Offer
<1>2. \/ Mark({offers + 1}, "dropped") /\ UNCHANGED << batches, jobs >>
      \/ PutsOffer(g, batches)
      \/ \E h \in idle : PutsOffer(g, [batches EXCEPT ![h] = NoDelivery])
      \/ /\ batches' = [batches EXCEPT ![g] = NoDelivery]
         /\ fate' = [m \in Notice |-> IF m = offers + 1 THEN "dropped"
                                      ELSE IF m \in Cut(g) THEN "cancelled" ELSE fate[m]]
  BY DEF Offer, PutsOffer, Mine, KnownBatch, Changed, Cut, KeptJobs, FreshBatch
<1>3. DOMAIN batches = Groups /\ \A h \in Groups : batches[h] = NoDelivery \/ batches[h] \in BatchRows
  BY DEF NoticesInv, NoticesTyped
<1>4. (\A h \in Groups : Limited(batches'[h])) /\ fate' \in [Notice -> Fates]
  <2>1. CASE Mark({offers + 1}, "dropped") /\ UNCHANGED << batches, jobs >>
    BY <2>1 DEF Mark, NoticesBounded, Fates, Limited
  <2>2. CASE PutsOffer(g, batches)
    BY <1>3, <2>2, PutsLimited DEF Cleared
  <2>3. CASE \E h \in idle : PutsOffer(g, [batches EXCEPT ![h] = NoDelivery])
    <3>1. PICK h \in idle : PutsOffer(g, [batches EXCEPT ![h] = NoDelivery])
      BY <2>3
    <3>2. Cleared(g, [batches EXCEPT ![h] = NoDelivery])
      BY <1>3 DEF Cleared
    <3>3. QED BY <3>1, <3>2, PutsLimited
  <2>4. CASE /\ batches' = [batches EXCEPT ![g] = NoDelivery]
             /\ fate' = [m \in Notice |-> IF m = offers + 1 THEN "dropped"
                                          ELSE IF m \in Cut(g) THEN "cancelled" ELSE fate[m]]
    BY <1>3, <2>4 DEF NoticesBounded, Fates, Limited
  <2>5. QED BY <1>2, <2>1, <2>2, <2>3, <2>4
<1>5. QED BY <1>1, <1>4 DEF NoticesBounded

LEMMA TakeLimited ==
  ASSUME NoticesInv, NoticesBounded, NEW g \in Groups, Take(g)
  PROVE  NoticesBounded'
<1> DEFINE b == batches[g]
           late == b.retry # NoText /\ b.lapsed
<1>1. b \in BatchRows /\ DOMAIN batches = Groups /\ Limited(b) /\ b # NoDelivery
  BY DEF Take, NoticesInv, NoticesTyped, NoticesBounded
<1>2. PICK k \in 0..Len(b.events), dropped \in BOOLEAN, lapsed \in BOOLEAN :
        batches' = [batches EXCEPT ![g] = [b EXCEPT !.sending = TRUE, !.due = FALSE, !.retry = NoText,
                                                    !.lapsed = lapsed, !.events = SubSeq(@, k + 1, Len(@)),
                                                    !.dropped = dropped]]
  <2>1. b.dropped \in BOOLEAN /\ b.lapsed \in BOOLEAN
    BY <1>1 DEF BatchRows
  <2>2. 0 \in 0..Len(b.events) /\ 1..Len(b.events) \subseteq 0..Len(b.events)
    BY <1>1 DEF BatchRows
  <2>3. QED BY <2>1, <2>2 DEF Take
<1> DEFINE c == [b EXCEPT !.sending = TRUE, !.due = FALSE, !.retry = NoText,
                          !.lapsed = lapsed, !.events = SubSeq(@, k + 1, Len(@)), !.dropped = dropped]
<1>3. c.key = b.key /\ c.events = SubSeq(b.events, k + 1, Len(b.events))
  BY <1>1 DEF BatchRows
<1>4. Len(SubSeq(b.events, k + 1, Len(b.events))) <= Len(b.events) /\ Len(b.events) \in Nat
  BY <1>1 DEF BatchRows
<1>5. batches' = [batches EXCEPT ![g] = c]
  BY <1>2
<1> HIDE DEF c
<1>6. Limited(c)
  <2>1. MaxWaiting \in Nat /\ Len(c.events) \in Nat
    BY <1>1, <1>3, NoticeAssumption DEF BatchRows
  <2>2. QED BY <1>1, <1>3, <1>4, <2>1 DEF Limited
<1>7. fate' \in [Notice -> Fates]
  BY DEF Take, NoticesBounded, Fates
<1>8. QED BY <1>1, <1>5, <1>6, <1>7 DEF Take, NoticesBounded, Limited

LEMMA JobLimited ==
  ASSUME NoticesInv, NoticesBounded, NEW j \in jobs, Check(j) \/ Send(j)
  PROVE  NoticesBounded'
<1>1. target' = target /\ stopped' = stopped /\ DOMAIN batches = Groups
      /\ \A g \in Groups : batches[g] = NoDelivery \/ batches[g] \in BatchRows
  BY DEF Check, Send, NoticesInv, NoticesTyped
<1>2. fate' \in [Notice -> Fates]
  BY DEF Check, Send, Mark, NoticesBounded, Fates
<1>3. ASSUME NEW g \in Groups PROVE Limited(batches'[g])
  <2>1. \/ batches'[g] = batches[g]
        \/ /\ batches[g] # NoDelivery
           /\ \E lapsed, text : batches'[g] = [batches[g] EXCEPT !.sending = FALSE, !.lapsed = lapsed]
                             \/ batches'[g] = [batches[g] EXCEPT !.sending = FALSE, !.retry = text]
                             \/ batches'[g] = [batches[g] EXCEPT !.sending = FALSE]
    <3>1. CASE batches' = batches
      BY <3>1
    <3>2. CASE /\ batches[j.group] # NoDelivery
               /\ \E lapsed, text :
                    \/ batches' = [batches EXCEPT ![j.group].sending = FALSE, ![j.group].lapsed = lapsed]
                    \/ batches' = [batches EXCEPT ![j.group].sending = FALSE, ![j.group].retry = text]
                    \/ batches' = [batches EXCEPT ![j.group].sending = FALSE]
      <4>1. CASE g = j.group
        BY <1>1, <3>2, <4>1
      <4>2. CASE g # j.group
        BY <1>1, <3>2, <4>2
      <4>3. QED BY <4>1, <4>2
    <3>3. CASE Check(j)
      <4>1. ~ j.orphan => batches[j.group] # NoDelivery
        BY DEF NoticesInv, JobSound
      <4>2. QED BY <3>1, <3>2, <3>3, <4>1 DEF Check, Settled
    <3>4. CASE Send(j)
      <4>1. \/ batches' = batches
            \/ /\ batches[j.group] # NoDelivery
               /\ \E lapsed : batches' = [batches EXCEPT ![j.group].sending = FALSE,
                                                        ![j.group].lapsed = lapsed]
        BY <3>4 DEF Send
      <4>2. QED BY <3>1, <3>2, <4>1
    <3>5. QED BY <3>3, <3>4
  <2>2. CASE batches'[g] = batches[g]
    BY <2>2 DEF NoticesBounded, Limited
  <2>3. CASE batches[g] # NoDelivery /\ batches'[g] # batches[g]
    <3>1. batches'[g].key = batches[g].key /\ batches'[g].events = batches[g].events
      BY <1>1, <2>1, <2>3 DEF BatchRows
    <3>2. QED BY <2>3, <3>1 DEF NoticesBounded, Limited
  <2>4. QED BY <2>1, <2>2, <2>3
<1>4. QED BY <1>1, <1>2, <1>3 DEF NoticesBounded

LEMMA NoticeStepBounded ==
  ASSUME NoticesInv, NoticesBounded, [NoticeNext]_noticeVars
  PROVE  NoticesBounded'
<1>1. /\ DOMAIN batches = Groups /\ \A g \in Groups : batches[g] = NoDelivery \/ batches[g] \in BatchRows
      /\ target \in [Groups -> [generation : Nat \ {0}, enabled : BOOLEAN]]
  BY DEF NoticesInv, NoticesTyped
<1>2. ASSUME NEW g \in Groups, Lapse(g) \/ ComesDue(g) \/ RetryLapses(g) PROVE NoticesBounded'
  <2>1. \A h \in Groups : \/ batches'[h] = batches[h]
                          \/ /\ batches[h] # NoDelivery /\ batches'[h].key = batches[h].key
                             /\ batches'[h].events = batches[h].events
    BY <1>1, <1>2 DEF Lapse, ComesDue, RetryLapses, BatchRows
  <2>2. fate' \in [Notice -> Fates] /\ target' = target /\ stopped' = stopped
    BY <1>2 DEF Lapse, ComesDue, RetryLapses, Mark, NoticesBounded, Fates
  <2>3. QED BY <2>1, <2>2 DEF NoticesBounded, Limited
<1>3. ASSUME NEW g \in Groups, RetireTarget(g) PROVE NoticesBounded'
  <2>1. \A h \in Groups : batches'[h] = batches[h] \/ batches'[h] = NoDelivery
    BY <1>1, <1>3 DEF RetireTarget, Cancel
  <2>2. fate' \in [Notice -> Fates] /\ stopped' = stopped
    BY <1>3 DEF RetireTarget, Cancel, Mark, NoticesBounded, Fates
  <2>3. ASSUME NEW h \in Groups PROVE target'[h].generation \in 1..(MaxTargets + 1)
    <3>1. \/ target'[h] = target[h]
          \/ target'[h] = [target[h] EXCEPT !.generation = @ + 1] /\ target[h].generation < MaxTargets
      BY <1>1, <1>3 DEF RetireTarget
    <3>2. target[h].generation \in 1..(MaxTargets + 1) /\ MaxTargets \in Nat
      BY NoticeAssumption DEF NoticesBounded
    <3>3. CASE target'[h] = [target[h] EXCEPT !.generation = @ + 1] /\ target[h].generation < MaxTargets
      <4>1. target'[h].generation = target[h].generation + 1
        BY <1>1, <3>3
      <4>2. QED BY <3>2, <3>3, <4>1
    <3>4. QED BY <3>1, <3>2, <3>3
  <2>4. QED BY <2>1, <2>2, <2>3 DEF NoticesBounded, Limited
<1>4. ASSUME NEW g \in Groups, DisableNotices(g) \/ EnableNotices(g) PROVE NoticesBounded'
  <2>1. \A h \in Groups : target'[h].generation = target[h].generation
    BY <1>1, <1>4 DEF DisableNotices, EnableNotices
  <2>2. UNCHANGED << batches, fate, stopped >>
    BY <1>4 DEF DisableNotices, EnableNotices
  <2>3. QED BY <2>1, <2>2 DEF NoticesBounded, Limited
<1>5. ASSUME NEW g \in Groups, CancelDisabled(g) PROVE NoticesBounded'
  <2>1. \A h \in Groups : batches'[h] = batches[h] \/ batches'[h] = NoDelivery
    BY <1>1, <1>5 DEF CancelDisabled, Cancel
  <2>2. fate' \in [Notice -> Fates] /\ target' = target /\ stopped' = stopped
    BY <1>5 DEF CancelDisabled, Cancel, Mark, NoticesBounded, Fates
  <2>3. QED BY <2>1, <2>2 DEF NoticesBounded, Limited
<1>6. CASE StopQueue
  <2>1. \A h \in Groups : batches'[h] = NoDelivery
    BY <1>6 DEF StopQueue
  <2>2. fate' \in [Notice -> Fates] /\ target' = target /\ stopped' = TRUE
    BY <1>6 DEF StopQueue, Mark, NoticesBounded, Fates
  <2>3. QED BY <2>1, <2>2 DEF NoticesBounded, Limited
<1>7. CASE UNCHANGED noticeVars
  BY <1>7 DEF noticeVars, NoticesBounded, Limited
<1>8. QED
  BY <1>2, <1>3, <1>4, <1>5, <1>6, <1>7, OfferLimited, TakeLimited, JobLimited
  DEF NoticeNext, NoticeWork, NoticeRun

LEMMA NoticeStartsBounded == ASSUME NoticeInit PROVE NoticesBounded
<1>1. 1 \in 1..(MaxTargets + 1)
  BY NoticeAssumption
<1>2. QED BY <1>1 DEF NoticeInit, NoticesBounded, Limited, Fates

LEMMA NoticeTypes == ASSUME NoticesInv, NoticesBounded PROVE NoticeTypeOK
<1>1. target \in [Groups -> [generation : 1..(MaxTargets + 1), enabled : BOOLEAN]]
  <2>1. \A g \in Groups : target[g] \in [generation : 1..(MaxTargets + 1), enabled : BOOLEAN]
    BY DEF NoticesInv, NoticesTyped, NoticesBounded
  <2>2. QED BY <2>1 DEF NoticesInv, NoticesTyped
<1>2. offers \in 0..MaxOffers
  BY NoticeAssumption DEF NoticesInv, NoticesTyped
<1>3. QED BY <1>1, <1>2 DEF NoticesBounded, Limited, NoticeTypeOK, Fates

\* Batches keep within their limit and are of a target there was, and the fate of each
\* notice is one of nine (feishu/notices.py).
THEOREM NoticeTypesHold == NoticeSpec => []NoticeTypeOK
<1>1. NoticeInit => NoticesInv /\ NoticesBounded
  BY NoticesInit, NoticeStartsBounded
<1>2. NoticesInv /\ NoticesBounded /\ [NoticeNext]_noticeVars => (NoticesInv /\ NoticesBounded)'
  BY NoticesNext, NoticeStepBounded
<1>3. NoticesInv /\ NoticesBounded => NoticeTypeOK
  BY NoticeTypes
<1>4. QED BY <1>1, <1>2, <1>3, PTL DEF NoticeSpec

-----------------------------------------------------------------------------
(***************************************************************************)
(* PersonalPanel and AuditDelegation.                                      *)
(***************************************************************************)
Requests == [at : {"idle", "listing", "loading", "loaded", "final", "answered"},
             kind : {"resources", "session"}, cookie : Tickets \cup {NoCookie},
             grants : SUBSET Bindings, left : SUBSET Bindings, now : SUBSET Bindings,
             proved : SUBSET Bindings, alive : BOOLEAN]
LoginRecords == [at : {"idle", "inspected", "cookied"}, cookie : Tickets \cup {NoCookie},
                 ticket : Tickets \cup {NoCookie}, mode : {"replace", "append"}]

PanelTypeOK ==
  /\ valid \in SUBSET Bindings
  /\ ticket \in [Tickets -> {"none", "live", "gone"}]
  /\ named \in [Tickets -> Bindings]
  /\ session \in [Tickets -> (SUBSET Bindings) \cup {NoSession}]
  /\ jar \in Tickets \cup {NoCookie}
  /\ tab \in [Tabs -> Requests]
  /\ login \in [Logins -> LoginRecords]
  /\ \A l \in Logins : login[l].at # "idle" => login[l].ticket \in Tickets
  /\ minted \in [Tickets -> {0, 1}]

\* A session comes from a ticket that is spent, and a ticket is spent once.
SpentOnce(k) ==
  /\ session[k] # NoSession => ticket[k] = "gone"
  /\ minted[k] = 1 => ticket[k] = "gone"

\* What a read under way relies on.
Attests(t) ==
  LET r == tab[t] IN
  /\ r.at # "idle" =>
       /\ valid \subseteq r.proved
       /\ r.cookie \in Tickets /\ ticket[r.cookie] = "gone"
       /\ ~r.alive => session[r.cookie] = NoSession
  /\ r.at = "listing" => r.alive /\ r.grants \subseteq r.proved
  /\ r.at = "final" => r.grants \ r.left \subseteq r.proved
  /\ r.at = "answered" => r.grants \subseteq r.proved /\ r.alive

PersonalInv ==
  /\ PanelTypeOK
  /\ \A k \in Tickets : SpentOnce(k)
  /\ \A t \in Tabs : Attests(t)

-------------------------------------------------------------------------------
LEMMA IdleTypes == NoRequest \in Requests /\ NoLogin \in LoginRecords
BY DEF NoRequest, Requests, NoLogin, LoginRecords

LEMMA InitPanelInv == PersonalPanelInit => PersonalInv
<1> SUFFICES ASSUME PersonalPanelInit PROVE PersonalInv
  OBVIOUS
<1>1. PanelTypeOK
  <2>1. NoLogin.at = "idle"
    BY DEF NoLogin
  <2> QED
    BY <2>1, IdleTypes DEF PersonalPanelInit, PanelTypeOK
<1> QED
  BY <1>1 DEF PersonalPanelInit, PersonalInv, SpentOnce, Attests, NoRequest

(* A step of one read, which concerns that read alone. *)
LEMMA TabStep ==
  ASSUME PersonalInv, NEW t \in Tabs, NEW r \in Requests, tab' = [tab EXCEPT ![t] = r], Unchanged,
         Attests(t)'
  PROVE  PersonalInv'
<1>1. PanelTypeOK'
  BY DEF PersonalInv, PanelTypeOK, Unchanged
<1>2. \A k \in Tickets : SpentOnce(k)'
  BY DEF PersonalInv, SpentOnce, Unchanged
<1>3. \A u \in Tabs : Attests(u)'
  BY DEF PersonalInv, PanelTypeOK, Attests, Unchanged
<1> QED
  BY <1>1, <1>2, <1>3 DEF PersonalInv

LEMMA DroppedPanelInv ==
  ASSUME PersonalInv, NEW t \in Tabs, Dropped(t), Unchanged PROVE PersonalInv'
<1>1. Attests(t)'
  BY DEF Dropped, Attests, NoRequest, PersonalInv, PanelTypeOK
<1> QED
  BY <1>1, IdleTypes, TabStep DEF Dropped

LEMMA BeginShowPanelInv ==
  ASSUME NEW t \in Tabs, NEW kind_ \in {"resources", "session"}
  PROVE  PersonalInv /\ BeginShow(t, kind_) => PersonalInv'
<1> SUFFICES ASSUME PersonalInv, BeginShow(t, kind_) PROVE PersonalInv'
  OBVIOUS
<1> DEFINE r == [NoRequest EXCEPT !.at = "listing", !.kind = kind_, !.cookie = jar,
                                  !.left = GrantsOf(jar), !.proved = valid, !.alive = TRUE]
<1>1. jar \in Tickets /\ session[jar] # NoSession /\ ticket[jar] = "gone"
  BY DEF BeginShow, Alive, PersonalInv, PanelTypeOK, SpentOnce
<1>2. GrantsOf(jar) \in SUBSET Bindings
  BY <1>1 DEF GrantsOf, PersonalInv, PanelTypeOK
<1>3. valid \in SUBSET Bindings
  BY DEF PersonalInv, PanelTypeOK
<1>4. r \in Requests
  BY <1>1, <1>2, <1>3, IdleTypes DEF Requests
<1>5. r.at = "listing" /\ r.cookie = jar /\ r.proved = valid /\ r.alive /\ r.grants = {}
  BY DEF NoRequest
<1>6. tab' = [tab EXCEPT ![t] = r] /\ Unchanged
  BY DEF BeginShow
<1>7. tab'[t] = r
  BY <1>6 DEF PersonalInv, PanelTypeOK
<1>8. Attests(t)'
  BY <1>1, <1>5, <1>6, <1>7 DEF Attests, Unchanged
<1> QED
  BY <1>4, <1>6, <1>8, TabStep

LEMMA ValidateListedPanelInv ==
  ASSUME NEW t \in Tabs PROVE PersonalInv /\ ValidateListed(t) => PersonalInv'
<1> SUFFICES ASSUME PersonalInv, ValidateListed(t) PROVE PersonalInv'
  OBVIOUS
<1>0. Attests(t) /\ tab[t] \in Requests /\ tab[t].at = "listing" /\ Unchanged
  BY DEF ValidateListed, At, PersonalInv, PanelTypeOK
<1>1. ASSUME NEW b \in tab[t].left,
             tab' = [tab EXCEPT ![t].left = @ \ {b}, ![t].grants = IF b \in valid THEN @ \cup {b} ELSE @]
      PROVE  PersonalInv'
  <2> DEFINE r == [tab[t] EXCEPT !.left = @ \ {b}, !.grants = IF b \in valid THEN @ \cup {b} ELSE @]
  <2>1. /\ r \in Requests /\ r.at = "listing" /\ r.cookie = tab[t].cookie
        /\ r.proved = tab[t].proved /\ r.alive = tab[t].alive
        /\ r.grants \subseteq tab[t].grants \cup valid
    BY <1>0 DEF Requests, PersonalInv, PanelTypeOK
  <2>2. tab' = [tab EXCEPT ![t] = r] /\ tab'[t] = r
    BY <1>0, <1>1 DEF PersonalInv, PanelTypeOK, Requests
  <2>3. Attests(t)'
    BY <1>0, <2>1, <2>2 DEF Attests, Unchanged
  <2> QED
    BY <1>0, <2>1, <2>2, <2>3, TabStep
<1>2. CASE Dropped(t)
  BY <1>0, <1>2, DroppedPanelInv
<1>3. ASSUME NEW at \in {"loading", "answered"},
             tab' = [tab EXCEPT ![t].at = at, ![t].left = tab[t].grants]
      PROVE  PersonalInv'
  <2> DEFINE r == [tab[t] EXCEPT !.at = at, !.left = tab[t].grants]
  <2>1. /\ r \in Requests /\ r.at = at /\ r.cookie = tab[t].cookie
        /\ r.proved = tab[t].proved /\ r.alive = tab[t].alive /\ r.grants = tab[t].grants
    BY <1>0 DEF Requests
  <2>2. tab' = [tab EXCEPT ![t] = r] /\ tab'[t] = r
    BY <1>0, <1>3 DEF PersonalInv, PanelTypeOK, Requests
  <2>3. Attests(t)'
    BY <1>0, <2>1, <2>2 DEF Attests, Unchanged
  <2> QED
    BY <1>0, <2>1, <2>2, <2>3, TabStep
<1> QED
  BY <1>1, <1>2, <1>3 DEF ValidateListed

LEMMA LoadPanelInv ==
  ASSUME NEW t \in Tabs, NEW b \in Bindings PROVE PersonalInv /\ Load(t, b) => PersonalInv'
<1> SUFFICES ASSUME PersonalInv, Load(t, b) PROVE PersonalInv'
  OBVIOUS
<1> DEFINE at == IF tab[t].kind = "resources" THEN "loaded" ELSE "loading"
           now == IF tab[t].kind = "resources" THEN {b} ELSE {}
           alive == Alive(tab[t].cookie)
           r == [tab[t] EXCEPT !.at = at, !.left = @ \ {b}, !.now = now,
                               !.proved = valid, !.alive = alive]
<1>0. Attests(t) /\ tab[t] \in Requests /\ tab[t].at = "loading" /\ Unchanged
  BY DEF Load, At, PersonalInv, PanelTypeOK
<1>1. /\ at \in {"loaded", "loading"} /\ now \in SUBSET Bindings
      /\ alive \in BOOLEAN /\ valid \in SUBSET Bindings
  BY DEF Alive, PersonalInv, PanelTypeOK
<1>2. alive = Alive(tab[t].cookie)
  OBVIOUS
<1>3. tab' = [tab EXCEPT ![t] = r]
  BY DEF Load
<1> HIDE DEF at, now, alive
<1>4. /\ r \in Requests /\ r.at = at /\ r.cookie = tab[t].cookie
      /\ r.proved = valid /\ r.alive = alive
  BY <1>0, <1>1 DEF Requests
<1> HIDE DEF r
<1>5. tab'[t] = r
  BY <1>3 DEF PersonalInv, PanelTypeOK
<1>6. Attests(t)'
  BY <1>0, <1>1, <1>2, <1>4, <1>5, PersonalPanelAssumption DEF Attests, Unchanged, Alive
<1> QED
  BY <1>0, <1>1, <1>3, <1>4, <1>5, <1>6, TabStep

LEMMA CheckLoadedPanelInv == ASSUME NEW t \in Tabs PROVE PersonalInv /\ CheckLoaded(t) => PersonalInv'
<1> SUFFICES ASSUME PersonalInv, CheckLoaded(t) PROVE PersonalInv'
  OBVIOUS
<1>0. Attests(t) /\ tab[t] \in Requests /\ tab[t].at = "loaded" /\ Unchanged
  BY DEF CheckLoaded, At, PersonalInv, PanelTypeOK
<1>1. CASE tab' = [tab EXCEPT ![t].at = "loading", ![t].now = {}]
  <2> DEFINE r == [tab[t] EXCEPT !.at = "loading", !.now = {}]
  <2>1. /\ r \in Requests /\ r.at = "loading" /\ r.cookie = tab[t].cookie /\ r.proved = tab[t].proved
        /\ r.alive = tab[t].alive /\ r.grants = tab[t].grants
    BY <1>0 DEF Requests
  <2>2. tab' = [tab EXCEPT ![t] = r] /\ tab'[t] = r
    BY <1>0, <1>1 DEF PersonalInv, PanelTypeOK, Requests
  <2>3. Attests(t)'
    BY <1>0, <2>1, <2>2, PersonalPanelAssumption DEF Attests, Unchanged, Alive
  <2> QED
    BY <1>0, <2>1, <2>2, <2>3, TabStep
<1>2. CASE Dropped(t)
  BY <1>0, <1>2, DroppedPanelInv
<1> QED
  BY <1>1, <1>2 DEF CheckLoaded

LEMMA EndLoadingPanelInv == ASSUME NEW t \in Tabs PROVE PersonalInv /\ EndLoading(t) => PersonalInv'
<1> SUFFICES ASSUME PersonalInv, EndLoading(t) PROVE PersonalInv'
  OBVIOUS
<1>0. Attests(t) /\ tab[t] \in Requests /\ tab[t].at = "loading" /\ Unchanged
  BY DEF EndLoading, At, PersonalInv, PanelTypeOK
<1>1. CASE tab' = [tab EXCEPT ![t].at = "final", ![t].left = tab[t].grants]
  <2> DEFINE r == [tab[t] EXCEPT !.at = "final", !.left = tab[t].grants]
  <2>1. /\ r \in Requests /\ r.at = "final" /\ r.left = tab[t].grants /\ r.cookie = tab[t].cookie /\ r.proved = tab[t].proved
        /\ r.alive = tab[t].alive /\ r.grants = tab[t].grants
    BY <1>0 DEF Requests
  <2>2. tab' = [tab EXCEPT ![t] = r] /\ tab'[t] = r
    BY <1>0, <1>1 DEF PersonalInv, PanelTypeOK, Requests
  <2>3. Attests(t)'
    BY <1>0, <2>1, <2>2, PersonalPanelAssumption DEF Attests, Unchanged, Alive
  <2> QED
    BY <1>0, <2>1, <2>2, <2>3, TabStep
<1> QED
  BY <1>1 DEF EndLoading

LEMMA CheckFinalPanelInv == ASSUME NEW t \in Tabs PROVE PersonalInv /\ CheckFinal(t) => PersonalInv'
<1> SUFFICES ASSUME PersonalInv, CheckFinal(t) PROVE PersonalInv'
  OBVIOUS
<1>0. Attests(t) /\ tab[t] \in Requests /\ tab[t].at = "final" /\ Unchanged
  BY DEF CheckFinal, At, PersonalInv, PanelTypeOK
<1>1. ASSUME NEW b \in tab[t].left, b \in valid, tab' = [tab EXCEPT ![t].left = @ \ {b}] PROVE PersonalInv'
  <2> DEFINE r == [tab[t] EXCEPT !.left = @ \ {b}]
  <2>1. /\ r \in Requests /\ r.at = "final" /\ r.left = tab[t].left \ {b} /\ r.cookie = tab[t].cookie /\ r.proved = tab[t].proved
        /\ r.alive = tab[t].alive /\ r.grants = tab[t].grants
    BY <1>0 DEF Requests
  <2>2. tab' = [tab EXCEPT ![t] = r] /\ tab'[t] = r
    BY <1>0, <1>1 DEF PersonalInv, PanelTypeOK, Requests
  <2>3. Attests(t)'
    BY <1>0, <1>1, <2>1, <2>2, PersonalPanelAssumption DEF Attests, Unchanged, Alive
  <2> QED
    BY <1>0, <2>1, <2>2, <2>3, TabStep
<1>2. CASE tab[t].left = {} /\ Alive(tab[t].cookie) /\ tab' = [tab EXCEPT ![t].at = "answered"]
  <2> DEFINE r == [tab[t] EXCEPT !.at = "answered"]
  <2>1. /\ r \in Requests /\ r.at = "answered" /\ r.cookie = tab[t].cookie /\ r.proved = tab[t].proved
        /\ r.alive = tab[t].alive /\ r.grants = tab[t].grants
    BY <1>0 DEF Requests
  <2>2. tab' = [tab EXCEPT ![t] = r] /\ tab'[t] = r
    BY <1>0, <1>2 DEF PersonalInv, PanelTypeOK, Requests
  <2>3. Attests(t)'
    BY <1>0, <1>2, <2>1, <2>2, PersonalPanelAssumption DEF Attests, Unchanged, Alive
  <2> QED
    BY <1>0, <2>1, <2>2, <2>3, TabStep
<1>3. CASE Dropped(t)
  BY <1>0, <1>3, DroppedPanelInv
<1> QED
  BY <1>1, <1>2, <1>3 DEF CheckFinal

LEMMA ReceivePanelInv == ASSUME NEW t \in Tabs PROVE PersonalInv /\ Receive(t) => PersonalInv'
BY DroppedPanelInv DEF Receive

-------------------------------------------------------------------------------
(* What is spent stays spent, and what a read relies on outlives any step that
   brings no binding back and revives no session of a spent ticket. *)
LEMMA AsidePanelInv ==
  ASSUME PersonalInv, PanelTypeOK', UNCHANGED << tab >>, valid' \subseteq valid,
         \A k \in Tickets : /\ ticket[k] = "gone" => ticket'[k] = "gone"
                            /\ ticket[k] = "gone" /\ session[k] = NoSession => session'[k] = NoSession
                            /\ SpentOnce(k)'
  PROVE  PersonalInv'
<1>1. \A t \in Tabs : Attests(t)'
  BY DEF PersonalInv, Attests
<1> QED
  BY <1>1 DEF PersonalInv

LEMMA IssueLinkPanelInv == ASSUME NEW k \in Tickets PROVE PersonalInv /\ IssueLink(k) => PersonalInv'
<1> SUFFICES ASSUME PersonalInv, IssueLink(k) PROVE PersonalInv'
  OBVIOUS
<1>1. PanelTypeOK'
  BY DEF IssueLink, PersonalInv, PanelTypeOK
<1>2. \A l \in Tickets : SpentOnce(l)' /\ (ticket[l] = "gone" => ticket'[l] = "gone")
  BY DEF IssueLink, PersonalInv, PanelTypeOK, SpentOnce
<1> QED
  BY <1>1, <1>2, AsidePanelInv DEF IssueLink

LEMMA LapseTicketPanelInv == ASSUME NEW k \in Tickets PROVE PersonalInv /\ LapseTicket(k) => PersonalInv'
<1> SUFFICES ASSUME PersonalInv, LapseTicket(k) PROVE PersonalInv'
  OBVIOUS
<1>1. PanelTypeOK'
  BY DEF LapseTicket, PersonalInv, PanelTypeOK
<1>2. \A l \in Tickets : /\ SpentOnce(l)' /\ (ticket[l] = "gone" => ticket'[l] = "gone")
                         /\ session[l] = NoSession => session'[l] = NoSession
  BY DEF LapseTicket, PersonalInv, PanelTypeOK, SpentOnce
<1> QED
  BY <1>1, <1>2, AsidePanelInv DEF LapseTicket

LEMMA LogoutPanelInv == PersonalInv /\ Logout => PersonalInv'
<1> SUFFICES ASSUME PersonalInv, Logout PROVE PersonalInv'
  OBVIOUS
<1>1. PanelTypeOK'
  BY DEF Logout, PersonalInv, PanelTypeOK
<1>2. \A l \in Tickets : SpentOnce(l)' /\ (session[l] = NoSession => session'[l] = NoSession)
  BY DEF Logout, PersonalInv, PanelTypeOK, SpentOnce
<1> QED
  BY <1>1, <1>2, AsidePanelInv DEF Logout

LEMMA InspectTicketPanelInv ==
  ASSUME NEW l \in Logins, NEW k \in Tickets, NEW c \in Tickets \cup {NoCookie},
         NEW m \in {"replace", "append"}
  PROVE  PersonalInv /\ InspectTicket(l, k, c, m) => PersonalInv'
<1> SUFFICES ASSUME PersonalInv, InspectTicket(l, k, c, m) PROVE PersonalInv'
  OBVIOUS
<1>1. login' \in [Logins -> LoginRecords]
  BY DEF InspectTicket, PersonalInv, PanelTypeOK, LoginRecords
<1>2. \A i \in Logins : login'[i].at # "idle" => login'[i].ticket \in Tickets
  BY DEF InspectTicket, PersonalInv, PanelTypeOK
<1>3. PanelTypeOK'
  BY <1>1, <1>2 DEF InspectTicket, PersonalInv, PanelTypeOK
<1>4. \A i \in Tickets : SpentOnce(i)'
  BY DEF InspectTicket, PersonalInv, SpentOnce
<1> QED
  BY <1>3, <1>4, AsidePanelInv DEF InspectTicket

LEMMA ConsumeTicketPanelInv == ASSUME NEW l \in Logins PROVE PersonalInv /\ ConsumeTicket(l) => PersonalInv'
<1> SUFFICES ASSUME PersonalInv, ConsumeTicket(l) PROVE PersonalInv'
  OBVIOUS
<1> DEFINE k == login[l].ticket
<1>1. k \in Tickets /\ login[l] \in LoginRecords
  BY DEF ConsumeTicket, PersonalInv, PanelTypeOK
<1>2. CASE Consumable(l)
  <2>1. /\ ticket' = [ticket EXCEPT ![k] = "gone"]
        /\ session' = [[c \in Tickets |-> IF c = login[l].cookie THEN NoSession ELSE session[c]]
                          EXCEPT ![k] = KeptGrants(l) \cup {named[k]}]
        /\ minted' = [minted EXCEPT ![k] = @ + 1]
        /\ login' = [login EXCEPT ![l].at = "cookied"]
        /\ UNCHANGED << valid, named, jar, tab >> /\ ticket[k] = "live"
    BY <1>2 DEF ConsumeTicket, Consumable
  <2>2. KeptGrants(l) \cup {named[k]} \in SUBSET Bindings
    BY <1>1 DEF KeptGrants, GrantsOf, Alive, PersonalInv, PanelTypeOK, LoginRecords
  <2>3. session' \in [Tickets -> (SUBSET Bindings) \cup {NoSession}]
    BY <2>1, <2>2 DEF PersonalInv, PanelTypeOK
  <2>4. minted[k] = 0
    BY <1>1, <2>1 DEF PersonalInv, PanelTypeOK, SpentOnce
  <2>5. minted' \in [Tickets -> {0, 1}]
    BY <1>1, <2>1, <2>4 DEF PersonalInv, PanelTypeOK
  <2>6. login' \in [Logins -> LoginRecords] /\ \A i \in Logins : login'[i].ticket = login[i].ticket
    BY <1>1, <2>1 DEF PersonalInv, PanelTypeOK, LoginRecords
  <2>7. \A i \in Logins : login'[i].at # "idle" => login'[i].ticket \in Tickets
    BY <1>1, <2>1, <2>6 DEF PersonalInv, PanelTypeOK
  <2>8. PanelTypeOK'
    BY <2>1, <2>3, <2>5, <2>6, <2>7 DEF PersonalInv, PanelTypeOK
  <2>9. \A i \in Tickets : /\ SpentOnce(i)' /\ (ticket[i] = "gone" => ticket'[i] = "gone")
                           /\ ticket[i] = "gone" /\ session[i] = NoSession => session'[i] = NoSession
    BY <1>1, <2>1 DEF PersonalInv, PanelTypeOK, SpentOnce
  <2> QED
    BY <2>1, <2>8, <2>9, AsidePanelInv
<1>3. CASE ~Consumable(l)
  <2>1. login' = [login EXCEPT ![l] = NoLogin]
        /\ UNCHANGED << valid, ticket, named, session, jar, tab, minted >>
    BY <1>3 DEF ConsumeTicket
  <2>2. PanelTypeOK'
    BY <2>1, IdleTypes DEF PersonalInv, PanelTypeOK, NoLogin
  <2> QED
    BY <2>1, <2>2, AsidePanelInv DEF PersonalInv, SpentOnce
<1> QED
  BY <1>2, <1>3

LEMMA ReceiveCookiePanelInv == ASSUME NEW l \in Logins PROVE PersonalInv /\ ReceiveCookie(l) => PersonalInv'
<1> SUFFICES ASSUME PersonalInv, ReceiveCookie(l) PROVE PersonalInv'
  OBVIOUS
<1>1. PanelTypeOK'
  BY IdleTypes DEF ReceiveCookie, PersonalInv, PanelTypeOK, NoLogin
<1> QED
  BY <1>1, AsidePanelInv DEF ReceiveCookie, PersonalInv, SpentOnce

LEMMA LoseBindingPanelInv == ASSUME NEW b \in Bindings PROVE PersonalInv /\ LoseBinding(b) => PersonalInv'
<1> SUFFICES ASSUME PersonalInv, LoseBinding(b) PROVE PersonalInv'
  OBVIOUS
<1>1. PanelTypeOK'
  BY DEF LoseBinding, PersonalInv, PanelTypeOK
<1> QED
  BY <1>1, AsidePanelInv DEF LoseBinding, PersonalInv, SpentOnce

LEMMA RegainBindingPanelInv == ASSUME NEW b \in Bindings PROVE PersonalInv /\ RegainBinding(b) => PersonalInv'
<1> SUFFICES ASSUME PersonalInv, RegainBinding(b) PROVE PersonalInv'
  OBVIOUS
<1> DEFINE r(t) == [tab[t] EXCEPT !.proved = @ \cup {b}]
<1>1. ASSUME NEW t \in Tabs PROVE tab'[t] \in Requests /\ Attests(t)'
  <2>1. Attests(t) /\ tab[t] \in Requests
    BY DEF PersonalInv, PanelTypeOK
  <2>2. CASE tab[t].at = "idle"
    BY <2>1, <2>2 DEF RegainBinding, At, Attests
  <2>3. CASE tab[t].at # "idle"
    <3>1. tab'[t] = r(t)
      BY <2>3 DEF RegainBinding, At
    <3>2. /\ r(t) \in Requests /\ r(t).proved = tab[t].proved \cup {b}
          /\ r(t).at = tab[t].at /\ r(t).cookie = tab[t].cookie /\ r(t).alive = tab[t].alive
          /\ r(t).grants = tab[t].grants /\ r(t).left = tab[t].left
      BY <2>1 DEF Requests
    <3> QED
      BY <2>1, <3>1, <3>2 DEF RegainBinding, Attests
  <2> QED
    BY <2>2, <2>3
<1>2. PanelTypeOK'
  BY <1>1 DEF RegainBinding, PersonalInv, PanelTypeOK
<1>3. \A k \in Tickets : SpentOnce(k)'
  BY DEF RegainBinding, PersonalInv, SpentOnce
<1> QED
  BY <1>1, <1>2, <1>3 DEF PersonalInv

LEMMA StepPanelInv == PersonalInv /\ [PersonalPanelNext]_personalVars => PersonalInv'
<1> SUFFICES ASSUME PersonalInv, [PersonalPanelNext]_personalVars PROVE PersonalInv'
  OBVIOUS
<1>1. CASE Logout
  BY <1>1, LogoutPanelInv
<1>2. ASSUME NEW k \in Tickets, IssueLink(k) \/ LapseTicket(k) PROVE PersonalInv'
  BY <1>2, IssueLinkPanelInv, LapseTicketPanelInv
<1>3. ASSUME NEW k \in Tickets, NEW l \in Logins, NEW c \in {jar, NoCookie},
             NEW m \in {"replace", "append"}, InspectTicket(l, k, c, m)
      PROVE  PersonalInv'
  <2>1. c \in Tickets \cup {NoCookie}
    BY DEF PersonalInv, PanelTypeOK
  <2> QED
    BY <1>3, <2>1, InspectTicketPanelInv
<1>4. ASSUME NEW l \in Logins, ConsumeTicket(l) \/ ReceiveCookie(l) PROVE PersonalInv'
  BY <1>4, ConsumeTicketPanelInv, ReceiveCookiePanelInv
<1>5. ASSUME NEW t \in Tabs, NEW kind_ \in {"resources", "session"}, BeginShow(t, kind_) PROVE PersonalInv'
  BY <1>5, BeginShowPanelInv
<1>6. ASSUME NEW t \in Tabs,
             \/ ValidateListed(t) \/ CheckLoaded(t) \/ EndLoading(t) \/ CheckFinal(t) \/ Receive(t)
             \/ \E b \in Bindings : Load(t, b)
      PROVE  PersonalInv'
  BY <1>6, ValidateListedPanelInv, CheckLoadedPanelInv, EndLoadingPanelInv, CheckFinalPanelInv,
     ReceivePanelInv, LoadPanelInv
<1>7. ASSUME NEW b \in Bindings, LoseBinding(b) \/ RegainBinding(b) PROVE PersonalInv'
  BY <1>7, LoseBindingPanelInv, RegainBindingPanelInv
<1>8. CASE UNCHANGED personalVars
  BY <1>8 DEF personalVars, PersonalInv, PanelTypeOK, SpentOnce, Attests
<1> QED
  BY <1>1, <1>2, <1>3, <1>4, <1>5, <1>6, <1>7, <1>8 DEF PersonalPanelNext

(* PageIsCurrent: however many tabs, logins, revocations and sign-outs there
   are, what a browser is shown is of bindings that were good, in a session that
   was open, when the slowest of the reports was in or later; and a link makes
   one session (personal_panel/router.py: resources, session; sessions.py). *)
THEOREM PageIsCurrent == PersonalPanelSpec => []ShownIsCurrent
<1>1. PersonalPanelInit => PersonalInv
  BY InitPanelInv
<1>2. PersonalInv /\ [PersonalPanelNext]_personalVars => PersonalInv'
  BY StepPanelInv
<1>3. PersonalInv => ShownIsCurrent
  <2> SUFFICES ASSUME PersonalInv PROVE ShownIsCurrent
    OBVIOUS
  <2>1. \A t \in Tabs : At(t, "answered") => tab[t].grants \subseteq tab[t].proved /\ tab[t].alive
    BY DEF PersonalInv, Attests, At
  <2>2. \A k \in Tickets : minted[k] <= 1
    BY DEF PersonalInv, PanelTypeOK
  <2> QED
    BY <2>1, <2>2 DEF ShownIsCurrent
<1> QED
  BY <1>1, <1>2, <1>3, PTL DEF PersonalPanelSpec

\* A session has one to MaxGrants grants.
SessionsBounded ==
  \A k \in Tickets : session[k] # NoSession =>
    IsFiniteSet(session[k]) /\ session[k] # {} /\ Cardinality(session[k]) <= MaxGrants

LEMMA SessionStepBounded ==
  ASSUME PersonalInv, SessionsBounded, [PersonalPanelNext]_personalVars PROVE SessionsBounded'
<1>1. ASSUME NEW l \in Logins, ConsumeTicket(l) PROVE SessionsBounded'
  <2> DEFINE k == login[l].ticket
             all == KeptGrants(l) \cup {named[k]}
             closed == [c \in Tickets |-> IF c = login[l].cookie THEN NoSession ELSE session[c]]
  <2>1. CASE ~ Consumable(l)
    BY <1>1, <2>1 DEF ConsumeTicket, SessionsBounded
  <2>2. CASE Consumable(l)
    <3>1. session' = [closed EXCEPT ![k] = all] /\ Cardinality(all) <= MaxGrants
      BY <1>1, <2>2 DEF ConsumeTicket, Consumable
    <3>2. IsFiniteSet(KeptGrants(l))
      <4>1. KeptGrants(l) = {} \/ (Alive(login[l].cookie) /\ KeptGrants(l) = session[login[l].cookie])
        BY DEF KeptGrants, GrantsOf
      <4>2. Alive(login[l].cookie) => login[l].cookie \in Tickets
        BY DEF Alive, PersonalInv, PanelTypeOK, LoginRecords
      <4>3. QED BY <4>1, <4>2, FS_EmptySet DEF Alive, SessionsBounded
    <3>3. IsFiniteSet(all) /\ all # {}
      BY <3>2, FS_AddElement
    <3> HIDE DEF all
    <3>4. QED BY <3>1, <3>3 DEF SessionsBounded
  <2>3. QED BY <2>1, <2>2
<1>2. CASE Logout
  BY <1>2 DEF Logout, SessionsBounded
<1>3. ASSUME NEW k \in Tickets, LapseTicket(k) PROVE SessionsBounded'
  <2>1. CASE UNCHANGED session
    BY <2>1 DEF SessionsBounded
  <2>2. CASE session' = [session EXCEPT ![k] = NoSession]
    <3>1. \A j \in Tickets : session'[j] = NoSession \/ session'[j] = session[j]
      BY <2>2 DEF PersonalInv, PanelTypeOK
    <3>2. QED BY <3>1 DEF SessionsBounded
  <2>3. QED BY <1>3, <2>1, <2>2 DEF LapseTicket
<1>4. ASSUME UNCHANGED session PROVE SessionsBounded'
  BY <1>4 DEF SessionsBounded
<1>5. ASSUME NEW k \in Tickets,
             IssueLink(k) \/ \E l \in Logins, cookie \in {jar, NoCookie}, mode \in {"replace", "append"} :
                               InspectTicket(l, k, cookie, mode)
      PROVE  UNCHANGED session
  BY <1>5 DEF IssueLink, InspectTicket
<1>6. ASSUME NEW l \in Logins, ReceiveCookie(l) PROVE UNCHANGED session
  BY <1>6 DEF ReceiveCookie
<1>7. ASSUME NEW t \in Tabs,
             \/ \E kind_ \in {"resources", "session"} : BeginShow(t, kind_)
             \/ ValidateListed(t) \/ CheckLoaded(t) \/ EndLoading(t) \/ CheckFinal(t) \/ Receive(t)
             \/ \E b \in Bindings : Load(t, b)
      PROVE  UNCHANGED session
  BY <1>7 DEF BeginShow, ValidateListed, CheckLoaded, EndLoading, CheckFinal, Receive, Load, Unchanged
<1>8. ASSUME NEW b \in Bindings, LoseBinding(b) \/ RegainBinding(b) PROVE UNCHANGED session
  BY <1>8 DEF LoseBinding, RegainBinding
<1>9. CASE UNCHANGED personalVars
  BY <1>4, <1>9 DEF personalVars
<1>10. QED
  BY <1>1, <1>2, <1>3, <1>4, <1>5, <1>6, <1>7, <1>8, <1>9 DEF PersonalPanelNext

LEMMA SessionsStartBounded == ASSUME PersonalPanelInit PROVE SessionsBounded
BY DEF PersonalPanelInit, SessionsBounded

LEMMA PersonalTypes == ASSUME PersonalInv, SessionsBounded PROVE PersonalPanelTypeOK
<1>1. ASSUME NEW k \in Tickets, session[k] # NoSession PROVE Cardinality(session[k]) \in 1..MaxGrants
  <2>1. IsFiniteSet(session[k]) /\ session[k] # {} /\ Cardinality(session[k]) <= MaxGrants
    BY <1>1 DEF SessionsBounded
  <2>2. Cardinality(session[k]) \in Nat /\ Cardinality(session[k]) # 0
    BY <2>1, FS_CardinalityType, FS_EmptySet
  <2>3. QED BY <2>1, <2>2, PersonalPanelAssumption
<1>2. \A t \in Tabs : tab[t].left \cup tab[t].grants \cup tab[t].proved \subseteq Bindings
  BY DEF PersonalInv, PanelTypeOK, Requests
<1>3. QED BY <1>1, <1>2 DEF PersonalInv, PanelTypeOK, PersonalPanelTypeOK

\* Tickets, sessions and requests have their types, and a session has one grant to
\* MaxGrants (personal_panel/sessions.py: consume).
THEOREM PersonalTypesHold == PersonalPanelSpec => []PersonalPanelTypeOK
<1>1. PersonalPanelInit => PersonalInv /\ SessionsBounded
  BY InitPanelInv, SessionsStartBounded
<1>2. PersonalInv /\ SessionsBounded /\ [PersonalPanelNext]_personalVars => (PersonalInv /\ SessionsBounded)'
  BY StepPanelInv, SessionStepBounded
<1>3. PersonalInv /\ SessionsBounded => PersonalPanelTypeOK
  BY PersonalTypes
<1>4. QED BY <1>1, <1>2, <1>3, PTL DEF PersonalPanelSpec

-------------------------------------------------------------------------------
(* Delegated task notes. *)

ReaderRows == [at : {"idle", "allowed", "holding", "guarded", "recorded"}, grant : Grants \cup {NoGrant},
               token : Nat, generation : Nat, notes : Nat]

AuditTypeOK ==
  /\ grant \in [Grants -> GrantRows \cup {NoGrant}]
  /\ issuer \in [version : Nat, super : BOOLEAN] /\ identity \in Nat
  /\ readers \in [Readers -> ReaderRows]
  /\ \A k \in DOMAIN summary : summary[k] \in Nat
  /\ \A k \in DOMAIN disclosed : disclosed[k] \in Nat

\* A scope is the identity that the bot had once.
PastScope(g) == grant[g] # NoGrant => grant[g].scope <= identity

\* What a reader that is at its notes relies on: as long as the credential is of
\* the generation it was authorized with, the notes are not older than its scope.
Carries(r) ==
  LET c == readers[r] IN
  c.at # "idle" =>
    /\ c.grant \in Grants /\ grant[c.grant] # NoGrant
    /\ c.generation <= grant[c.grant].generation
    /\ c.at # "allowed" /\ c.generation = grant[c.grant].generation =>
         grant[c.grant].scope <= c.notes /\ c.notes <= identity

\* The guard is held from the second authorization to the answer.
Guarded(r) ==
  readers[r].at \in {"guarded", "recorded"} =>
    guard = r /\ readers[r].generation = grant[readers[r].grant].generation

\* The summary row that a credential's reads go to.
RowOfGrant(g) ==
  [grant |-> g, generation |-> grant[g].generation, identity |-> grant[g].scope,
   version |-> grant[g].version, action |-> "read"]

OnRecord(k) == Tally(disclosed, k) <= Tally(summary, k)

\* A row was committed for the answer that is about to leave.
Reserved(r) ==
  readers[r].at = "recorded" =>
    LET k == RowOfGrant(readers[r].grant) IN Tally(disclosed, k) + 1 <= Tally(summary, k)

AuditInv ==
  /\ AuditTypeOK
  /\ \A g \in Grants : PastScope(g)
  /\ \A r \in Readers : Carries(r) /\ Guarded(r) /\ Reserved(r)
  /\ \A k : OnRecord(k)

(* A tally counts, and counts one key at a time. *)
LEMMA TallyNat ==
  ASSUME NEW f, \A x \in DOMAIN f : f[x] \in Nat, NEW k PROVE Tally(f, k) \in Nat
BY DEF Tally

LEMMA CountedTally ==
  ASSUME NEW f, \A x \in DOMAIN f : f[x] \in Nat, NEW k
  PROVE  /\ \A x \in DOMAIN Counted(f, k) : Counted(f, k)[x] \in Nat
         /\ Tally(Counted(f, k), k) = Tally(f, k) + 1
         /\ \A x : x # k => Tally(Counted(f, k), x) = Tally(f, x)
<1>1. DOMAIN Counted(f, k) = DOMAIN f \cup {k}
  BY DEF Counted
<1>2. \A x \in DOMAIN f \cup {k} : Counted(f, k)[x] = Tally(f, x) + IF x = k THEN 1 ELSE 0
  BY DEF Counted
<1>3. \A x : Tally(f, x) \in Nat
  BY DEF Tally
<1>4. \A x \in DOMAIN Counted(f, k) : Counted(f, k)[x] \in Nat
  BY <1>1, <1>2, <1>3
<1>5. Tally(Counted(f, k), k) = Tally(f, k) + 1
  BY <1>1, <1>2, <1>3 DEF Tally
<1>6. ASSUME NEW x, x # k PROVE Tally(Counted(f, k), x) = Tally(f, x)
  <2>1. CASE x \in DOMAIN f
    <3>1. Tally(Counted(f, k), x) = Counted(f, k)[x]
      BY <1>1, <2>1 DEF Tally
    <3>2. Counted(f, k)[x] = Tally(f, x) + 0
      BY <1>2, <1>6, <2>1
    <3> QED
      BY <1>3, <3>1, <3>2
  <2>2. CASE x \notin DOMAIN f
    BY <1>1, <1>6, <2>2 DEF Tally
  <2> QED
    BY <2>1, <2>2
<1> QED
  BY <1>4, <1>5, <1>6

LEMMA OffType == Off \in ReaderRows /\ Off.at = "idle"
BY DEF Off, ReaderRows

LEMMA InitAuditInv == AuditDelegationInit => AuditInv
<1> SUFFICES ASSUME AuditDelegationInit PROVE AuditInv
  OBVIOUS
<1>1. AuditTypeOK
  BY OffType DEF AuditDelegationInit, AuditTypeOK
<1>2. \A k : Tally(disclosed, k) = 0 /\ Tally(summary, k) = 0
  BY DEF AuditDelegationInit, Tally
<1> QED
  BY <1>1, <1>2, OffType DEF AuditDelegationInit, AuditInv, PastScope, Carries, Guarded, Reserved, OnRecord
(* Management: the guard is free, so nobody is between record and answer, and
   whoever was authorized with the old generation is not of the new one. *)
LEMMA Managed ==
  ASSUME AuditInv, guard = NoReader, NEW g \in Grants, NEW entry \in GrantRows,
         grant' = [grant EXCEPT ![g] = entry], entry.scope <= identity,
         grant[g] # NoGrant => grant[g].generation < entry.generation,
         UNCHANGED << issuer, identity, guard, readHits, summary, readers, disclosed >>
  PROVE  AuditInv'
<1>1. grant'[g] = entry /\ entry # NoGrant /\ \A h \in Grants \ {g} : grant'[h] = grant[h]
  BY AuditDelegationAssumption DEF AuditInv, AuditTypeOK
<1>2. AuditTypeOK'
  BY DEF AuditInv, AuditTypeOK
<1>3. \A h \in Grants : PastScope(h)'
  BY <1>1 DEF AuditInv, PastScope
<1>4. ASSUME NEW r \in Readers PROVE Carries(r)' /\ Guarded(r)' /\ Reserved(r)'
  <2>1. readers[r].at \notin {"guarded", "recorded"}
    BY AuditDelegationAssumption DEF AuditInv, Guarded
  <2>2. Carries(r) /\ readers[r] \in ReaderRows
    BY DEF AuditInv, AuditTypeOK
  <2>3. Carries(r)'
    <3>1. CASE readers[r].grant = g
      <4>1. readers[r].at # "idle" => readers[r].generation < entry.generation /\ entry.generation \in Nat
        BY <2>2, <3>1 DEF Carries, AuditInv, AuditTypeOK, GrantRows, ReaderRows
      <4> QED
        BY <1>1, <2>2, <3>1, <4>1 DEF Carries, ReaderRows, GrantRows
    <3>2. CASE readers[r].grant # g
      BY <1>1, <2>2, <3>2 DEF Carries
    <3> QED
      BY <3>1, <3>2
  <2> QED
    BY <2>1, <2>3 DEF Guarded, Reserved
<1>5. \A k : OnRecord(k)'
  BY DEF AuditInv, OnRecord
<1> QED
  BY <1>2, <1>3, <1>4, <1>5 DEF AuditInv

LEMMA CreateGrantAuditInv == ASSUME NEW g \in Grants PROVE AuditInv /\ CreateGrant(g) => AuditInv'
<1> SUFFICES ASSUME AuditInv, CreateGrant(g) PROVE AuditInv'
  OBVIOUS
<1> DEFINE entry == [generation |-> 1, token |-> 1, live |-> TRUE, revoked |-> FALSE,
                   version |-> issuer.version, scope |-> identity]
<1>1. entry \in GrantRows /\ entry.scope <= identity
  BY DEF AuditInv, AuditTypeOK, GrantRows
<1> QED
  BY <1>1, Managed DEF CreateGrant

LEMMA RotateGrantAuditInv == ASSUME NEW g \in Grants PROVE AuditInv /\ RotateGrant(g) => AuditInv'
<1> SUFFICES ASSUME AuditInv, RotateGrant(g) PROVE AuditInv'
  OBVIOUS
<1> DEFINE entry == [generation |-> grant[g].generation + 1, token |-> grant[g].token + 1, live |-> TRUE,
                   revoked |-> FALSE, version |-> issuer.version, scope |-> identity]
<1>1. grant[g] \in GrantRows
  BY DEF RotateGrant, AuditInv, AuditTypeOK
<1>2. entry \in GrantRows /\ entry.scope <= identity /\ grant[g].generation < entry.generation
  BY <1>1 DEF AuditInv, AuditTypeOK, GrantRows
<1>3. grant' = [grant EXCEPT ![g] = entry]
  BY DEF RotateGrant, AuditInv, AuditTypeOK
<1> QED
  BY <1>2, <1>3, Managed DEF RotateGrant

LEMMA RevokeGrantAuditInv == ASSUME NEW g \in Grants PROVE AuditInv /\ RevokeGrant(g) => AuditInv'
<1> SUFFICES ASSUME AuditInv, RevokeGrant(g) PROVE AuditInv'
  OBVIOUS
<1> DEFINE entry == [generation |-> grant[g].generation + 1, token |-> grant[g].token, live |-> FALSE,
                   revoked |-> TRUE, version |-> grant[g].version, scope |-> grant[g].scope]
<1>1. grant[g] \in GrantRows /\ grant[g].scope <= identity
  BY DEF RevokeGrant, AuditInv, AuditTypeOK, PastScope
<1>2. entry \in GrantRows /\ entry.scope <= identity /\ grant[g].generation < entry.generation
  BY <1>1 DEF GrantRows
<1>3. grant' = [grant EXCEPT ![g] = entry]
  BY <1>1 DEF RevokeGrant, AuditInv, AuditTypeOK, GrantRows
<1> QED
  BY <1>2, <1>3, Managed DEF RevokeGrant

(* What does not take the guard changes neither generations nor scopes. *)
LEMMA GrantExpiresAuditInv == ASSUME NEW g \in Grants PROVE AuditInv /\ GrantExpires(g) => AuditInv'
<1> SUFFICES ASSUME AuditInv, GrantExpires(g) PROVE AuditInv'
  OBVIOUS
<1> DEFINE entry == [grant[g] EXCEPT !.live = FALSE]
<1>1. grant[g] \in GrantRows
  BY DEF GrantExpires, Active, AuditInv, AuditTypeOK
<1>2. /\ entry \in GrantRows /\ entry # NoGrant /\ entry.generation = grant[g].generation
      /\ entry.scope = grant[g].scope /\ entry.version = grant[g].version
  BY <1>1, AuditDelegationAssumption DEF GrantRows
<1>3. grant' = [grant EXCEPT ![g] = entry] /\ grant'[g] = entry /\ \A h \in Grants \ {g} : grant'[h] = grant[h]
  BY DEF GrantExpires, AuditInv, AuditTypeOK
<1>4. \A h \in Grants :
        /\ grant'[h] # NoGrant <=> grant[h] # NoGrant
        /\ grant'[h].generation = grant[h].generation
        /\ grant'[h].scope = grant[h].scope /\ grant'[h].version = grant[h].version
  BY <1>2, <1>3, AuditDelegationAssumption DEF GrantExpires, Active
<1>5. AuditTypeOK'
  BY <1>2, <1>3 DEF GrantExpires, AuditInv, AuditTypeOK
<1>6. \A h \in Grants : PastScope(h)'
  BY <1>4 DEF GrantExpires, AuditInv, PastScope
<1>7. \A r \in Readers : Carries(r)' /\ Guarded(r)' /\ Reserved(r)'
  <2> SUFFICES ASSUME NEW r \in Readers PROVE Carries(r)' /\ Guarded(r)' /\ Reserved(r)'
    OBVIOUS
  <2>1. Carries(r) /\ Guarded(r) /\ Reserved(r)
    BY DEF AuditInv
  <2>2. UNCHANGED << issuer, identity, guard, readers, summary, disclosed >>
    BY DEF GrantExpires
  <2>3. Carries(r)' /\ Guarded(r)'
    BY <1>4, <2>1, <2>2 DEF Carries, Guarded
  <2>4. readers[r].at = "recorded" => RowOfGrant(readers[r].grant)' = RowOfGrant(readers[r].grant)
    BY <1>4, <2>1, <2>2 DEF Carries, RowOfGrant
  <2>5. Reserved(r)'
    BY <2>1, <2>2, <2>4 DEF Reserved
  <2> QED
    BY <2>3, <2>5
<1>8. \A k : OnRecord(k)'
  BY DEF GrantExpires, AuditInv, OnRecord
<1> QED
  BY <1>5, <1>6, <1>7, <1>8 DEF AuditInv

LEMMA WorldAuditInv ==
  AuditInv /\ (IssuerChanges \/ BotChangesHands \/ BudgetRenews \/ UNCHANGED adVars) => AuditInv'
<1> SUFFICES ASSUME AuditInv, IssuerChanges \/ BotChangesHands \/ BudgetRenews \/ UNCHANGED adVars
             PROVE  AuditInv'
  OBVIOUS
<1>1. UNCHANGED << grant, guard, summary, readers, disclosed >>
  BY DEF IssuerChanges, BotChangesHands, BudgetRenews, worldVars, adVars
<1>2. identity \in Nat /\ identity' \in Nat /\ identity <= identity'
  BY DEF IssuerChanges, BotChangesHands, BudgetRenews, worldVars, adVars, AuditInv, AuditTypeOK
<1>3. issuer' \in [version : Nat, super : BOOLEAN]
  BY DEF IssuerChanges, BotChangesHands, BudgetRenews, worldVars, adVars, AuditInv, AuditTypeOK
<1>4. AuditTypeOK'
  BY <1>1, <1>2, <1>3 DEF AuditInv, AuditTypeOK
<1>5. \A g \in Grants : PastScope(g)'
  BY <1>1, <1>2 DEF AuditInv, AuditTypeOK, PastScope, GrantRows
<1>6. \A r \in Readers : Carries(r)'
  BY <1>1, <1>2 DEF AuditInv, AuditTypeOK, Carries, ReaderRows
<1>7. \A r \in Readers : Guarded(r)' /\ Reserved(r)'
  BY <1>1 DEF AuditInv, Guarded, Reserved, RowOfGrant
<1>8. \A k : OnRecord(k)'
  BY <1>1 DEF AuditInv, OnRecord
<1> QED
  BY <1>4, <1>5, <1>6, <1>7, <1>8 DEF AuditInv
(* A summary only grows. *)
Grows ==
  /\ \A k \in DOMAIN summary' : summary'[k] \in Nat
  /\ \A k : Tally(summary, k) <= Tally(summary', k)

LEMMA KeptGrows == AuditInv /\ UNCHANGED summary => Grows
BY TallyNat DEF AuditInv, AuditTypeOK, Grows

LEMMA NoteGrows == ASSUME AuditInv, NEW k, Note(k)
                   PROVE  Grows /\ Tally(summary', k) = Tally(summary, k) + 1
<1>1. \A x \in DOMAIN summary : summary[x] \in Nat
  BY DEF AuditInv, AuditTypeOK
<1>2. summary' = Counted(summary, k)
  BY DEF Note
<1>3. /\ \A x \in DOMAIN summary' : summary'[x] \in Nat
      /\ Tally(summary', k) = Tally(summary, k) + 1
      /\ \A x : x # k => Tally(summary', x) = Tally(summary, x)
  BY <1>1, <1>2, CountedTally
<1>4. \A x : Tally(summary, x) \in Nat
  BY <1>1, TallyNat
<1> QED
  BY <1>3, <1>4 DEF Grows

LEMMA RefusedGrows == ASSUME AuditInv, NEW g, NEW token, Refused(g, token) PROVE Grows
BY KeptGrows, NoteGrows DEF Refused

(* A step of one reader, which leaves the guard to whom else it belongs. *)
LEMMA ReaderStep ==
  ASSUME AuditInv, NEW r \in Readers, NEW entry \in ReaderRows, Goes(r, entry), UNCHANGED worldVars,
         Grows, UNCHANGED disclosed,
         \A q \in Readers \ {r} : guard = q => guard' = q,
         Carries(r)' /\ Guarded(r)' /\ Reserved(r)'
  PROVE  AuditInv'
<1>1. AuditTypeOK'
  BY DEF AuditInv, AuditTypeOK, Goes, Grows, worldVars
<1>2. \A g \in Grants : PastScope(g)'
  BY DEF AuditInv, PastScope, worldVars
<1>3. \A k : Tally(disclosed, k) \in Nat /\ Tally(summary, k) \in Nat /\ Tally(summary', k) \in Nat
  BY TallyNat DEF AuditInv, AuditTypeOK, Grows
<1>4. ASSUME NEW q \in Readers PROVE Carries(q)' /\ Guarded(q)' /\ Reserved(q)'
  <2>1. CASE q = r
    BY <2>1
  <2>2. CASE q # r
    <3>1. readers'[q] = readers[q] /\ Carries(q) /\ Guarded(q) /\ Reserved(q)
      BY <2>2 DEF AuditInv, AuditTypeOK, Goes
    <3>2. Carries(q)' /\ Guarded(q)'
      BY <2>2, <3>1 DEF Carries, Guarded, worldVars
    <3>3. RowOfGrant(readers[q].grant)' = RowOfGrant(readers[q].grant)
      BY <3>1 DEF RowOfGrant, worldVars
    <3>4. Reserved(q)'
      BY <1>3, <3>1, <3>3 DEF Reserved, Grows
    <3> QED
      BY <3>2, <3>4
  <2> QED
    BY <2>1, <2>2
<1>5. \A k : OnRecord(k)'
  BY <1>3 DEF AuditInv, OnRecord, Grows
<1> QED
  BY <1>1, <1>2, <1>4, <1>5 DEF AuditInv

LEMMA GoneAuditInv ==
  ASSUME AuditInv, NEW r \in Readers, Goes(r, Off), UNCHANGED worldVars, Grows, UNCHANGED disclosed,
         \A q \in Readers \ {r} : guard = q => guard' = q
  PROVE  AuditInv'
<1>1. readers'[r] = Off
  BY DEF Goes, AuditInv, AuditTypeOK
<1>2. Carries(r)' /\ Guarded(r)' /\ Reserved(r)'
  BY <1>1, OffType DEF Carries, Guarded, Reserved
<1> QED
  BY <1>2, OffType, ReaderStep

LEMMA BeginReadAuditInv == ASSUME NEW r \in Readers PROVE AuditInv /\ BeginRead(r) => AuditInv'
<1> SUFFICES ASSUME AuditInv, BeginRead(r) PROVE AuditInv'
  OBVIOUS
<1>0. UNCHANGED << worldVars, guard, disclosed >>
  BY DEF BeginRead
<1>1. PICK g \in Grants, token \in 1..MaxGeneration :
        IF Recognised(g, token) /\ Entitled(g)
          THEN /\ readHits[g] < MaxHits
               /\ readHits' = [readHits EXCEPT ![g] = @ + 1]
               /\ Goes(r, [Off EXCEPT !.at = "allowed", !.grant = g, !.token = token,
                                      !.generation = grant[g].generation])
               /\ UNCHANGED summary
          ELSE Recognised(g, token) /\ Refused(g, token) /\ UNCHANGED <<readers, readHits>>
  BY DEF BeginRead
<1>2. CASE Recognised(g, token) /\ Entitled(g)
  <2> DEFINE entry == [Off EXCEPT !.at = "allowed", !.grant = g, !.token = token,
                                !.generation = grant[g].generation]
  <2>1. grant[g] # NoGrant /\ grant[g] \in GrantRows /\ token \in Nat
    BY <1>2 DEF Recognised, AuditInv, AuditTypeOK
  <2>2. /\ entry \in ReaderRows /\ entry.at = "allowed" /\ entry.grant = g
        /\ entry.generation = grant[g].generation
    BY <2>1, OffType DEF ReaderRows, GrantRows, Off
  <2>3. Goes(r, entry) /\ UNCHANGED summary
    BY <1>1, <1>2
  <2>4. readers'[r] = entry
    BY <2>3 DEF Goes, AuditInv, AuditTypeOK
  <2>5. Carries(r)' /\ Guarded(r)' /\ Reserved(r)'
    BY <1>0, <2>1, <2>2, <2>4 DEF Carries, Guarded, Reserved, worldVars, GrantRows
  <2> QED
    BY <1>0, <2>2, <2>3, <2>5, KeptGrows, ReaderStep
<1>3. CASE ~(Recognised(g, token) /\ Entitled(g))
  <2>1. Refused(g, token) /\ UNCHANGED readers
    BY <1>1, <1>3
  <2>2. Goes(r, readers[r])
    BY <2>1 DEF Goes, AuditInv, AuditTypeOK
  <2>3. Grows
    BY <2>1, RefusedGrows
  <2>4. Carries(r)' /\ Guarded(r)'
    BY <1>0, <2>1 DEF AuditInv, Carries, Guarded, worldVars
  <2>5. \A k : Tally(disclosed, k) \in Nat /\ Tally(summary, k) \in Nat /\ Tally(summary', k) \in Nat
    BY <2>3, TallyNat DEF AuditInv, AuditTypeOK, Grows
  <2>6. RowOfGrant(readers[r].grant)' = RowOfGrant(readers[r].grant)
    BY <1>0, <2>1 DEF RowOfGrant, worldVars
  <2>7. Reserved(r)'
    BY <1>0, <2>1, <2>3, <2>5, <2>6 DEF AuditInv, Reserved, Grows
  <2>8. readers[r] \in ReaderRows
    BY DEF AuditInv, AuditTypeOK
  <2> QED
    BY <1>0, <2>2, <2>3, <2>4, <2>7, <2>8, ReaderStep
<1> QED
  BY <1>2, <1>3

LEMMA TakeNotesAuditInv == ASSUME NEW r \in Readers PROVE AuditInv /\ TakeNotes(r) => AuditInv'
<1> SUFFICES ASSUME AuditInv, TakeNotes(r) PROVE AuditInv'
  OBVIOUS
<1> DEFINE entry == [readers[r] EXCEPT !.at = "holding", !.notes = identity]
<1>1. readers[r] \in ReaderRows /\ readers[r].at = "allowed" /\ Carries(r) /\ identity \in Nat
  BY DEF TakeNotes, AuditInv, AuditTypeOK
<1>2. /\ entry \in ReaderRows /\ entry.at = "holding" /\ entry.grant = readers[r].grant
      /\ entry.generation = readers[r].generation /\ entry.notes = identity
  BY <1>1 DEF ReaderRows
<1>3. readers'[r] = entry
  BY DEF TakeNotes, Goes, AuditInv, AuditTypeOK
<1>4. readers[r].grant \in Grants /\ PastScope(readers[r].grant)
  BY <1>1 DEF Carries, AuditInv
<1>5. Carries(r)' /\ Guarded(r)' /\ Reserved(r)'
  BY <1>1, <1>2, <1>3, <1>4 DEF TakeNotes, Carries, Guarded, Reserved, PastScope, worldVars
<1> QED
  BY <1>2, <1>5, KeptGrows, ReaderStep DEF TakeNotes

LEMMA TakeGuardAuditInv == ASSUME NEW r \in Readers PROVE AuditInv /\ TakeGuard(r) => AuditInv'
<1> SUFFICES ASSUME AuditInv, TakeGuard(r) PROVE AuditInv'
  OBVIOUS
<1> DEFINE g == readers[r].grant
           entry == [readers[r] EXCEPT !.at = "guarded"]
<1>0. readers[r] \in ReaderRows /\ readers[r].at = "holding" /\ Carries(r) /\ guard = NoReader
      /\ UNCHANGED << worldVars, readHits, disclosed >>
  BY DEF TakeGuard, AuditInv, AuditTypeOK
<1>1. CASE guard' = r /\ Goes(r, entry) /\ UNCHANGED summary /\ grant[g].generation = readers[r].generation
  <2>1. /\ entry \in ReaderRows /\ entry.at = "guarded" /\ entry.grant = g
        /\ entry.generation = readers[r].generation /\ entry.notes = readers[r].notes
    BY <1>0 DEF ReaderRows
  <2>2. readers'[r] = entry
    BY <1>1 DEF Goes, AuditInv, AuditTypeOK
  <2>3. Carries(r)' /\ Guarded(r)' /\ Reserved(r)'
    BY <1>0, <1>1, <2>1, <2>2 DEF Carries, Guarded, Reserved, worldVars
  <2> QED
    BY <1>0, <1>1, <2>1, <2>3, AuditDelegationAssumption, KeptGrows, ReaderStep
<1>2. CASE Refused(g, readers[r].token) /\ Goes(r, Off) /\ UNCHANGED guard
  BY <1>0, <1>2, RefusedGrows, GoneAuditInv
<1> QED
  BY <1>1, <1>2 DEF TakeGuard
(* The row that is committed for an entitled read is the one it is due. *)
LEMMA EntitledBoundary ==
  ASSUME NEW g, Entitled(g) PROVE Boundary(g, "read") = RowOfGrant(g)
BY DEF Entitled, Boundary, RowOfGrant

LEMMA CommitSummaryAuditInv == ASSUME NEW r \in Readers PROVE AuditInv /\ CommitSummary(r) => AuditInv'
<1> SUFFICES ASSUME AuditInv, CommitSummary(r) PROVE AuditInv'
  OBVIOUS
<1> DEFINE g == readers[r].grant
           entry == [readers[r] EXCEPT !.at = "recorded"]
<1>0. /\ readers[r] \in ReaderRows /\ readers[r].at = "guarded" /\ Carries(r)
      /\ guard = r /\ readers[r].generation = grant[g].generation
      /\ UNCHANGED << worldVars, readHits, disclosed >>
  BY DEF CommitSummary, AuditInv, AuditTypeOK, Guarded
<1>1. CASE Entitled(g) /\ Note(Boundary(g, "read")) /\ Goes(r, entry) /\ UNCHANGED guard
  <2> DEFINE k == RowOfGrant(g)
  <2>1. Grows /\ Tally(summary', k) = Tally(summary, k) + 1
    BY <1>1, EntitledBoundary, NoteGrows
  <2>2. Tally(disclosed, k) <= Tally(summary, k) /\ Tally(disclosed, k) \in Nat /\ Tally(summary, k) \in Nat
    BY TallyNat DEF AuditInv, AuditTypeOK, OnRecord
  <2>3. /\ entry \in ReaderRows /\ entry.at = "recorded" /\ entry.grant = g
        /\ entry.generation = readers[r].generation /\ entry.notes = readers[r].notes
    BY <1>0 DEF ReaderRows
  <2>4. readers'[r] = entry
    BY <1>1 DEF Goes, AuditInv, AuditTypeOK
  <2>5. Carries(r)' /\ Guarded(r)'
    BY <1>0, <1>1, <2>3, <2>4 DEF Carries, Guarded, worldVars
  <2>6. RowOfGrant(readers[r].grant)' = k
    BY <1>0, <2>3, <2>4 DEF RowOfGrant, worldVars
  <2>7. Reserved(r)'
    <3> HIDE DEF k
    <3>1. UNCHANGED disclosed
      BY <1>0
    <3> QED
      BY <2>1, <2>2, <2>6, <3>1 DEF Reserved
  <2> QED
    BY <1>0, <1>1, <2>1, <2>3, <2>5, <2>7, ReaderStep
<1>2. CASE Refused(g, readers[r].token) /\ Goes(r, Off) /\ guard' = NoReader
  BY <1>0, <1>2, RefusedGrows, GoneAuditInv
<1>3. CASE UNCHANGED summary /\ Goes(r, Off) /\ guard' = NoReader
  BY <1>0, <1>3, KeptGrows, GoneAuditInv
<1> QED
  BY <1>1, <1>2, <1>3 DEF CommitSummary

LEMMA DiscloseAuditInv == ASSUME NEW r \in Readers PROVE AuditInv /\ Disclose(r) => AuditInv'
<1> SUFFICES ASSUME AuditInv, Disclose(r) PROVE AuditInv'
  OBVIOUS
<1> DEFINE g == readers[r].grant
           k == RowOfGrant(g)
<1>0. /\ readers[r] \in ReaderRows /\ readers[r].at = "recorded" /\ Carries(r) /\ Reserved(r)
      /\ guard = r /\ readers[r].generation = grant[g].generation
      /\ Goes(r, Off) /\ guard' = NoReader /\ UNCHANGED << worldVars, readHits >>
  BY DEF Disclose, AuditInv, AuditTypeOK, Guarded
<1>1. CASE Entitled(g)
  <2>1. g \in Grants /\ grant[g] \in GrantRows /\ grant[g].scope = identity
        /\ grant[g].scope <= readers[r].notes /\ readers[r].notes <= identity
    BY <1>0, <1>1 DEF Carries, Entitled, AuditInv, AuditTypeOK
  <2>2. readers[r].notes = grant[g].scope
    BY <1>0, <2>1 DEF ReaderRows, GrantRows
  <2>3. [Boundary(g, "read") EXCEPT !.identity = readers[r].notes] = k
    BY <1>1, <2>2, EntitledBoundary DEF RowOfGrant
  <2>4. disclosed' = Counted(disclosed, k) /\ UNCHANGED summary
    BY <1>1, <2>3 DEF Disclose
  <2>5. \A x \in DOMAIN disclosed : disclosed[x] \in Nat
    BY DEF AuditInv, AuditTypeOK
  <2>6. /\ \A x \in DOMAIN disclosed' : disclosed'[x] \in Nat
        /\ Tally(disclosed', k) = Tally(disclosed, k) + 1
        /\ \A x : x # k => Tally(disclosed', x) = Tally(disclosed, x)
    <3> HIDE DEF k
    <3>1. /\ \A x \in DOMAIN Counted(disclosed, k) : Counted(disclosed, k)[x] \in Nat
          /\ Tally(Counted(disclosed, k), k) = Tally(disclosed, k) + 1
          /\ \A x : x # k => Tally(Counted(disclosed, k), x) = Tally(disclosed, x)
      BY <2>5, CountedTally, Zenon
    <3>2. disclosed' = Counted(disclosed, k)
      BY <2>4
    <3> QED
      BY <3>1, <3>2, Zenon
  <2>7. \A x : OnRecord(x)'
    <3> HIDE DEF k
    <3>1. Tally(disclosed, k) + 1 <= Tally(summary, k)
      BY <1>0 DEF Reserved, k
    <3>2. ASSUME NEW x PROVE OnRecord(x)'
      <4>1. Tally(disclosed, x) <= Tally(summary, x) /\ Tally(summary', x) = Tally(summary, x)
        BY <2>4 DEF AuditInv, OnRecord
      <4>2. CASE x = k
        BY <2>6, <3>1, <4>1, <4>2 DEF OnRecord
      <4>3. CASE x # k
        BY <2>6, <4>1, <4>3 DEF OnRecord
      <4> QED
        BY <4>2, <4>3
    <3> QED
      BY <3>2
  <2>8. AuditTypeOK'
    BY <1>0, <2>4, <2>6, OffType DEF AuditInv, AuditTypeOK, Goes, worldVars
  <2>9. \A h \in Grants : PastScope(h)'
    BY <1>0 DEF AuditInv, PastScope, worldVars
  <2>10. ASSUME NEW q \in Readers PROVE Carries(q)' /\ Guarded(q)' /\ Reserved(q)'
    <3>1. CASE q = r
      <4>1. readers'[q] = Off
        BY <1>0, <3>1 DEF Goes, AuditInv, AuditTypeOK
      <4> QED
        BY <4>1, OffType DEF Carries, Guarded, Reserved
    <3>2. CASE q # r
      <4>1. readers'[q] = readers[q] /\ Carries(q) /\ readers[q].at \notin {"guarded", "recorded"}
        BY <1>0, <3>2 DEF Goes, AuditInv, AuditTypeOK, Guarded
      <4> QED
        BY <1>0, <4>1 DEF Carries, Guarded, Reserved, worldVars
    <3> QED
      BY <3>1, <3>2
  <2> QED
    BY <2>7, <2>8, <2>9, <2>10 DEF AuditInv
<1>2. CASE Refused(g, readers[r].token) /\ UNCHANGED disclosed
  BY <1>0, <1>2, RefusedGrows, GoneAuditInv
<1> QED
  BY <1>1, <1>2 DEF Disclose

LEMMA AuditCrashAuditInv == AuditInv /\ AuditCrash => AuditInv'
<1> SUFFICES ASSUME AuditInv, AuditCrash PROVE AuditInv'
  OBVIOUS
<1>1. AuditTypeOK'
  BY OffType DEF AuditCrash, AuditInv, AuditTypeOK, worldVars
<1>2. \A r \in Readers : readers'[r] = Off
  BY DEF AuditCrash
<1>3. \A r \in Readers : Carries(r)' /\ Guarded(r)' /\ Reserved(r)'
  BY <1>2, OffType DEF Carries, Guarded, Reserved
<1>4. (\A g \in Grants : PastScope(g)') /\ (\A k : OnRecord(k)')
  BY DEF AuditCrash, AuditInv, PastScope, OnRecord, worldVars
<1> QED
  BY <1>1, <1>3, <1>4 DEF AuditInv

LEMMA StepAuditInv == AuditInv /\ [AuditDelegationNext]_adVars => AuditInv'
<1> SUFFICES ASSUME AuditInv, [AuditDelegationNext]_adVars PROVE AuditInv'
  OBVIOUS
<1>1. ASSUME NEW g \in Grants, CreateGrant(g) \/ RotateGrant(g) \/ RevokeGrant(g) \/ GrantExpires(g)
      PROVE  AuditInv'
  BY <1>1, CreateGrantAuditInv, RotateGrantAuditInv, RevokeGrantAuditInv, GrantExpiresAuditInv
<1>2. CASE IssuerChanges \/ BotChangesHands \/ BudgetRenews \/ UNCHANGED adVars
  BY <1>2, WorldAuditInv
<1>3. CASE AuditCrash
  BY <1>3, AuditCrashAuditInv
<1>4. ASSUME NEW r \in Readers,
             BeginRead(r) \/ TakeNotes(r) \/ TakeGuard(r) \/ CommitSummary(r) \/ Disclose(r)
      PROVE  AuditInv'
  BY <1>4, BeginReadAuditInv, TakeNotesAuditInv, TakeGuardAuditInv, CommitSummaryAuditInv,
     DiscloseAuditInv
<1> QED
  BY <1>1, <1>2, <1>3, <1>4 DEF AuditDelegationNext

(* DisclosuresAreOnRecord: whatever is rotated, revoked, transferred, refused or
   crashes in between, the answers that carried the notes of a bot's identity
   never outnumber the reads that a committed summary entry accounts for under
   that identity and credential generation (audit/delegation.py: _finish_read). *)
THEOREM DisclosuresAreOnRecord == AuditDelegationSpec => []DisclosedIsOnRecord
<1>1. AuditDelegationInit => AuditInv
  BY InitAuditInv
<1>2. AuditInv /\ [AuditDelegationNext]_adVars => AuditInv'
  BY StepAuditInv
<1>3. AuditInv => DisclosedIsOnRecord
  BY DEF AuditInv, OnRecord, DisclosedIsOnRecord, Tally
<1> QED
  BY <1>1, <1>2, <1>3, PTL DEF AuditDelegationSpec

\* What the bounds add, and that the guard is with a reader who works under it.
AuditBounded ==
  /\ \A g \in Grants : grant[g] # NoGrant =>
       grant[g].generation \in 1..MaxGeneration /\ grant[g].token <= grant[g].generation
  /\ guard # NoReader => guard \in Readers /\ readers[guard].at \in {"guarded", "recorded"}
  /\ readHits \in [Grants -> 0..MaxHits]

\* One row of a credential moves on, under the guard or without.
LEMMA GrantBounded ==
  ASSUME AuditInv, AuditBounded, NEW g \in Grants, NEW entry \in GrantRows,
         grant' = [grant EXCEPT ![g] = entry], UNCHANGED << guard, readers, readHits >>,
         entry.generation \in 1..MaxGeneration, entry.token <= entry.generation
  PROVE  AuditBounded'
<1>1. \A h \in Grants : grant'[h] = IF h = g THEN entry ELSE grant[h]
  BY DEF AuditInv, AuditTypeOK
<1>2. QED BY <1>1 DEF AuditBounded

\* One reader moves on, who holds the guard or leaves it alone.
LEMMA ReaderBounded ==
  ASSUME AuditInv, AuditBounded, NEW r \in Readers, NEW v, Goes(r, v), UNCHANGED grant,
         readHits' \in [Grants -> 0..MaxHits],
         \/ guard' = NoReader
         \/ guard' = r /\ v.at \in {"guarded", "recorded"}
         \/ guard' = guard /\ guard # r
  PROVE  AuditBounded'
<1>1. \A q \in Readers : readers'[q] = IF q = r THEN v ELSE readers[q]
  BY DEF AuditInv, AuditTypeOK, Goes
<1>2. QED BY <1>1 DEF AuditBounded

LEMMA AuditStepBounded ==
  ASSUME AuditInv, AuditBounded, [AuditDelegationNext]_adVars PROVE AuditBounded'
<1>0. MaxGeneration \in Nat \ {0} /\ MaxHits \in Nat /\ NoReader \notin Readers
  BY AuditDelegationAssumption
<1>1. ASSUME NEW g \in Grants, CreateGrant(g) \/ RotateGrant(g) \/ RevokeGrant(g) \/ GrantExpires(g)
      PROVE  AuditBounded'
  <2>1. issuer.version \in Nat /\ identity \in Nat /\ (grant[g] # NoGrant => grant[g] \in GrantRows)
    BY DEF AuditInv, AuditTypeOK
  <2>2. CASE CreateGrant(g)
    <3> DEFINE e == [generation |-> 1, token |-> 1, live |-> TRUE, revoked |-> FALSE,
                     version |-> issuer.version, scope |-> identity]
    <3>1. e \in GrantRows /\ e.generation \in 1..MaxGeneration /\ e.token <= e.generation
      BY <1>0, <2>1 DEF GrantRows
    <3>2. grant' = [grant EXCEPT ![g] = e] /\ UNCHANGED << guard, readers, readHits >>
      BY <2>2 DEF CreateGrant
    <3> HIDE DEF e
    <3>3. QED BY <3>1, <3>2, GrantBounded
  <2>3. CASE RotateGrant(g)
    <3> DEFINE e == [generation |-> grant[g].generation + 1, token |-> grant[g].token + 1, live |-> TRUE,
                     revoked |-> FALSE, version |-> issuer.version, scope |-> identity]
    <3>1. grant[g] \in GrantRows /\ grant[g].generation < MaxGeneration
          /\ grant[g].generation \in 1..MaxGeneration /\ grant[g].token <= grant[g].generation
      BY <2>1, <2>3 DEF RotateGrant, AuditBounded
    <3>2. e \in GrantRows /\ e.generation \in 1..MaxGeneration /\ e.token <= e.generation
      BY <1>0, <2>1, <3>1 DEF GrantRows
    <3>3. grant' = [grant EXCEPT ![g] = e] /\ UNCHANGED << guard, readers, readHits >>
      BY <2>3 DEF RotateGrant, AuditInv, AuditTypeOK
    <3> HIDE DEF e
    <3>4. QED BY <3>2, <3>3, GrantBounded
  <2>4. CASE RevokeGrant(g)
    <3> DEFINE e == [generation |-> grant[g].generation + 1, token |-> grant[g].token, live |-> FALSE,
                     revoked |-> TRUE, version |-> grant[g].version, scope |-> grant[g].scope]
    <3>1. grant[g] \in GrantRows /\ grant[g].generation < MaxGeneration
          /\ grant[g].generation \in 1..MaxGeneration /\ grant[g].token <= grant[g].generation
      BY <2>1, <2>4 DEF RevokeGrant, AuditBounded
    <3>2. e \in GrantRows /\ e.generation \in 1..MaxGeneration /\ e.token <= e.generation
      BY <1>0, <3>1 DEF GrantRows
    <3>3. grant' = [grant EXCEPT ![g] = e] /\ UNCHANGED << guard, readers, readHits >>
      BY <2>4, <3>1 DEF RevokeGrant, AuditInv, AuditTypeOK, GrantRows
    <3> HIDE DEF e
    <3>4. QED BY <3>2, <3>3, GrantBounded
  <2>5. CASE GrantExpires(g)
    <3> DEFINE e == [grant[g] EXCEPT !.live = FALSE]
    <3>1. grant[g] \in GrantRows
          /\ grant[g].generation \in 1..MaxGeneration /\ grant[g].token <= grant[g].generation
      BY <2>1, <2>5 DEF GrantExpires, Active, AuditBounded
    <3>2. e \in GrantRows /\ e.generation \in 1..MaxGeneration /\ e.token <= e.generation
      BY <3>1 DEF GrantRows
    <3>3. grant' = [grant EXCEPT ![g] = e] /\ UNCHANGED << guard, readers, readHits >>
      BY <2>5 DEF GrantExpires, AuditInv, AuditTypeOK
    <3> HIDE DEF e
    <3>4. QED BY <3>2, <3>3, GrantBounded
  <2>6. QED BY <1>1, <2>2, <2>3, <2>4, <2>5
<1>2. CASE IssuerChanges \/ BotChangesHands \/ UNCHANGED adVars
  BY <1>2 DEF IssuerChanges, BotChangesHands, adVars, AuditBounded
<1>3. CASE BudgetRenews
  BY <1>0, <1>3 DEF BudgetRenews, worldVars, AuditBounded
<1>4. CASE AuditCrash
  BY <1>0, <1>4 DEF AuditCrash, worldVars, AuditBounded
<1>5. ASSUME NEW r \in Readers, BeginRead(r) PROVE AuditBounded'
  <2>1. readers[r].at = "idle" /\ UNCHANGED << grant, guard >> /\ guard # r
    BY <1>0, <1>5 DEF BeginRead, worldVars, AuditBounded
  <2>2. readHits' \in [Grants -> 0..MaxHits]
    BY <1>0, <1>5 DEF BeginRead, AuditBounded
  <2>3. UNCHANGED readers \/ \E v : Goes(r, v)
    BY <1>5 DEF BeginRead
  <2>4. CASE UNCHANGED readers
    BY <2>1, <2>2, <2>4 DEF AuditBounded
  <2>5. QED BY <2>1, <2>2, <2>3, <2>4, ReaderBounded
<1>6. ASSUME NEW r \in Readers, TakeNotes(r) PROVE AuditBounded'
  <2>1. UNCHANGED << grant, guard, readHits >> /\ guard # r /\ \E v : Goes(r, v)
    BY <1>0, <1>6 DEF TakeNotes, worldVars, AuditBounded
  <2>2. QED BY <2>1, ReaderBounded DEF AuditBounded
<1>7. ASSUME NEW r \in Readers, TakeGuard(r) PROVE AuditBounded'
  <2> DEFINE w == [readers[r] EXCEPT !.at = "guarded"]
  <2>1. UNCHANGED << grant, readHits >> /\ guard = NoReader
        /\ \/ Goes(r, w) /\ guard' = r
           \/ Goes(r, Off) /\ guard' = guard
    BY <1>7 DEF TakeGuard, worldVars
  <2>2. w.at = "guarded" /\ readHits' \in [Grants -> 0..MaxHits]
    BY <2>1 DEF AuditInv, AuditTypeOK, ReaderRows, AuditBounded
  <2> HIDE DEF w
  <2>3. CASE Goes(r, w) /\ guard' = r
    BY <2>1, <2>2, <2>3, ReaderBounded
  <2>4. CASE Goes(r, Off) /\ guard' = guard
    BY <2>1, <2>2, <2>4, ReaderBounded
  <2>5. QED BY <2>1, <2>3, <2>4
<1>8. ASSUME NEW r \in Readers, CommitSummary(r) PROVE AuditBounded'
  <2> DEFINE w == [readers[r] EXCEPT !.at = "recorded"]
  <2>1. UNCHANGED << grant, readHits >> /\ guard = r
        /\ \/ Goes(r, w) /\ guard' = guard
           \/ Goes(r, Off) /\ guard' = NoReader
    BY <1>8 DEF CommitSummary, worldVars, AuditInv, Guarded
  <2>2. w.at = "recorded" /\ readHits' \in [Grants -> 0..MaxHits]
    BY <2>1 DEF AuditInv, AuditTypeOK, ReaderRows, AuditBounded
  <2> HIDE DEF w
  <2>3. CASE Goes(r, w) /\ guard' = guard
    BY <2>1, <2>2, <2>3, ReaderBounded
  <2>4. CASE Goes(r, Off) /\ guard' = NoReader
    BY <2>1, <2>2, <2>4, ReaderBounded
  <2>5. QED BY <2>1, <2>3, <2>4
<1>9. ASSUME NEW r \in Readers, Disclose(r) PROVE AuditBounded'
  <2>1. UNCHANGED << grant, readHits >> /\ Goes(r, Off) /\ guard' = NoReader
    BY <1>9 DEF Disclose, worldVars
  <2>2. QED BY <2>1, ReaderBounded DEF AuditBounded
<1>10. QED
  BY <1>1, <1>2, <1>3, <1>4, <1>5, <1>6, <1>7, <1>8, <1>9 DEF AuditDelegationNext

LEMMA AuditStartsBounded == ASSUME AuditDelegationInit PROVE AuditBounded
BY AuditDelegationAssumption DEF AuditDelegationInit, AuditBounded

LEMMA AuditTypes == ASSUME AuditBounded PROVE AuditDelegationTypeOK
BY AuditDelegationAssumption DEF AuditBounded, AuditDelegationTypeOK

\* No credential's token is newer than its generation, the guard is with a reader who
\* works under it, and nobody reads more than the budget allows (audit/delegation.py).
THEOREM AuditTypesHold == AuditDelegationSpec => []AuditDelegationTypeOK
<1>1. AuditDelegationInit => AuditInv /\ AuditBounded
  BY InitAuditInv, AuditStartsBounded
<1>2. AuditInv /\ AuditBounded /\ [AuditDelegationNext]_adVars => (AuditInv /\ AuditBounded)'
  BY StepAuditInv, AuditStepBounded
<1>3. AuditInv /\ AuditBounded => AuditDelegationTypeOK
  BY AuditTypes
<1>4. QED BY <1>1, <1>2, <1>3, PTL DEF AuditDelegationSpec
=============================================================================
