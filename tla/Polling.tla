------------------------------- MODULE Polling -------------------------------
(***************************************************************************)
(* Reads of one bot's state over HTTP while commands change it:            *)
(*   - "agent": GET /resources, with a personal credential, under the      *)
(*     bot's authority guard, through the snapshot cache;                  *)
(*   - "view":  GET /bot-views/{id}/state, with a link, through the same   *)
(*     cache but without the guard;                                        *)
(*   - "op":    GET /op/resources, with the bot's own key, past the cache. *)
(*                                                                         *)
(* The cache is keyed by generation: one caller, the leader, copies the    *)
(* state while others wait for it once.  An agent command and an           *)
(* operator's kicklock invalidate it; a chat command and a sweep do not.   *)
(*                                                                         *)
(* The content of the state is its version.  Whether a cached copy is      *)
(* still within its five seconds is a choice of each look-up, because the  *)
(* request took its "now" before it was admitted.  How leases make a       *)
(* restart wait is the subject of BotManager; here a generation ends only  *)
(* when no admitted request is left.                                       *)
(***************************************************************************)
EXTENDS Integers, FiniteSets

CONSTANTS
    Pollers,        \* requests that read
    Writers,        \* agent commands and operator releases
    MaxStates,      \* bound: changes of the allocator's state
    MaxInstances,   \* bound: instances of the bot
    NoCopy,         \* no copy of the state
    Nobody          \* no request

ASSUME PollingAssumption ==
    /\ MaxStates \in Nat /\ MaxInstances \in Nat \ {0}
    /\ NoCopy \notin Nat /\ Nobody \notin Pollers \cup Writers

PollKinds == {"agent", "view", "op"}
Revocable == {"agent", "view"}
Generations == 1..MaxInstances
Copies == 0..MaxStates \cup {NoCopy}

VARIABLES
    version,     \* the allocator's state
    generation,  \* the instance that serves
    retired,     \* generations whose retirement hook has not run yet
    entries,     \* _SnapshotCache._entries
    inflight,    \* _SnapshotCache._inflight: the leader
    void,        \* _SnapshotCache._versions has moved on since the leader read it
    authorized,  \* the agent's credential and the view's link are still good
    barrier,     \* who is inside the bot's authority guard
    reading,     \* the reads
    write,       \* the commands
    settled      \* the version the last finished command left

pollingVars == <<version, generation, retired, entries, inflight, void, authorized,
                 barrier, reading, write, settled>>
cacheVars == <<entries, inflight, void>>

NoReading == [at |-> "idle", since |-> 0, generation |-> 0, copy |-> NoCopy,
           kind |-> "agent", cached |-> FALSE]
NoWrite == [at |-> "idle", result |-> 0]

PollingInit ==
    /\ version = 0 /\ generation = 1 /\ retired = {}
    /\ entries = [g \in Generations |-> NoCopy]
    /\ inflight = [g \in Generations |-> Nobody]
    /\ void = [g \in Generations |-> FALSE]
    /\ authorized = [k \in Revocable |-> TRUE]
    /\ barrier = Nobody
    /\ reading = [p \in Pollers |-> NoReading]
    /\ write = [w \in Writers |-> NoWrite]
    /\ settled = 0

Stage(p, stage) == reading[p].at = stage
Put(p, r) == reading' = [reading EXCEPT ![p] = r]
Close(p) == Put(p, NoReading)
LeaveBarrier(w) == barrier' = IF barrier = w THEN Nobody ELSE barrier

\* A key that is rotated stops the operator's next request, no different from an
\* operator that asks no more.
MayPoll(kind) == kind \in Revocable => authorized[kind]

\* A read is authenticated.
BeginPoll(p, kind) ==
    /\ Stage(p, "idle") /\ MayPoll(kind)
    /\ Put(p, [reading[p] EXCEPT !.at = "asked", !.kind = kind, !.since = settled])
    /\ UNCHANGED <<version, generation, retired, cacheVars, authorized, barrier,
                   write, settled>>

\* bot_manager.admit, the agent's guard, and the check of the credential against a
\* fresh row under it.
AdmitPoll(p) ==
    /\ Stage(p, "asked")
    /\ reading[p].kind = "agent" => barrier = Nobody
    /\ IF MayPoll(reading[p].kind)
       THEN /\ Put(p, [reading[p] EXCEPT !.at = IF reading[p].kind = "op" THEN "own" ELSE "looking",
                                         !.generation = generation])
            /\ barrier' = IF reading[p].kind = "agent" THEN p ELSE barrier
       ELSE Close(p) /\ UNCHANGED barrier
    /\ UNCHANGED <<version, generation, retired, cacheVars, authorized, write, settled>>

\* The first critical section of get_or_compute.
LookUp(p) ==
    LET g == reading[p].generation IN
    /\ Stage(p, "looking")
    /\ \/ /\ entries[g] # NoCopy
          /\ Put(p, [reading[p] EXCEPT !.at = "copied", !.copy = entries[g], !.cached = TRUE])
          /\ UNCHANGED <<inflight, void>>
       \/ /\ inflight[g] = Nobody
          /\ inflight' = [inflight EXCEPT ![g] = p]
          /\ void' = [void EXCEPT ![g] = FALSE]
          /\ Put(p, [reading[p] EXCEPT !.at = "leading"])
       \/ /\ inflight[g] # Nobody
          /\ Put(p, [reading[p] EXCEPT !.at = "following"])
          /\ UNCHANGED <<inflight, void>>
    /\ UNCHANGED <<version, generation, retired, entries, authorized,
                   barrier, write, settled>>

\* The leader's state_snapshot: a deep copy under the bot's lock.
Copy(p) ==
    /\ Stage(p, "leading")
    /\ Put(p, [reading[p] EXCEPT !.at = "publishing", !.copy = version])
    /\ UNCHANGED <<version, generation, retired, cacheVars, authorized, barrier,
                   write, settled>>

\* A copy that fails takes its registration back; the followers make their own.
CopyFails(p) ==
    /\ Stage(p, "leading")
    /\ inflight' = [inflight EXCEPT ![reading[p].generation] = Nobody]
    /\ Close(p) /\ LeaveBarrier(p)
    /\ UNCHANGED <<version, generation, retired, entries, void, authorized, write, settled>>

\* Mutant: a copy is published whatever happened since.
MayPublishAlways(p) == TRUE

\* Published unless the generation was invalidated since the leader began.
MayPublish(p) == ~void[reading[p].generation]

PublishCopy(p) ==
    LET g == reading[p].generation IN
    /\ Stage(p, "publishing")
    /\ entries' = IF MayPublish(p) THEN [entries EXCEPT ![g] = reading[p].copy] ELSE entries
    /\ inflight' = [inflight EXCEPT ![g] = Nobody]
    /\ Put(p, [reading[p] EXCEPT !.at = "copied"])
    /\ UNCHANGED <<version, generation, retired, void, authorized, barrier,
                   write, settled>>

\* A follower waits once, for the leader or for as long as a copy lives, and then
\* takes what it finds or makes a copy of its own that nobody else sees.
Follow(p) ==
    /\ Stage(p, "following")
    /\ \/ /\ entries[reading[p].generation] # NoCopy
          /\ Put(p, [reading[p] EXCEPT !.at = "copied", !.copy = entries[reading[p].generation],
                                       !.cached = TRUE])
       \/ Put(p, [reading[p] EXCEPT !.at = "own"])
    /\ UNCHANGED <<version, generation, retired, cacheVars, authorized, barrier,
                   write, settled>>

\* A copy of its own: a follower's, an operator's, and that of any reader of a
\* cached copy whose bot has task declarations to be joined with the state.
OwnCopy(p) ==
    /\ Stage(p, "own") \/ (Stage(p, "copied") /\ reading[p].cached)
    /\ Put(p, [reading[p] EXCEPT !.at = "copied", !.copy = version, !.cached = FALSE])
    /\ UNCHANGED <<version, generation, retired, cacheVars, authorized, barrier,
                   write, settled>>

\* Answered, or for a view whose link ran out meanwhile refused; guard and lease are
\* left either way.
AnswerPoll(p) ==
    /\ Stage(p, "copied")
    /\ Close(p) /\ LeaveBarrier(p)
    /\ UNCHANGED <<version, generation, retired, cacheVars, authorized, write, settled>>

\* An agent command runs under guard and lease; an operator's kicklock under its lease.
AdmitWrite(w) ==
    /\ write[w].at = "idle"
    /\ \/ authorized["agent"] /\ barrier = Nobody /\ barrier' = w
       \/ UNCHANGED barrier
    /\ write' = [write EXCEPT ![w] = [at |-> "admitted", result |-> 0]]
    /\ UNCHANGED <<version, generation, retired, cacheVars, authorized, reading,
                   settled>>

\* The command changes the state under the bot's lock, or is rejected and changes nothing.
Mutate(w) ==
    /\ write[w].at = "admitted"
    /\ version' \in {version, version + 1} /\ version' <= MaxStates
    /\ write' = [write EXCEPT ![w] = [at |-> "mutated", result |-> version']]
    /\ UNCHANGED <<generation, retired, cacheVars, authorized, barrier, reading,
                   settled>>

\* An agent command that fails in the bot may have changed the state by then, and
\* leaves the cache alone.  (A kicklock's invalidation is in its finally.)
FailWrite(w) ==
    /\ write[w].at = "admitted" /\ barrier = w
    /\ version' \in {version, version + 1} /\ version' <= MaxStates
    /\ write' = [write EXCEPT ![w] = NoWrite]
    /\ barrier' = Nobody
    /\ UNCHANGED <<generation, retired, cacheVars, authorized, reading, settled>>

\* snapshot_cache.invalidate: every generation of the bot that the cache knows of.
\* A copy under way stays registered; its token makes it void.
Voided ==
    /\ entries' = [g \in Generations |-> NoCopy]
    /\ void' = [g \in Generations |-> inflight[g] # Nobody]

InvalidateAfter(w) ==
    /\ write[w].at = "mutated"
    /\ Voided
    /\ write' = [write EXCEPT ![w].at = "invalidated"]
    /\ UNCHANGED <<version, generation, retired, inflight, authorized, barrier, reading,
                   settled>>

FinishWrite(w) ==
    /\ write[w].at = "invalidated"
    /\ write' = [write EXCEPT ![w] = NoWrite]
    /\ settled' = IF write[w].result > settled THEN write[w].result ELSE settled
    /\ LeaveBarrier(w)
    /\ UNCHANGED <<version, generation, retired, cacheVars, authorized, reading>>

\* A chat command or a sweep: nothing tells the cache.
ChatChange ==
    /\ version < MaxStates /\ version' = version + 1
    /\ UNCHANGED <<generation, retired, cacheVars, authorized, barrier, reading,
                   write, settled>>

\* Stop and start: the drain has waited for every admitted request, and the hook
\* that evicts the old generation runs outside the manager's lock.
Inside(p) == reading[p].at \notin {"idle", "asked"}
Replace ==
    /\ generation < MaxInstances
    /\ \A p \in Pollers : ~Inside(p)
    /\ \A w \in Writers : write[w].at = "idle"
    /\ generation' = generation + 1
    /\ retired' = retired \cup {generation}
    /\ UNCHANGED <<version, cacheVars, authorized, barrier, reading, write, settled>>

EvictRetired(g) ==
    /\ g \in retired /\ retired' = retired \ {g}
    /\ entries' = [entries EXCEPT ![g] = NoCopy]
    /\ void' = [void EXCEPT ![g] = inflight[g] # Nobody]
    /\ UNCHANGED <<version, generation, inflight, authorized, barrier, reading,
                   write, settled>>

\* A credential is revoked under the bot's guard; a link just runs out.
Withdraw(k) ==
    /\ authorized[k] /\ (k = "agent" => barrier = Nobody)
    /\ authorized' = [authorized EXCEPT ![k] = FALSE]
    /\ UNCHANGED <<version, generation, retired, cacheVars, barrier, reading,
                   write, settled>>

PollingNext ==
    \/ \E p \in Pollers : \/ \E kind \in PollKinds : BeginPoll(p, kind)
                          \/ AdmitPoll(p) \/ LookUp(p) \/ Copy(p) \/ CopyFails(p)
                          \/ PublishCopy(p) \/ Follow(p) \/ OwnCopy(p)
                          \/ AnswerPoll(p)
    \/ \E w \in Writers : AdmitWrite(w) \/ Mutate(w) \/ FailWrite(w) \/ InvalidateAfter(w) \/ FinishWrite(w)
    \/ \E g \in Generations : EvictRetired(g)
    \/ \E k \in Revocable : Withdraw(k)
    \/ ChatChange \/ Replace

PollingSpec == PollingInit /\ [][PollingNext]_pollingVars

-----------------------------------------------------------------------------

PollingTypeOK ==
    /\ version \in 0..MaxStates /\ settled \in 0..MaxStates
    /\ generation \in Generations /\ retired \subseteq Generations
    /\ entries \in [Generations -> Copies]
    /\ inflight \in [Generations -> Pollers \cup {Nobody}]
    /\ void \in [Generations -> BOOLEAN]
    /\ barrier \in Pollers \cup Writers \cup {Nobody}
    /\ \A p \in Pollers : reading[p].copy \in Copies /\ reading[p].generation \in {0} \cup Generations

\* Read your writes: a read that began after a command or a release had finished is
\* served a state at least as new as the one it left, whoever was copying the
\* state meanwhile (_SnapshotCache: "will not publish a now-stale entry").
ReadYourWrites ==
    \A p \in Pollers : Stage(p, "copied") => reading[p].copy >= reading[p].since
=============================================================================
