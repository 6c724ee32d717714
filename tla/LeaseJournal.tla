---------------------------- MODULE LeaseJournal ----------------------------
(***************************************************************************)
(* The lease history of one bot: every write of its state file carries the *)
(* frames (one per commit) that the history file does not hold yet, and    *)
(* after the write the frames are appended to the history                  *)
(* (backend/app/resource_api/lease_history.py, lease_contract.py, and the  *)
(* hooks in core/io.py and core/base_bot.py).                              *)
(*                                                                         *)
(* A frame says from which state to which a commit went. Digests are       *)
(* injective here, so a frame carries the states themselves; its events    *)
(* and its public fields are functions of those and are left out. The      *)
(* state lock is held from the change of a record to the end of the        *)
(* append, so there is one thread; what interleaves with it is failing     *)
(* calls of the file system, the end of the process and of the power.      *)
(* Files are rotated by dropping the oldest lines, which is to start       *)
(* reading later: every property is about every suffix of `log`.           *)
(***************************************************************************)
EXTENDS Integers, Sequences, FiniteSets

CONSTANTS
    States,      \* what the allocator may hold
    Empty,       \* the state of a new bot: nobody holds anything
    Overfull,    \* states with more entries than a snapshot may have
    Unreadable,  \* the snapshot of those
    MaxPending,  \* MAX_PENDING_FRAMES
    MaxFrames,   \* bound: frames in a behaviour
    MaxChanges,  \* bound: changes of the allocator's state by commands
    MaxFaults    \* bound: faults, crashes, edits and changes of identity

ASSUME JournalAssumption ==
    /\ Empty \in States
    /\ Overfull \subseteq States
    /\ Empty \notin Overfull
    /\ Unreadable \notin States
    /\ MaxPending \in Nat \ {0}
    /\ MaxFrames \in Nat
    /\ MaxChanges \in Nat
    /\ MaxFaults \in Nat

VARIABLES
    state,     \* bot.state.bot_state
    file,      \* bot_state.json as a program sees it
    synced,    \* bot_state.json as a loss of power leaves it
    log,       \* the lines of resource-lifecycle.jsonl
    safe,      \* how many of them a loss of power leaves
    journal,   \* bot.config._lifecycle_observer with its outbox
    phase,     \* where the thread that has the state lock is
    revision,  \* identity_revision of the bot's row
    frames,    \* history: frames made so far, the next frame's frame_id
    journals,  \* history: journal ids drawn so far
    changes,   \* history: how often the allocator's state changed
    faults     \* history: what MaxFaults bounds

disk == <<file, synced, log, safe>>
vars == <<state, disk, journal, phase, revision, frames, journals, changes, faults>>

NoGap == "none"
Gaps == {NoGap, "session_start", "state_persist_failed", "journal_write_failed",
         "invalid_state", "clock_reversal", "unconfirmed_mutation", "outbox_overflow"}

\* Canonical state: only what the public history may show, within its bounds.
Canonical(s) == IF s \in Overfull THEN Unreadable ELSE s
Snapshots == States \cup {Unreadable}

\* One line of the history. `at` is not in the code: the number of changes
\* of the allocator's state when the frame was made.
Frame == [id : Nat, journal : Nat, sequence : Nat, before : Snapshots, after : Snapshots,
          boundary : Gaps, atomic : BOOLEAN, at : Nat]

\* What a failed append may leave behind: a part of a line.
Torn == [id |-> -1]

StateFile(s, pending, rev) ==
    [exists |-> TRUE, state |-> s, pending |-> pending, revision |-> rev]
NoFile == [exists |-> FALSE, state |-> Empty, pending |-> <<>>, revision |-> 0]

\* prepared holds what failed() restores; the frame it holds too is the last pending one.
NoWrite == [pending |-> <<>>, sequence |-> 0]
NewJournal(id) ==
    [on |-> TRUE, id |-> id, sequence |-> 0, state |-> Empty, gap |-> "session_start",
     pending |-> <<>>, known |-> {}, rescan |-> FALSE, prepared |-> NoWrite,
     stamped |-> FALSE]
NoJournal == [NewJournal(0) EXCEPT !.on = FALSE]

Ids(s) == {s[i].id : i \in 1..Len(s)}
LastOf(s) == s[Len(s)]

-----------------------------------------------------------------------------
(* Making a frame and putting it into the outbox *)

\* _frame and decorate: the frame of the state at hand, marked with what is
\* known to be wrong. `reversed` is that the clock stands before the last
\* frame's time.
FrameOf(j, atomic, reversed) ==
    [id |-> frames,
     journal |-> j.id,
     sequence |-> j.sequence + 1,
     before |-> j.state,
     after |-> Canonical(state),
     boundary |-> IF reversed THEN "clock_reversal"
                  ELSE IF Canonical(state) = Unreadable THEN "invalid_state"
                  ELSE j.gap,
     atomic |-> atomic,
     at |-> changes]

\* Mutant: one frame more than the bound.
EnvelopeOneMore(j, frame) ==
    IF Len(j.pending) <= MaxPending
    THEN Append(j.pending, frame)
    ELSE << [frame EXCEPT !.boundary = "outbox_overflow"] >>

\* envelope: an outbox that would grow beyond its bound forgets what it held
\* and says so in the frame.
Envelope(j, frame) ==
    IF Len(j.pending) < MaxPending
    THEN Append(j.pending, frame)
    ELSE << [frame EXCEPT !.boundary = "outbox_overflow"] >>

\* The journal with a frame in its outbox.
Staged(j, frame) ==
    [j EXCEPT !.sequence = frame.sequence, !.pending = Envelope(j, frame),
              !.prepared = [pending |-> j.pending, sequence |-> j.sequence]]

\* Mutant: a failed write is taken back as if it had never been tried.
FailedUnmarked(j) ==
    [j EXCEPT !.pending = j.prepared.pending, !.sequence = j.prepared.sequence,
              !.prepared = NoWrite]

\* failed: what prepare_state_write staged is taken back.
Failed(j) ==
    [j EXCEPT !.pending = j.prepared.pending, !.sequence = j.prepared.sequence,
              !.prepared = NoWrite, !.gap = "state_persist_failed"]

\* Only a clock that stamped a frame of this session can be seen to go back.
Reversals(j) == IF j.stamped THEN BOOLEAN ELSE {FALSE}

\* What the write of the state file puts into it.
FileNow == StateFile(state, journal.pending, revision)

Fault == /\ faults < MaxFaults
         /\ faults' = faults + 1

-----------------------------------------------------------------------------
(* Starting: load the state, recover the outbox, write a baseline *)

\* create_or_load_node_state: the state as saved, or, where the configuration
\* lost a resource, what of it is left.
Load ==
    /\ phase = "down"
    /\ \E s \in States :
         /\ s # file.state => Fault /\ file.state # Empty
         /\ s = file.state => UNCHANGED faults
         /\ state' = s
    /\ phase' = "loaded"
    /\ changes' = changes + 1
    /\ UNCHANGED <<disk, journal, revision, frames, journals>>

\* A maximum that was lowered shortens leases on loading: the state is saved
\* before there is a journal, so the outbox goes. A failing write fails the start.
LoadClamped ==
    /\ phase = "down"
    /\ Fault
    /\ file.state # Empty
    /\ \E s \in States \ {Empty, file.state} :
         /\ file' = StateFile(s, <<>>, 0)
         /\ \/ phase' = "loaded" /\ state' = s /\ synced' = file'
            \/ UNCHANGED <<phase, state, synced>>
    /\ changes' = changes + 1
    /\ UNCHANGED <<log, safe, journal, revision, frames, journals>>

\* The outbox of the file is one that this bot wrote with this very state.
Recoverable ==
    LET p == file.pending
    IN  /\ Len(p) \in 1..MaxPending
        /\ file.revision = revision
        /\ \A i \in 1..Len(p) : p[i].atomic
        /\ \A i \in 1..(Len(p) - 1) :
             /\ p[i].journal = p[i + 1].journal
             /\ p[i].sequence + 1 = p[i + 1].sequence
             /\ p[i].after = p[i + 1].before
        /\ LastOf(p).after = Canonical(state)

\* Mutant: the history is not read before a replay.
KnownOfNothing(pending) == {}

\* _read_known: which pending frames the history has already, after making
\* sure that it keeps them.
KnownOf(pending) == Ids(pending) \cap Ids(log)

\* Mutant: the recovered file is replayed before it is durable.
ReplayUnsynced ==
    /\ phase = "loaded"
    /\ Recoverable
    /\ journal' = [NewJournal(LastOf(file.pending).journal) EXCEPT
                       !.sequence = LastOf(file.pending).sequence,
                       !.pending = file.pending,
                       !.known = KnownOf(file.pending)]
    /\ safe' = Len(log)
    /\ phase' = "replay"
    /\ UNCHANGED <<state, file, synced, log, revision, frames, journals, changes, faults>>

\* The constructor finds frames to publish again: it makes the file and the
\* history durable as they are and then flushes.
OpenRecovered ==
    /\ phase = "loaded"
    /\ Recoverable
    /\ journal' = [NewJournal(LastOf(file.pending).journal) EXCEPT
                       !.sequence = LastOf(file.pending).sequence,
                       !.pending = file.pending,
                       !.known = KnownOf(file.pending)]
    /\ synced' = file
    /\ safe' = Len(log)
    /\ phase' = "replay"
    /\ UNCHANGED <<state, file, log, revision, frames, journals, changes, faults>>

\* A file without a usable outbox is left as it is: the baseline is a frame
\* that no write of the file carried.
OpenLegacy ==
    /\ phase = "loaded"
    /\ ~Recoverable
    /\ file.exists
    /\ frames < MaxFrames
    /\ LET fresh == NewJournal(journals)
       IN  journal' = [Staged(fresh, FrameOf(fresh, FALSE, FALSE)) EXCEPT !.prepared = NoWrite]
    /\ journals' = journals + 1
    /\ frames' = frames + 1
    /\ phase' = "flush"
    /\ UNCHANGED <<state, disk, revision, changes, faults>>

\* A new bot has no file: its baseline is a write of its own.
OpenNew ==
    /\ phase = "loaded"
    /\ ~Recoverable
    /\ ~file.exists
    /\ journal' = NewJournal(journals)
    /\ journals' = journals + 1
    /\ phase' = "baseline"
    /\ UNCHANGED <<state, disk, revision, frames, changes, faults>>

\* An error of the file system while recovering, perhaps after it synced what it
\* was to replay: the bot runs without a journal.
OpenFails ==
    /\ phase = "loaded"
    /\ file.exists
    /\ Fault
    /\ \/ UNCHANGED <<synced, safe>>
       \/ Recoverable /\ synced' = file /\ safe' \in {safe, Len(log)}
    /\ journal' = NoJournal
    /\ phase' = "idle"
    /\ UNCHANGED <<state, file, log, revision, frames, journals, changes>>

-----------------------------------------------------------------------------
(* One command: change, write, acknowledge, append *)

\* A handler changes records under the state lock (or finds that it wrote the
\* same again).
Change(s) ==
    /\ phase = "idle"
    /\ journal.on => frames < MaxFrames
    /\ s # state => changes < MaxChanges
    /\ state' = s
    /\ changes' = IF s = state THEN changes ELSE changes + 1
    /\ phase' = "changed"
    /\ UNCHANGED <<disk, journal, revision, frames, journals, faults>>

\* unconfirmed, called by _state_guard: the handler raised after a change and
\* before the write.
Raise ==
    /\ phase = "changed"
    /\ Fault
    /\ journal' = IF journal.on /\ journal.gap = NoGap /\ Canonical(state) # journal.state
                  THEN [journal EXCEPT !.gap = "unconfirmed_mutation"]
                  ELSE journal
    /\ phase' = "idle"
    /\ UNCHANGED <<state, disk, revision, frames, journals, changes>>

\* prepare_state_write, before the temporary file is written: for a command, or for the
\* baseline that the constructor writes.
Prepare ==
    /\ \/ phase = "changed" /\ phase' = "write"
       \/ phase = "baseline" /\ phase' = "write_baseline"
    /\ IF journal.on
       THEN /\ frames < MaxFrames
            /\ \E reversed \in Reversals(journal) :
                 journal' = Staged(journal, FrameOf(journal, TRUE, reversed))
            /\ frames' = frames + 1
       ELSE UNCHANGED <<journal, frames>>
    /\ UNCHANGED <<state, disk, revision, journals, changes, faults>>

\* os.replace of the temporary file, which has been synced.
Rename ==
    /\ \/ phase = "write" /\ phase' = "renamed"
       \/ phase = "write_baseline" /\ phase' = "renamed_baseline"
    /\ file' = FileNow
    /\ UNCHANGED <<state, synced, log, safe, journal, revision, frames, journals,
                   changes, faults>>

\* The write fails, before the rename or after it: a command reports an error and the
\* journal takes the frame back; the constructor gives up, and the bot has no journal.
WriteFails ==
    /\ phase \in {"write", "renamed", "write_baseline", "renamed_baseline"}
    /\ Fault
    /\ journal' = IF phase \in {"write_baseline", "renamed_baseline"} THEN NoJournal
                  ELSE IF journal.on THEN Failed(journal) ELSE journal
    /\ phase' = "idle"
    /\ UNCHANGED <<state, disk, revision, frames, journals, changes>>

\* The directory is synced, then committed(): the frame stays in the outbox
\* and flush begins.
Commit ==
    /\ phase \in {"renamed", "renamed_baseline"}
    /\ synced' = file
    /\ journal' = [journal EXCEPT !.prepared = NoWrite]
    /\ phase' = IF journal.on THEN "flush" ELSE "idle"
    /\ UNCHANGED <<state, file, log, safe, revision, frames, journals, changes, faults>>

-----------------------------------------------------------------------------
(* flush, called by committed and by the recovery *)

Flushing == phase \in {"flush", "replay"}

\* After a failed append the history is read again: what arrived is known.
Rescan ==
    /\ Flushing
    /\ journal.rescan
    /\ safe' = Len(log)
    /\ journal' = [journal EXCEPT !.rescan = FALSE, !.known = KnownOf(journal.pending)]
    /\ UNCHANGED <<state, file, synced, log, phase, revision, frames, journals,
                   changes, faults>>

\* Mutant: the line is written and not synced.
PublishUnsynced ==
    /\ Flushing
    /\ ~journal.rescan
    /\ journal.pending # <<>>
    /\ Head(journal.pending).id \notin journal.known
    /\ log' = Append(log, Head(journal.pending))
    /\ journal' = [journal EXCEPT !.pending = Tail(@)]
    /\ UNCHANGED <<state, file, synced, safe, phase, revision, frames, journals, changes, faults>>

\* _append of the first pending frame, synced.
Publish ==
    /\ Flushing
    /\ ~journal.rescan
    /\ journal.pending # <<>>
    /\ Head(journal.pending).id \notin journal.known
    /\ log' = Append(log, Head(journal.pending))
    /\ safe' = Len(log')
    /\ journal' = [journal EXCEPT !.pending = Tail(@)]
    /\ UNCHANGED <<state, file, synced, phase, revision, frames, journals, changes, faults>>

\* The history has the first pending frame already.
Skip ==
    /\ Flushing
    /\ ~journal.rescan
    /\ journal.pending # <<>>
    /\ Head(journal.pending).id \in journal.known
    /\ journal' = [journal EXCEPT !.pending = Tail(@), !.known = @ \ {Head(journal.pending).id}]
    /\ UNCHANGED <<state, disk, phase, revision, frames, journals, changes, faults>>

\* flush returns or raises: the session goes on from the state at hand, in the
\* constructor with the baseline that follows the recovery.
FlushEnds(j, gap) ==
    IF phase = "replay"
    THEN /\ journal' = [j EXCEPT !.gap = IF gap = NoGap THEN @ ELSE gap]
         /\ phase' = "baseline"
    ELSE /\ journal' = [j EXCEPT !.gap = gap, !.state = Canonical(state),
                                 !.stamped = @ \/ gap # "journal_write_failed"]
         /\ phase' = "idle"

FlushDone ==
    /\ Flushing
    /\ ~journal.rescan
    /\ journal.pending = <<>>
    /\ FlushEnds(journal, IF phase = "flush" /\ Canonical(state) = Unreadable
                          THEN "invalid_state" ELSE NoGap)
    /\ UNCHANGED <<state, disk, revision, frames, journals, changes, faults>>

\* Reading the history again fails.
RescanFails ==
    /\ Flushing
    /\ journal.rescan
    /\ Fault
    /\ FlushEnds(journal, "journal_write_failed")
    /\ UNCHANGED <<state, disk, revision, frames, journals, changes>>

\* What a failing or interrupted append of a frame leaves in the history.
Remains(frame) == {log, Append(log, Torn), Append(log, frame)}

AppendFails ==
    /\ Flushing
    /\ ~journal.rescan
    /\ journal.pending # <<>>
    /\ Head(journal.pending).id \notin journal.known
    /\ Fault
    /\ log' \in Remains(Head(journal.pending))
    /\ FlushEnds([journal EXCEPT !.rescan = TRUE], "journal_write_failed")
    /\ UNCHANGED <<state, file, synced, safe, revision, frames, journals, changes>>

-----------------------------------------------------------------------------
(* The reader's checkpoint, the end of a process, the end of the power *)

\* checkpoint marks the session when the clock stands before the last frame.
SeeReversal ==
    /\ phase = "idle"
    /\ journal.on
    /\ journal.stamped
    /\ Fault
    /\ journal' = [journal EXCEPT !.gap = "clock_reversal"]
    /\ UNCHANGED <<state, disk, phase, revision, frames, journals, changes>>

\* What is in memory is lost.
Gone == /\ state' = Empty
        /\ journal' = NoJournal
        /\ phase' = "down"

\* The process ends, in the middle of an append perhaps.
Crash ==
    /\ phase # "down"
    /\ Fault
    /\ log' \in IF Flushing /\ ~journal.rescan /\ journal.pending # <<>>
                   /\ Head(journal.pending).id \notin journal.known
                THEN Remains(Head(journal.pending))
                ELSE {log}
    /\ Gone
    /\ UNCHANGED <<file, synced, safe, revision, frames, journals, changes>>

\* What was not synced may be lost: a rename, the end of the history.
PowerLoss ==
    /\ Fault
    /\ file' \in {file, synced}
    /\ synced' = file'
    /\ \E n \in safe..Len(log) :
         /\ log' = SubSeq(log, 1, n)
         /\ safe' = n
    /\ Gone
    /\ UNCHANGED <<revision, frames, journals, changes>>

\* The file is edited while the bot is stopped: it has no outbox afterwards.
OfflineEdit ==
    /\ phase = "down"
    /\ Fault
    /\ \E s \in States : file' = StateFile(s, <<>>, 0)
    /\ synced' = file'
    /\ UNCHANGED <<state, log, safe, journal, phase, revision, frames, journals, changes>>

\* The bot is given another identity while it is stopped.
Reidentify ==
    /\ phase = "down"
    /\ Fault
    /\ revision' = revision + 1
    /\ UNCHANGED <<state, disk, journal, phase, frames, journals, changes>>

-----------------------------------------------------------------------------
Init ==
    /\ state = Empty
    /\ file \in {NoFile} \cup {StateFile(s, <<>>, 0) : s \in States}
    /\ synced = file
    /\ log = <<>>
    /\ safe = 0
    /\ journal = NoJournal
    /\ phase = "down"
    /\ revision = 1
    /\ frames = 0
    /\ journals = 0
    /\ changes = 0
    /\ faults = 0

Start == Load \/ LoadClamped \/ OpenRecovered \/ OpenLegacy \/ OpenNew \/ OpenFails
Command == (\E s \in States : Change(s)) \/ Raise \/ Prepare \/ Rename \/ WriteFails \/ Commit
Flush == Rescan \/ Publish \/ Skip \/ FlushDone \/ RescanFails \/ AppendFails
Outside == SeeReversal \/ Crash \/ PowerLoss \/ OfflineEdit \/ Reidentify

Next == Start \/ Command \/ Flush \/ Outside

Spec == Init /\ [][Next]_vars

-----------------------------------------------------------------------------
(* Properties *)

Phases == {"down", "loaded", "replay", "baseline", "write_baseline", "renamed_baseline",
           "idle", "changed", "write", "renamed", "flush"}
StateFileType == [exists : BOOLEAN, state : States, pending : Seq(Frame), revision : Nat]
JournalType ==
    [on : BOOLEAN, id : Nat, sequence : Nat, state : Snapshots, gap : Gaps,
     pending : Seq(Frame), known : SUBSET Nat, rescan : BOOLEAN,
     prepared : [pending : Seq(Frame), sequence : Nat], stamped : BOOLEAN]

\* Every variable has the shape the code gives it, and an outbox keeps its bound.
TypeOK ==
    /\ state \in States
    /\ file \in StateFileType /\ Len(file.pending) <= MaxPending
    /\ synced \in StateFileType /\ Len(synced.pending) <= MaxPending
    /\ log \in Seq(Frame \cup {Torn})
    /\ safe \in 0..Len(log)
    /\ journal \in JournalType
    /\ Len(journal.pending) <= MaxPending /\ Len(journal.prepared.pending) <= MaxPending
    /\ phase \in Phases
    /\ revision \in Nat /\ frames \in Nat /\ journals \in Nat /\ changes \in Nat /\ faults \in Nat

\* A frame is in the history at most once, however often an append failed
\* half-way, a process died in it or a restart replayed the outbox
\* (test_atomic_outbox_replays_crash_after_state_replace_exactly_once).
PublishedOnce ==
    \A m, n \in 1..Len(log) : log[m] # Torn /\ log[m].id = log[n].id => m = n

\* What checkpoint reports as consistent, under the state lock.
Consistent ==
    /\ phase = "idle"
    /\ journal.on
    /\ journal.gap = NoGap
    /\ Canonical(state) # Unreadable
    /\ Canonical(state) = journal.state

\* A consistent checkpoint after a commit of this contract means that the state at
\* hand is what a loss of power leaves, and that the history holds its frame for
\* good: nothing is pending.
ConsistentIsDurable ==
    (Consistent /\ Len(log) > 0 /\ LastOf(log) # Torn /\ LastOf(log).atomic) =>
        /\ synced.state = state
        /\ journal.pending = <<>>
        /\ safe = Len(log)
        /\ LastOf(log).sequence = journal.sequence
        /\ LastOf(log).journal = journal.id

\* read_feed's verdict "verified" for the window that begins with line a:
\* an atomic anchor, an unbroken chain of unmarked frames, and a checkpoint
\* that matches the last of them.
Follows(f, g) ==
    /\ f.journal = g.journal
    /\ f.sequence + 1 = g.sequence
    /\ f.after = g.before
Verified(a) ==
    /\ \A n \in a..Len(log) : log[n] # Torn /\ log[n].atomic
    /\ \A n \in (a + 1)..Len(log) : log[n].boundary = NoGap /\ Follows(log[n - 1], log[n])
    /\ log[a].after # Unreadable
    /\ Consistent
    /\ LastOf(log).after = Canonical(state)
    /\ LastOf(log).journal = journal.id
    /\ LastOf(log).sequence = journal.sequence

\* A window that the feed calls verified is the whole truth: between its frames,
\* and after the last of them, the allocator's state never changed without one,
\* whatever failed, died or was edited before or in between.
VerifiedIsComplete ==
    \A a \in 1..Len(log) : Verified(a) =>
        /\ \A n \in (a + 1)..Len(log) : log[n].at \in {log[n - 1].at, log[n - 1].at + 1}
        /\ LastOf(log).at = changes

\* The history never runs ahead of the state file: a loss of power cannot take back a
\* commit that was published.
NeverAhead ==
    \A n \in 1..Len(log) :
        (log[n] # Torn /\ synced.pending # <<>>
            /\ log[n].journal = LastOf(synced.pending).journal) =>
                log[n].sequence <= LastOf(synced.pending).sequence

\* The frames that survive a loss of power, in the history or in the state file.
Kept == Ids(SubSeq(log, 1, safe)) \cup Ids(synced.pending)

\* Evidence of a commit is not lost in silence: a frame disappears only in a write
\* that says so (an overflow), that has no outbox or that begins another journal.
EvidenceKept ==
    [][Kept \subseteq Kept'
       \/ /\ synced' # synced
          /\ \/ synced'.pending = <<>>
             \/ LastOf(synced'.pending).boundary = "outbox_overflow"
             \/ LastOf(synced'.pending).journal # LastOf(synced.pending).journal]_vars

\* What the history and a consistent checkpoint tell is never ahead of what a loss of
\* power would leave.
ToldIsDurable == ConsistentIsDurable /\ NeverAhead
=============================================================================
