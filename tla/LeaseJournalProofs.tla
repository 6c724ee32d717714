------------------------- MODULE LeaseJournalProofs -------------------------
(***************************************************************************)
(* Theorems about LeaseJournal: its types, that a frame is published once, *)
(* that the history never runs ahead of the state file, that a window a    *)
(* reader calls verified is the whole truth, that what is told is durable  *)
(* and that evidence is not lost in silence; for any states, any bound of  *)
(* the outbox and any number of commits, faults, crashes and restarts.     *)
(*                                                                         *)
(* The argument is about where frames are: in the history (Published, and  *)
(* Settled where a loss of power cannot reach them), or in an outbox, of   *)
(* which there are four: in the file, in what is synced of the file, in    *)
(* the journal's memory, and in what the journal restores when a write     *)
(* fails.                                                                  *)
(***************************************************************************)
EXTENDS LeaseJournal, TLAPS

In(s) == {s[n] : n \in 1..Len(s)}

Published == In(log) \ {Torn}
Settled == {log[n] : n \in 1..safe} \ {Torn}

Outboxes == In(file.pending) \cup In(synced.pending)
                \cup In(journal.pending) \cup In(journal.prepared.pending)

Placed == Published \cup Outboxes

\* Ids are drawn once, and a frame is not changed after it was placed.
FramesMade ==
    \A f \in Placed : f.id < frames /\ f.journal < journals
OneFrame ==
    \A e, f \in Placed : e.id = f.id => e = f

\* A published frame is the only one with its number in its journal.
OneNumber ==
    \A e \in Published, f \in Placed :
        e.journal = f.journal /\ e.sequence = f.sequence => e = f

\* An unmarked frame was made right after a frame that is settled.
Succeeds(g, h) ==
    h.journal = g.journal /\ h.sequence + 1 = g.sequence /\ g.at \in {h.at, h.at + 1}
UnmarkedSucceeds ==
    \A g \in Placed : g.boundary = NoGap => \E h \in Settled : Succeeds(g, h)

Evidence == FramesMade /\ OneFrame /\ OneNumber /\ UnmarkedSucceeds

\* An outbox holds frames of one journal in order.
Ordered(s) ==
    \A m, n \in 1..Len(s) : m < n => /\ s[m].sequence < s[n].sequence
                                     /\ s[m].journal = s[n].journal
OutboxesOrdered ==
    /\ Ordered(file.pending)
    /\ Ordered(synced.pending)
    /\ Ordered(journal.pending)
    /\ Ordered(journal.prepared.pending)

\* Every frame of a journal has a number up to q.
UpTo(F, j, q) == \A f \in F : f.journal = j => f.sequence <= q

\* The history is not ahead of a file.
Behind(s) == s # <<>> => UpTo(Published, LastOf(s).journal, LastOf(s).sequence)

Files == OutboxesOrdered /\ Behind(file.pending) /\ Behind(synced.pending)

\* The session's ids are drawn too.
SessionMade ==
    /\ \A k \in journal.known : k < frames
    /\ journal.on => journal.id < journals

Writing == phase \in {"write", "write_baseline", "renamed", "renamed_baseline"}

\* The journal's number is the last one used, also while a write is staged.
Numbers ==
    /\ \A f \in In(journal.pending) : f.journal = journal.id /\ f.sequence <= journal.sequence
    /\ \A f \in In(journal.prepared.pending) :
         f.journal = journal.id /\ f.sequence <= journal.prepared.sequence
    /\ journal.on => UpTo(Published, journal.id, journal.sequence)
    /\ journal.on /\ Writing => UpTo(Published, journal.id, journal.prepared.sequence)

\* What the thread has done at each place.
Places ==
    /\ ~ journal.on => journal.pending = <<>> /\ journal.prepared = NoWrite
    /\ ~ Writing => journal.prepared = NoWrite
    /\ phase \in {"down", "loaded"} => ~ journal.on
    /\ phase \in {"replay", "baseline", "flush", "write_baseline", "renamed_baseline"} => journal.on
    /\ phase \in {"replay", "baseline"} => journal.gap # NoGap
    /\ Writing /\ journal.on =>
         /\ journal.pending # <<>>
         /\ LastOf(journal.pending).sequence = journal.sequence
         /\ LastOf(journal.pending).at = changes
    /\ phase \in {"renamed", "renamed_baseline"} => file.pending = journal.pending

\* What is flushed is in the synced file, or belongs to a journal the file does
\* not know.
FlushesSynced ==
    Flushing =>
        \/ synced = file /\ In(journal.pending) \subseteq In(file.pending)
        \/ \A f \in In(file.pending) \cup In(synced.pending) : f.journal # journal.id

\* Of the pending frames the history holds exactly the known ones, unless the
\* journal has still to look.
KnownExact ==
    LET waiting == In(journal.pending) \cup In(journal.prepared.pending)
    IN  /\ \A f \in waiting : f.id \in journal.known => f \in Settled
        /\ journal.on /\ ~ journal.rescan =>
             \A f \in waiting : f \in Published => f.id \in journal.known

\* The frame of the journal's last number: in the outbox while it is flushed,
\* settled when no gap is known.
Stands(h, n) == h.journal = journal.id /\ h.sequence = journal.sequence /\ h.at = n
Current ==
    /\ phase = "flush" =>
         \/ /\ journal.pending # <<>>
            /\ Stands(LastOf(journal.pending), changes)
         \/ \E h \in Settled : Stands(h, changes)
    /\ journal.on /\ journal.gap = NoGap /\ phase \in {"idle", "changed"} =>
         /\ journal.state # Unreadable
         /\ phase = "idle" => Canonical(state) = journal.state
         /\ \E h \in Settled :
              IF Canonical(state) = journal.state THEN Stands(h, changes)
              ELSE Stands(h, changes - 1)

Session == SessionMade /\ Numbers /\ Places /\ FlushesSynced /\ KnownExact /\ Current

JInv == TypeOK /\ PublishedOnce /\ Evidence /\ Files /\ Session

-----------------------------------------------------------------------------
(* Sequences as sets of their elements *)

LEMMA InAppend ==
    ASSUME NEW S, NEW s \in Seq(S), NEW e
    PROVE  /\ In(Append(s, e)) = In(s) \cup {e}
           /\ Len(Append(s, e)) = Len(s) + 1
           /\ LastOf(Append(s, e)) = e
           /\ Append(s, e) # <<>>
<1> DEFINE t == Append(s, e)
<1>1. /\ Len(s) \in Nat /\ Len(t) = Len(s) + 1
      /\ \A n \in 1..Len(s) : t[n] = s[n]
      /\ t[Len(s) + 1] = e
  OBVIOUS
<1>2. In(t) = In(s) \cup {e}
  <2> HIDE DEF t
  <2> QED BY <1>1 DEF In
<1> QED BY <1>1, <1>2 DEF LastOf

LEMMA InTail ==
    ASSUME NEW S, NEW s \in Seq(S), s # <<>>
    PROVE  /\ In(s) = {Head(s)} \cup In(Tail(s))
           /\ Head(s) \in S
           /\ Tail(s) \in Seq(S)
           /\ Len(Tail(s)) = Len(s) - 1
           /\ Tail(s) = <<>> => LastOf(s) = Head(s)
           /\ Tail(s) # <<>> => LastOf(Tail(s)) = LastOf(s)
<1> DEFINE t == Tail(s)
<1>0. Len(s) \in Nat /\ Len(s) > 0 /\ Head(s) = s[1] /\ s[1] \in S
  OBVIOUS
<1>a. t \in Seq(S) /\ Len(t) = Len(s) - 1 /\ \A n \in 1..Len(t) : t[n] = s[n + 1]
  OBVIOUS
<1>b. Len(t) \in Nat /\ (t = <<>> <=> Len(t) = 0)
  <2> HIDE DEF t
  <2> QED BY <1>a
<1>1. /\ Len(s) \in Nat /\ Len(s) > 0
      /\ t \in Seq(S) /\ Len(t) = Len(s) - 1
      /\ \A n \in 1..Len(t) : t[n] = s[n + 1]
      /\ Head(s) = s[1] /\ s[1] \in S
      /\ t = <<>> => Len(t) = 0
      /\ t # <<>> => Len(t) > 0
  BY <1>0, <1>a, <1>b
<1>2. In(s) = {Head(s)} \cup In(t)
  <2> HIDE DEF t
  <2>1. ASSUME NEW n \in 1..Len(s)
        PROVE  s[n] \in {Head(s)} \cup In(t)
    <3>1. CASE n = 1
      BY <3>1, <1>1
    <3>2. CASE n # 1
      <4>1. n - 1 \in 1..Len(t) /\ t[n - 1] = s[n]
        BY <3>2, <1>1
      <4> QED BY <4>1 DEF In
    <3> QED BY <3>1, <3>2
  <2>2. ASSUME NEW n \in 1..Len(t)
        PROVE  t[n] \in In(s)
    BY <1>1 DEF In
  <2>3. Head(s) \in In(s)
    BY <1>1 DEF In
  <2> QED BY <2>1, <2>2, <2>3 DEF In
<1>3. t = <<>> => LastOf(s) = Head(s)
  BY <1>1 DEF LastOf
<1>4. t # <<>> => LastOf(t) = LastOf(s)
  <2> HIDE DEF t
  <2> QED BY <1>1 DEF LastOf
<1> QED BY <1>1, <1>2, <1>3, <1>4

LEMMA InLast ==
    ASSUME NEW S, NEW s \in Seq(S), s # <<>>
    PROVE  LastOf(s) \in In(s) /\ LastOf(s) \in S
<1>1. Len(s) \in 1..Len(s)
  OBVIOUS
<1> QED BY <1>1 DEF LastOf, In

LEMMA InTyped ==
    ASSUME NEW S, NEW s \in Seq(S)
    PROVE  In(s) \subseteq S
BY DEF In

LEMMA InEmpty == In(<<>>) = {}
BY DEF In

LEMMA FrameFields ==
    ASSUME NEW f \in Frame
    PROVE  /\ f.id \in Nat /\ f.journal \in Nat /\ f.sequence \in Nat /\ f.at \in Nat
           /\ f.atomic \in BOOLEAN /\ f.boundary \in Gaps
           /\ f.before \in Snapshots /\ f.after \in Snapshots
           /\ f # Torn
<1>1. /\ f.id \in Nat /\ f.journal \in Nat /\ f.sequence \in Nat /\ f.at \in Nat
      /\ f.atomic \in BOOLEAN /\ f.boundary \in Gaps
      /\ f.before \in Snapshots /\ f.after \in Snapshots
  BY DEF Frame
<1>2. Torn.id = -1
  BY DEF Torn
<1>3. f # Torn
  BY <1>1, <1>2
<1> QED BY <1>1, <1>3

\* Frames in order: with a later one at the end, without the first.
LEMMA OrderedAppend ==
    ASSUME NEW s \in Seq(Frame), NEW e \in Frame, Ordered(s),
           \A f \in In(s) : f.journal = e.journal /\ f.sequence < e.sequence
    PROVE  Ordered(Append(s, e))
<1> DEFINE t == Append(s, e)
<1>1. /\ Len(s) \in Nat /\ Len(t) = Len(s) + 1
      /\ \A n \in 1..Len(s) : t[n] = s[n]
      /\ t[Len(s) + 1] = e
  OBVIOUS
<1>2. \A n \in 1..Len(s) : s[n].journal = e.journal /\ s[n].sequence < e.sequence
  BY DEF In
<1> HIDE DEF t
<1>3. Ordered(t)
  BY <1>1, <1>2 DEF Ordered
<1> QED BY <1>3 DEF t

LEMMA OrderedTail ==
    ASSUME NEW s \in Seq(Frame), s # <<>>, Ordered(s)
    PROVE  /\ Ordered(Tail(s))
           /\ Head(s) \notin In(Tail(s))
<1> DEFINE t == Tail(s)
<1>1. /\ Len(s) \in Nat /\ Len(t) = Len(s) - 1 /\ Len(s) > 0
      /\ \A n \in 1..Len(t) : t[n] = s[n + 1]
      /\ Head(s) = s[1]
  OBVIOUS
<1>2. \A n \in 1..Len(s) : s[n].sequence \in Nat
  BY FrameFields
<1> HIDE DEF t
<1>3. ASSUME NEW m \in 1..Len(t), NEW n \in 1..Len(t), m < n
      PROVE  t[m].sequence < t[n].sequence /\ t[m].journal = t[n].journal
  <2>1. m + 1 \in 1..Len(s) /\ n + 1 \in 1..Len(s) /\ m + 1 < n + 1
    BY <1>1, <1>3
  <2>2. s[m + 1].sequence < s[n + 1].sequence /\ s[m + 1].journal = s[n + 1].journal
    BY <2>1 DEF Ordered
  <2> QED BY <2>2, <1>1
<1>4. ASSUME NEW n \in 1..Len(t) PROVE t[n] # Head(s)
  <2>1. 1 \in 1..Len(s) /\ n + 1 \in 1..Len(s) /\ 1 < n + 1
    BY <1>1
  <2>2. s[1].sequence < s[n + 1].sequence
    BY <2>1 DEF Ordered
  <2> QED BY <2>1, <2>2, <1>1, <1>2
<1> QED BY <1>3, <1>4 DEF t, In, Ordered

\* In an ordered outbox a number is used once, and none exceeds the last.
LEMMA OrderedNumbers ==
    ASSUME NEW s \in Seq(Frame), Ordered(s)
    PROVE  /\ \A e, f \in In(s) : e.journal = f.journal
                 /\ (e.sequence = f.sequence => e = f)
           /\ \A f \in In(s) : f.journal = LastOf(s).journal
                 /\ f.sequence <= LastOf(s).sequence
<1>1. /\ Len(s) \in Nat
      /\ \A n \in 1..Len(s) : s[n] \in Frame /\ s[n].sequence \in Nat
  BY FrameFields
<1>2. ASSUME NEW m \in 1..Len(s), NEW n \in 1..Len(s)
      PROVE  s[m].journal = s[n].journal /\ (s[m].sequence = s[n].sequence => s[m] = s[n])
  <2>1. CASE m < n
    BY <2>1, <1>1 DEF Ordered
  <2>2. CASE n < m
    BY <2>2, <1>1 DEF Ordered
  <2>3. CASE m = n
    BY <2>3
  <2> QED BY <2>1, <2>2, <2>3, <1>1
<1>3. ASSUME NEW m \in 1..Len(s)
      PROVE  s[m].journal = LastOf(s).journal /\ s[m].sequence <= LastOf(s).sequence
  <2>1. Len(s) \in 1..Len(s)
    BY <1>1
  <2>2. CASE m < Len(s)
    BY <2>1, <2>2, <1>1 DEF Ordered, LastOf
  <2>3. CASE m = Len(s)
    BY <2>1, <2>3, <1>1 DEF LastOf
  <2> QED BY <2>2, <2>3, <1>1
<1> QED BY <1>2, <1>3 DEF In

LEMMA OrderedShort ==
    ASSUME NEW e
    PROVE  Ordered(<<>>) /\ Ordered(<<e>>) /\ In(<<e>>) = {e} /\ LastOf(<<e>>) = e
BY DEF Ordered, In, LastOf
-----------------------------------------------------------------------------
(* Types *)

LEMMA JournalFields ==
    ASSUME NEW j \in JournalType
    PROVE  /\ j.on \in BOOLEAN /\ j.id \in Nat /\ j.sequence \in Nat
           /\ j.state \in Snapshots /\ j.gap \in Gaps
           /\ j.pending \in Seq(Frame) /\ j.known \in SUBSET Nat
           /\ j.rescan \in BOOLEAN /\ j.stamped \in BOOLEAN
           /\ j.prepared \in [pending : Seq(Frame), sequence : Nat]
           /\ j.prepared.pending \in Seq(Frame) /\ j.prepared.sequence \in Nat
BY DEF JournalType

LEMMA FileFields ==
    ASSUME NEW f \in StateFileType
    PROVE  /\ f.exists \in BOOLEAN /\ f.state \in States
           /\ f.pending \in Seq(Frame) /\ f.revision \in Nat
BY DEF StateFileType

LEMMA StateFileTyped ==
    ASSUME NEW s \in States, NEW p \in Seq(Frame), NEW r \in Nat
    PROVE  /\ StateFile(s, p, r) \in StateFileType
           /\ StateFile(s, p, r).pending = p
           /\ StateFile(s, p, r).state = s
BY DEF StateFile, StateFileType

\* A file without an outbox.
LEMMA BareFileTyped ==
    ASSUME NEW s \in States
    PROVE  StateFile(s, <<>>, 0) \in StateFileType /\ StateFile(s, <<>>, 0).pending = <<>>
<1>1. <<>> \in Seq(Frame) /\ 0 \in Nat
  OBVIOUS
<1> QED BY <1>1, StateFileTyped, ZenonT(40)

LEMMA CanonicalTyped ==
    ASSUME NEW s \in States
    PROVE  Canonical(s) \in Snapshots
BY DEF Canonical, Snapshots

LEMMA GapsTyped ==
    /\ NoGap \in Gaps
    /\ "session_start" \in Gaps /\ "session_start" # NoGap
    /\ "state_persist_failed" \in Gaps /\ "state_persist_failed" # NoGap
    /\ "journal_write_failed" \in Gaps /\ "journal_write_failed" # NoGap
    /\ "invalid_state" \in Gaps /\ "invalid_state" # NoGap
    /\ "clock_reversal" \in Gaps /\ "clock_reversal" # NoGap
    /\ "unconfirmed_mutation" \in Gaps /\ "unconfirmed_mutation" # NoGap
    /\ "outbox_overflow" \in Gaps /\ "outbox_overflow" # NoGap
BY DEF Gaps, NoGap

\* A journal before its first frame.
LEMMA NewJournalTyped ==
    ASSUME NEW i \in Nat
    PROVE  /\ NewJournal(i) \in JournalType
           /\ NewJournal(i).on = TRUE /\ NewJournal(i).id = i
           /\ NewJournal(i).sequence = 0 /\ NewJournal(i).pending = <<>>
           /\ NewJournal(i).known = {} /\ NewJournal(i).rescan = FALSE
           /\ NewJournal(i).gap = "session_start" /\ NewJournal(i).prepared = NoWrite
<1>1. <<>> \in Seq(Frame) /\ Empty \in Snapshots
  BY JournalAssumption DEF Snapshots
<1> QED BY <1>1, GapsTyped DEF NewJournal, NoWrite, JournalType

LEMMA NoJournalTyped ==
    /\ NoJournal \in JournalType
    /\ NoJournal.on = FALSE /\ NoJournal.pending = <<>> /\ NoJournal.known = {}
    /\ NoJournal.prepared = NoWrite /\ NoWrite.pending = <<>> /\ NoWrite.sequence = 0
<1>1. NewJournal(0) \in JournalType
  BY NewJournalTyped
<1>2. /\ NoJournal \in JournalType
      /\ NoJournal.on = FALSE /\ NoJournal.pending = <<>> /\ NoJournal.known = {}
      /\ NoJournal.prepared = NoWrite
  BY <1>1, NewJournalTyped DEF NoJournal, JournalType
<1> QED BY <1>2 DEF NoWrite

LEMMA FrameOfTyped ==
    ASSUME TypeOK, NEW j \in JournalType, NEW atomic \in BOOLEAN, NEW reversed \in BOOLEAN
    PROVE  /\ FrameOf(j, atomic, reversed) \in Frame
           /\ FrameOf(j, atomic, reversed).id = frames
           /\ FrameOf(j, atomic, reversed).journal = j.id
           /\ FrameOf(j, atomic, reversed).sequence = j.sequence + 1
           /\ FrameOf(j, atomic, reversed).at = changes
           /\ FrameOf(j, atomic, reversed).boundary = NoGap =>
                j.gap = NoGap /\ Canonical(state) # Unreadable
<1> DEFINE b == IF reversed THEN "clock_reversal"
                ELSE IF Canonical(state) = Unreadable THEN "invalid_state" ELSE j.gap
<1>1. /\ frames \in Nat /\ changes \in Nat /\ j.id \in Nat /\ j.sequence + 1 \in Nat
      /\ j.state \in Snapshots /\ Canonical(state) \in Snapshots /\ j.gap \in Gaps
  BY JournalFields, CanonicalTyped DEF TypeOK
<1>2. b \in Gaps /\ (b = NoGap => j.gap = NoGap /\ Canonical(state) # Unreadable)
  BY <1>1, GapsTyped
<1>3. FrameOf(j, atomic, reversed) =
        [id |-> frames, journal |-> j.id, sequence |-> j.sequence + 1, before |-> j.state,
         after |-> Canonical(state), boundary |-> b, atomic |-> atomic, at |-> changes]
  BY DEF FrameOf
<1> HIDE DEF b
<1>4. FrameOf(j, atomic, reversed) \in Frame
  BY <1>1, <1>2, <1>3 DEF Frame
<1> QED BY <1>2, <1>3, <1>4

\* The frame a write carries: as made, or marked as an overflow.
Carried(frame) == {frame, [frame EXCEPT !.boundary = "outbox_overflow"]}

LEMMA CarriedTyped ==
    ASSUME NEW frame \in Frame, NEW g \in Carried(frame)
    PROVE  /\ g \in Frame
           /\ g.id = frame.id /\ g.journal = frame.journal /\ g.sequence = frame.sequence
           /\ g.at = frame.at
           /\ g.boundary = NoGap => frame.boundary = NoGap
<1>1. CASE g = frame
  BY <1>1
<1>2. CASE g = [frame EXCEPT !.boundary = "outbox_overflow"]
  BY <1>2, GapsTyped DEF Frame
<1> QED BY <1>1, <1>2 DEF Carried

\* The outbox with a frame: the frame is its last.
LEMMA EnvelopeAdds ==
    ASSUME NEW j \in JournalType, Len(j.pending) <= MaxPending, NEW frame \in Frame
    PROVE  \E g \in Carried(frame) :
             /\ \/ Envelope(j, frame) = Append(j.pending, g)
                \/ Envelope(j, frame) = <<g>>
             /\ Envelope(j, frame) \in Seq(Frame)
             /\ Len(Envelope(j, frame)) <= MaxPending
             /\ Envelope(j, frame) # <<>>
             /\ LastOf(Envelope(j, frame)) = g
             /\ g \in In(Envelope(j, frame))
             /\ In(Envelope(j, frame)) \subseteq In(j.pending) \cup {g}
<1>0. j.pending \in Seq(Frame) /\ Len(j.pending) \in Nat /\ MaxPending \in Nat \ {0}
  BY JournalFields, JournalAssumption
<1>1. CASE Len(j.pending) < MaxPending
  <2>1. Envelope(j, frame) = Append(j.pending, frame)
    BY <1>1 DEF Envelope
  <2>2. frame \in Carried(frame)
    BY DEF Carried
  <2>3. /\ Append(j.pending, frame) \in Seq(Frame)
        /\ Len(Append(j.pending, frame)) = Len(j.pending) + 1
        /\ In(Append(j.pending, frame)) = In(j.pending) \cup {frame}
        /\ LastOf(Append(j.pending, frame)) = frame
        /\ Append(j.pending, frame) # <<>>
    BY <1>0, InAppend
  <2>4. Len(Append(j.pending, frame)) <= MaxPending
    BY <2>3, <1>0, <1>1
  <2> QED BY <2>1, <2>2, <2>3, <2>4
<1>2. CASE ~ (Len(j.pending) < MaxPending)
  <2> DEFINE g == [frame EXCEPT !.boundary = "outbox_overflow"]
  <2>1. Envelope(j, frame) = <<g>>
    BY <1>2 DEF Envelope
  <2>2. g \in Carried(frame)
    BY DEF Carried
  <2>3. g \in Frame
    BY <2>2, CarriedTyped
  <2> HIDE DEF g
  <2>4. <<g>> \in Seq(Frame) /\ Len(<<g>>) = 1 /\ <<g>> # <<>>
    BY <2>3
  <2>5. In(<<g>>) = {g} /\ LastOf(<<g>>) = g
    BY OrderedShort
  <2>6. Len(<<g>>) <= MaxPending
    BY <2>4, <1>0
  <2> QED BY <2>1, <2>2, <2>4, <2>5, <2>6
<1> QED BY <1>1, <1>2

LEMMA StagedTyped ==
    ASSUME NEW j \in JournalType, Len(j.pending) <= MaxPending, NEW frame \in Frame
    PROVE  /\ Staged(j, frame) \in JournalType
           /\ Staged(j, frame).on = j.on /\ Staged(j, frame).id = j.id
           /\ Staged(j, frame).gap = j.gap /\ Staged(j, frame).state = j.state
           /\ Staged(j, frame).known = j.known /\ Staged(j, frame).rescan = j.rescan
           /\ Staged(j, frame).sequence = frame.sequence
           /\ Staged(j, frame).pending = Envelope(j, frame)
           /\ Staged(j, frame).prepared.pending = j.pending
           /\ Staged(j, frame).prepared.sequence = j.sequence
<1>1. Envelope(j, frame) \in Seq(Frame) /\ frame.sequence \in Nat
  BY EnvelopeAdds, FrameFields
<1>2. j.pending \in Seq(Frame) /\ j.sequence \in Nat
  BY JournalFields
<1> QED BY <1>1, <1>2 DEF Staged, JournalType

LEMMA FailedTyped ==
    ASSUME NEW j \in JournalType
    PROVE  /\ Failed(j) \in JournalType
           /\ Failed(j).on = j.on /\ Failed(j).id = j.id
           /\ Failed(j).known = j.known /\ Failed(j).rescan = j.rescan
           /\ Failed(j).sequence = j.prepared.sequence
           /\ Failed(j).pending = j.prepared.pending
           /\ Failed(j).prepared = NoWrite
           /\ Failed(j).gap = "state_persist_failed"
<1>1. j.prepared.pending \in Seq(Frame) /\ j.prepared.sequence \in Nat
  BY JournalFields
<1>2. NoWrite \in [pending : Seq(Frame), sequence : Nat]
  BY DEF NoWrite
<1> QED BY <1>1, <1>2, GapsTyped DEF Failed, JournalType

\* Ids(s) of frames are numbers.
LEMMA IdsTyped ==
    ASSUME NEW s \in Seq(Frame)
    PROVE  Ids(s) \subseteq Nat /\ Ids(s) = {f.id : f \in In(s)}
<1>1. \A n \in 1..Len(s) : s[n] \in Frame /\ s[n].id \in Nat
  BY FrameFields
<1> QED BY <1>1 DEF Ids, In

\* What the recovery builds from the file.
Recovered ==
    [NewJournal(LastOf(file.pending).journal) EXCEPT
         !.sequence = LastOf(file.pending).sequence,
         !.pending = file.pending,
         !.known = KnownOf(file.pending)]

LEMMA RecoveredTyped ==
    ASSUME TypeOK, Recoverable
    PROVE  /\ Recovered \in JournalType
           /\ file.pending # <<>>
           /\ Recovered.on = TRUE /\ Recovered.rescan = FALSE
           /\ Recovered.id = LastOf(file.pending).journal
           /\ Recovered.sequence = LastOf(file.pending).sequence
           /\ Recovered.pending = file.pending
           /\ Recovered.known = KnownOf(file.pending)
           /\ Recovered.gap = "session_start" /\ Recovered.prepared = NoWrite
<1>1. file.pending \in Seq(Frame) /\ file.pending # <<>>
  BY FileFields DEF TypeOK, Recoverable
<1>2. LastOf(file.pending).journal \in Nat /\ LastOf(file.pending).sequence \in Nat
  BY <1>1, InLast, FrameFields
<1>3. KnownOf(file.pending) \in SUBSET Nat
  BY <1>1, IdsTyped DEF KnownOf
<1> DEFINE i == LastOf(file.pending).journal
<1>4. NewJournal(i) \in JournalType
  BY <1>2, NewJournalTyped
<1>5. /\ NewJournal(i).on = TRUE /\ NewJournal(i).id = i /\ NewJournal(i).rescan = FALSE
      /\ NewJournal(i).gap = "session_start" /\ NewJournal(i).prepared = NoWrite
  BY <1>2, NewJournalTyped
<1> HIDE DEF i
<1>6. Recovered = [NewJournal(i) EXCEPT !.sequence = LastOf(file.pending).sequence,
                                        !.pending = file.pending,
                                        !.known = KnownOf(file.pending)]
  BY DEF Recovered, i
<1>7. /\ Recovered \in JournalType
      /\ Recovered.on = NewJournal(i).on /\ Recovered.rescan = NewJournal(i).rescan
      /\ Recovered.id = NewJournal(i).id
      /\ Recovered.sequence = LastOf(file.pending).sequence
      /\ Recovered.pending = file.pending
      /\ Recovered.known = KnownOf(file.pending)
      /\ Recovered.gap = NewJournal(i).gap /\ Recovered.prepared = NewJournal(i).prepared
  <2> HIDE DEF Recovered
  <2> QED BY <1>1, <1>2, <1>3, <1>4, <1>6 DEF JournalType
<1> QED BY <1>1, <1>5, <1>7 DEF i

\* A flush that ends leaves the outbox alone.
LEMMA FlushEndsTyped ==
    ASSUME TypeOK, NEW j \in JournalType, NEW gap \in Gaps, FlushEnds(j, gap)
    PROVE  /\ journal' \in JournalType
           /\ journal'.on = j.on /\ journal'.id = j.id /\ journal'.sequence = j.sequence
           /\ journal'.pending = j.pending /\ journal'.known = j.known
           /\ journal'.rescan = j.rescan /\ journal'.prepared = j.prepared
           /\ phase = "replay" => /\ phase' = "baseline"
                                  /\ journal'.gap = IF gap = NoGap THEN j.gap ELSE gap
           /\ phase # "replay" => /\ phase' = "idle" /\ journal'.gap = gap
                                  /\ journal'.state = Canonical(state)
           /\ phase' \in Phases
<1>1. Canonical(state) \in Snapshots
  BY CanonicalTyped DEF TypeOK
<1>2. CASE phase = "replay"
  BY <1>2 DEF FlushEnds, JournalType, Phases
<1>3. CASE phase # "replay"
  <2>1. (j.stamped \/ gap # "journal_write_failed") \in BOOLEAN
    OBVIOUS
  <2> QED BY <1>1, <1>3, <2>1 DEF FlushEnds, JournalType, Phases
<1> QED BY <1>2, <1>3

\* What a failed append leaves is lines, and no shorter than before.
LEMMA RemainsTyped ==
    ASSUME log \in Seq(Frame \cup {Torn}), NEW frame \in Frame, NEW rest \in Remains(frame)
    PROVE  /\ rest \in Seq(Frame \cup {Torn})
           /\ Len(rest) >= Len(log)
           /\ \A n \in 1..Len(log) : rest[n] = log[n]
<1>1. Torn \in Frame \cup {Torn} /\ frame \in Frame \cup {Torn}
  OBVIOUS
<1>2. ASSUME NEW e \in Frame \cup {Torn}
      PROVE  /\ Append(log, e) \in Seq(Frame \cup {Torn})
             /\ Len(Append(log, e)) >= Len(log)
             /\ \A n \in 1..Len(log) : Append(log, e)[n] = log[n]
  OBVIOUS
<1>3. Len(log) \in Nat
  OBVIOUS
<1> QED BY <1>1, <1>2, <1>3 DEF Remains

\* TypeOK is inductive: one case per action.
LEMMA TypesStep == TypeOK /\ [Next]_vars => TypeOK'
<1> SUFFICES ASSUME TypeOK, [Next]_vars PROVE TypeOK'
  OBVIOUS
<1> USE DEF TypeOK
<1>a. /\ journal.pending \in Seq(Frame) /\ Len(journal.pending) <= MaxPending
      /\ journal.prepared.pending \in Seq(Frame)
      /\ journal.id \in Nat /\ journal.sequence \in Nat
  BY JournalFields
<1>b. MaxPending \in Nat \ {0} /\ Empty \in States
  BY JournalAssumption
<1>c. Len(<<>>) <= MaxPending /\ <<>> \in Seq(Frame)
  BY <1>b
<1>d. /\ Len(log) \in Nat /\ safe \in Nat
      /\ file.pending \in Seq(Frame) /\ synced.pending \in Seq(Frame)
  BY FileFields
<1>e. /\ NoJournal \in JournalType
      /\ Len(NoJournal.pending) <= MaxPending /\ Len(NoJournal.prepared.pending) <= MaxPending
  BY NoJournalTyped, <1>c
<1>f. ASSUME Gone PROVE /\ state' \in States /\ journal' \in JournalType /\ phase' \in Phases
                        /\ Len(journal'.pending) <= MaxPending
                        /\ Len(journal'.prepared.pending) <= MaxPending
  BY <1>f, <1>b, <1>e DEF Gone, Phases
<1>g. ASSUME NEW frame \in Frame
      PROVE  /\ Staged(journal, frame) \in JournalType
             /\ Len(Staged(journal, frame).pending) <= MaxPending
             /\ Len(Staged(journal, frame).prepared.pending) <= MaxPending
  <2>1. Staged(journal, frame).pending = Envelope(journal, frame)
    BY StagedTyped
  <2>2. Len(Envelope(journal, frame)) <= MaxPending
    BY EnvelopeAdds
  <2> QED BY <2>1, <2>2, StagedTyped
<1>1. CASE Load
  BY <1>1 DEF Load, Fault, disk, Phases
<1>2. CASE LoadClamped
  <2>1. file' \in StateFileType /\ Len(file'.pending) <= MaxPending
    BY <1>2, <1>c, BareFileTyped DEF LoadClamped
  <2> QED BY <1>2, <2>1 DEF LoadClamped, Fault, Phases
<1>3. CASE OpenRecovered
  <2>1. journal' = Recovered /\ Recoverable
    BY <1>3 DEF OpenRecovered, Recovered
  <2>2. Len(Recovered.pending) <= MaxPending /\ Len(Recovered.prepared.pending) <= MaxPending
    BY <2>1, <1>c, RecoveredTyped, NoJournalTyped
  <2>3. journal' \in JournalType
    BY <2>1, RecoveredTyped
  <2>4. Len(journal'.pending) <= MaxPending /\ Len(journal'.prepared.pending) <= MaxPending
    BY <2>1, <2>2
  <2> QED BY <1>3, <1>d, <2>3, <2>4 DEF OpenRecovered, Phases
<1>4. CASE OpenLegacy
  <2> DEFINE j == NewJournal(journals)
             g == FrameOf(j, FALSE, FALSE)
  <2>1. j \in JournalType /\ Len(j.pending) <= MaxPending
    BY <1>c, NewJournalTyped
  <2>2. g \in Frame
    BY <2>1, FrameOfTyped
  <2>3. journal' = [Staged(j, g) EXCEPT !.prepared = NoWrite]
    BY <1>4 DEF OpenLegacy
  <2> HIDE DEF j, g
  <2>4. Staged(j, g) \in JournalType /\ Len(Staged(j, g).pending) <= MaxPending
    <3>1. Len(Envelope(j, g)) <= MaxPending
      BY <2>1, <2>2, EnvelopeAdds
    <3> QED BY <2>1, <2>2, <3>1, StagedTyped
  <2>5. NoWrite \in [pending : Seq(Frame), sequence : Nat]
    BY <1>c DEF NoWrite
  <2>6. /\ journal' \in JournalType /\ journal'.pending = Staged(j, g).pending
        /\ journal'.prepared = NoWrite
    <3> DEFINE k == Staged(j, g)
    <3>1. k \in JournalType /\ journal' = [k EXCEPT !.prepared = NoWrite]
      BY <2>3, <2>4
    <3> HIDE DEF k
    <3>2. /\ journal' \in JournalType /\ journal'.pending = k.pending
          /\ journal'.prepared = NoWrite
      BY <3>1, <2>5 DEF JournalType
    <3> QED BY <3>2 DEF k
  <2>7. Len(journal'.pending) <= MaxPending /\ Len(journal'.prepared.pending) <= MaxPending
    BY <1>c, <2>4, <2>6, NoJournalTyped
  <2>8. /\ UNCHANGED <<state, file, synced, log, safe, revision, changes, faults>>
        /\ frames' = frames + 1 /\ journals' = journals + 1 /\ phase' = "flush"
    BY <1>4 DEF OpenLegacy, disk
  <2> QED BY <2>6, <2>7, <2>8, SMTT(30) DEF Phases
<1>5. CASE OpenNew
  <2>1. /\ journal' \in JournalType /\ journal'.pending = <<>> /\ journal'.prepared = NoWrite
    BY <1>5, NewJournalTyped DEF OpenNew
  <2> QED BY <1>5, <1>c, <2>1, NoJournalTyped DEF OpenNew, disk, Phases
<1>6. CASE OpenFails
  BY <1>6, <1>e, <1>d DEF OpenFails, Fault, Phases
<1>7. CASE \E s \in States : Change(s)
  BY <1>7 DEF Change, disk, Phases
<1>8. CASE Raise
  <2>1. [journal EXCEPT !.gap = "unconfirmed_mutation"] \in JournalType
    BY GapsTyped DEF JournalType
  <2>2. /\ [journal EXCEPT !.gap = "unconfirmed_mutation"].pending = journal.pending
        /\ [journal EXCEPT !.gap = "unconfirmed_mutation"].prepared = journal.prepared
    BY DEF JournalType
  <2> QED BY <1>8, <2>1, <2>2 DEF Raise, Fault, disk, Phases
<1>9. CASE Prepare
  <2>1. journal' \in JournalType /\ Len(journal'.pending) <= MaxPending
        /\ Len(journal'.prepared.pending) <= MaxPending /\ frames' \in Nat
    <3>1. CASE journal.on
      <4>1. PICK reversed \in Reversals(journal) :
              journal' = Staged(journal, FrameOf(journal, TRUE, reversed))
        BY <1>9, <3>1 DEF Prepare
      <4>2. reversed \in BOOLEAN
        BY DEF Reversals
      <4>3. FrameOf(journal, TRUE, reversed) \in Frame
        BY <4>2, FrameOfTyped
      <4> DEFINE g == FrameOf(journal, TRUE, reversed)
      <4>4. g \in Frame /\ journal' = Staged(journal, g)
        BY <4>1, <4>3
      <4>5. frames' \in Nat
        BY <1>9, <3>1 DEF Prepare
      <4> HIDE DEF g
      <4> QED BY <4>4, <4>5, <1>g
    <3>2. CASE ~ journal.on
      BY <1>9, <3>2 DEF Prepare
    <3> QED BY <3>1, <3>2
  <2> QED BY <1>9, <2>1 DEF Prepare, disk, Phases
<1>10. CASE Rename
  <2>1. file' \in StateFileType /\ Len(file'.pending) <= MaxPending
    BY <1>10, <1>a, StateFileTyped DEF Rename, FileNow
  <2> QED BY <1>10, <2>1 DEF Rename, Phases
<1>11. CASE WriteFails
  <2>1. /\ Failed(journal) \in JournalType
        /\ Len(Failed(journal).pending) <= MaxPending
        /\ Len(Failed(journal).prepared.pending) <= MaxPending
    BY <1>c, FailedTyped, NoJournalTyped
  <2>2. /\ journal' \in JournalType /\ Len(journal'.pending) <= MaxPending
        /\ Len(journal'.prepared.pending) <= MaxPending
    BY <1>11, <1>e, <2>1 DEF WriteFails
  <2> QED BY <1>11, <2>2 DEF WriteFails, Fault, disk, Phases
<1>12. CASE Commit
  <2>1. NoWrite \in [pending : Seq(Frame), sequence : Nat]
    BY <1>c DEF NoWrite
  <2>2. /\ journal' \in JournalType /\ journal'.pending = journal.pending
        /\ journal'.prepared = NoWrite
    BY <1>12, <2>1 DEF Commit, JournalType
  <2> QED BY <1>12, <1>a, <1>c, <2>2, NoJournalTyped DEF Commit, Phases
<1>13. CASE Rescan
  <2>1. KnownOf(journal.pending) \in SUBSET Nat
    BY <1>a, IdsTyped DEF KnownOf
  <2>2. /\ journal' \in JournalType /\ journal'.pending = journal.pending
        /\ journal'.prepared = journal.prepared
    BY <1>13, <2>1 DEF Rescan, JournalType
  <2> QED BY <1>13, <2>2, <1>d DEF Rescan
<1>14. CASE Publish
  <2>1. /\ Head(journal.pending) \in Frame /\ Tail(journal.pending) \in Seq(Frame)
        /\ Len(Tail(journal.pending)) = Len(journal.pending) - 1
    BY <1>14, <1>a, InTail DEF Publish
  <2>2. /\ journal' \in JournalType /\ journal'.pending = Tail(journal.pending)
        /\ journal'.prepared = journal.prepared
    BY <1>14, <2>1 DEF Publish, JournalType
  <2>3. Len(journal'.pending) <= MaxPending
    BY <1>a, <1>b, <2>1, <2>2
  <2>4. log' \in Seq(Frame \cup {Torn}) /\ safe' \in 0..Len(log')
    BY <1>14, <2>1, <1>d DEF Publish
  <2> QED BY <1>14, <2>2, <2>3, <2>4 DEF Publish
<1>15. CASE Skip
  <2>1. /\ Tail(journal.pending) \in Seq(Frame)
        /\ Len(Tail(journal.pending)) = Len(journal.pending) - 1
    BY <1>15, <1>a, InTail DEF Skip
  <2>2. /\ journal' \in JournalType /\ journal'.pending = Tail(journal.pending)
        /\ journal'.prepared = journal.prepared
    BY <1>15, <2>1 DEF Skip, JournalType
  <2>3. Len(journal'.pending) <= MaxPending
    BY <1>a, <1>b, <2>1, <2>2
  <2> QED BY <1>15, <2>2, <2>3 DEF Skip, disk
<1>16. CASE FlushDone
  <2>1. PICK gap \in Gaps : FlushEnds(journal, gap)
    BY <1>16, GapsTyped DEF FlushDone
  <2> QED BY <1>16, <2>1, FlushEndsTyped DEF FlushDone, disk
<1>17. CASE RescanFails
  <2>1. PICK gap \in Gaps : FlushEnds(journal, gap)
    BY <1>17, GapsTyped DEF RescanFails
  <2> QED BY <1>17, <2>1, FlushEndsTyped DEF RescanFails, Fault, disk
<1>18. CASE AppendFails
  <2> DEFINE j == [journal EXCEPT !.rescan = TRUE]
  <2>1. /\ j \in JournalType /\ j.pending = journal.pending
        /\ j.prepared = journal.prepared
    BY DEF JournalType
  <2>2. PICK gap \in Gaps : FlushEnds(j, gap)
    BY <1>18, GapsTyped DEF AppendFails
  <2> HIDE DEF j
  <2>3. Head(journal.pending) \in Frame
    BY <1>18, <1>a, InTail DEF AppendFails
  <2>4. log' \in Seq(Frame \cup {Torn}) /\ Len(log') >= Len(log)
    BY <1>18, <2>3, RemainsTyped DEF AppendFails
  <2>5. safe' \in 0..Len(log')
    BY <1>18, <2>4, <1>d DEF AppendFails
  <2>6. /\ journal' \in JournalType /\ journal'.pending = j.pending
        /\ journal'.prepared = j.prepared /\ phase' \in Phases
    BY <2>1, <2>2, FlushEndsTyped
  <2>7. Len(journal'.pending) <= MaxPending /\ Len(journal'.prepared.pending) <= MaxPending
    BY <2>1, <2>6
  <2> QED BY <1>18, <2>4, <2>5, <2>6, <2>7, SMTT(30) DEF AppendFails, Fault
<1>19. CASE SeeReversal
  <2>1. /\ journal' \in JournalType /\ journal'.pending = journal.pending
        /\ journal'.prepared = journal.prepared
    BY <1>19, GapsTyped DEF SeeReversal, JournalType
  <2> QED BY <1>19, <2>1 DEF SeeReversal, Fault, disk
<1>20. CASE Crash
  <2>1. log' \in Seq(Frame \cup {Torn}) /\ Len(log') >= Len(log)
    <3>1. CASE log' = log
      BY <3>1, <1>d
    <3>2. CASE journal.pending # <<>> /\ log' \in Remains(Head(journal.pending))
      <4>1. Head(journal.pending) \in Frame
        BY <3>2, <1>a, InTail
      <4> QED BY <3>2, <4>1, RemainsTyped
    <3> QED BY <1>20, <3>1, <3>2 DEF Crash
  <2>2. safe' \in 0..Len(log')
    BY <1>20, <2>1, <1>d DEF Crash
  <2> QED BY <1>20, <1>f, <2>1, <2>2 DEF Crash, Fault
<1>21. CASE PowerLoss
  <2>1. PICK n \in safe..Len(log) : log' = SubSeq(log, 1, n) /\ safe' = n
    BY <1>21 DEF PowerLoss
  <2>2. log' \in Seq(Frame \cup {Torn}) /\ Len(log') = n
    BY <2>1, <1>d
  <2>3. safe' \in 0..Len(log')
    BY <2>1, <2>2, <1>d
  <2> QED BY <1>21, <1>f, <2>2, <2>3 DEF PowerLoss, Fault
<1>22. CASE OfflineEdit
  <2>1. file' \in StateFileType /\ Len(file'.pending) <= MaxPending
    BY <1>22, <1>c, BareFileTyped DEF OfflineEdit
  <2> QED BY <1>22, <2>1 DEF OfflineEdit, Fault
<1>23. CASE Reidentify
  BY <1>23 DEF Reidentify, Fault, disk
<1>24. CASE UNCHANGED vars
  BY <1>24 DEF vars, disk
<1> QED
  BY <1>1, <1>2, <1>3, <1>4, <1>5, <1>6, <1>7, <1>8, <1>9, <1>10, <1>11, <1>12, <1>13, <1>14,
     <1>15, <1>16, <1>17, <1>18, <1>19, <1>20, <1>21, <1>22, <1>23, <1>24
     DEF Next, Start, Command, Flush, Outside

\* The first state is well typed, whatever state the file has.
LEMMA TypesInit == Init => TypeOK
<1> SUFFICES ASSUME Init PROVE TypeOK
  OBVIOUS
<1>1. Empty \in States /\ <<>> \in Seq(Frame) /\ Len(<<>>) <= MaxPending
  BY JournalAssumption
<1>2. NoFile \in StateFileType /\ NoFile.pending = <<>>
  BY <1>1 DEF NoFile, StateFileType
<1>3. file \in StateFileType /\ file.pending = <<>>
  BY <1>1, <1>2, BareFileTyped DEF Init
<1>4. /\ log \in Seq(Frame \cup {Torn}) /\ safe \in 0..Len(log)
  BY DEF Init
<1> QED BY <1>1, <1>3, <1>4, NoJournalTyped DEF Init, TypeOK, Phases

\* Every variable has the shape the code gives it, and no outbox outgrows its bound.
THEOREM JournalTypes == Spec => []TypeOK
<1> QED BY TypesInit, TypesStep, PTL DEF Spec

-----------------------------------------------------------------------------
(* Where frames are, and what a step that makes none leaves true *)

\* Everything placed is a frame, and what is settled is published.
LEMMA PlacedTyped ==
    ASSUME TypeOK
    PROVE  /\ Placed \subseteq Frame /\ Published \subseteq Placed /\ Settled \subseteq Published
           /\ In(file.pending) \subseteq Outboxes /\ In(synced.pending) \subseteq Outboxes
           /\ In(journal.pending) \subseteq Outboxes
           /\ In(journal.prepared.pending) \subseteq Outboxes
           /\ file.pending \in Seq(Frame) /\ synced.pending \in Seq(Frame)
           /\ journal.pending \in Seq(Frame) /\ journal.prepared.pending \in Seq(Frame)
           /\ safe \in Nat /\ Len(log) \in Nat
<1>1. /\ file.pending \in Seq(Frame) /\ synced.pending \in Seq(Frame)
      /\ journal.pending \in Seq(Frame) /\ journal.prepared.pending \in Seq(Frame)
  BY FileFields, JournalFields DEF TypeOK
<1>2. Outboxes \subseteq Frame
  BY <1>1, InTyped DEF Outboxes
<1>3. log \in Seq(Frame \cup {Torn}) /\ safe \in 0..Len(log) /\ Len(log) \in Nat
  BY DEF TypeOK
<1>4. Published \subseteq Frame
  BY <1>3, InTyped DEF Published
<1>5. Settled \subseteq Published
  BY <1>3 DEF Settled, Published, In
<1> QED BY <1>1, <1>2, <1>3, <1>4, <1>5 DEF Placed, Outboxes

\* Nothing is published and nothing is made.
LEMMA QuietFrames ==
    ASSUME JInv, Published' \subseteq Published, Outboxes' \subseteq Outboxes,
           Settled \subseteq Settled',
           frames' \in {frames, frames + 1}, journals' \in {journals, journals + 1}
    PROVE  Evidence'
<1> USE DEF JInv
<1>1. Placed' \subseteq Placed /\ Placed \subseteq Frame
  BY PlacedTyped DEF Placed
<1>2. /\ frames \in Nat /\ journals \in Nat
      /\ \A f \in Placed : f.id \in Nat /\ f.journal \in Nat
  BY <1>1, FrameFields DEF TypeOK
<1>3. FramesMade'
  BY <1>1, <1>2 DEF Evidence, FramesMade
<1>4. OneFrame' /\ OneNumber'
  BY <1>1 DEF Evidence, OneFrame, OneNumber
<1>5. UnmarkedSucceeds'
  BY <1>1 DEF Evidence, UnmarkedSucceeds
<1> QED BY <1>3, <1>4, <1>5 DEF Evidence

\* The history stays, or ends earlier than it did.
LEMMA QuietHistory ==
    ASSUME JInv, log' = log, safe' \in safe..Len(log)
    PROVE  Published' = Published /\ Settled \subseteq Settled' /\ PublishedOnce'
<1> USE DEF JInv
<1>1. Published' = Published /\ PublishedOnce'
  BY DEF Published, PublishedOnce
<1>2. safe \in Nat /\ \A n \in 1..safe : n \in 1..safe'
  BY PlacedTyped
<1> QED BY <1>1, <1>2 DEF Settled

LEMMA CutHistory ==
    ASSUME JInv, NEW n \in safe..Len(log), log' = SubSeq(log, 1, n), safe' = n
    PROVE  Published' \subseteq Published /\ Settled \subseteq Settled' /\ PublishedOnce'
<1> USE DEF JInv
<1>1. safe \in Nat /\ Len(log) \in Nat /\ n \in Nat /\ log \in Seq(Frame \cup {Torn})
  BY PlacedTyped DEF TypeOK
<1>2. Len(log') = n /\ \A k \in 1..n : log'[k] = log[k]
  BY <1>1
<1>3. \A k \in 1..n : k \in 1..Len(log)
  BY <1>1
<1>4. \A k \in 1..safe : k \in 1..n
  BY <1>1
<1>5. Published' \subseteq Published
  BY <1>2, <1>3 DEF Published, In
<1>6. Settled \subseteq Settled'
  BY <1>2, <1>4 DEF Settled
<1>7. PublishedOnce'
  BY <1>2, <1>3 DEF PublishedOnce
<1> QED BY <1>5, <1>6, <1>7

\* A session without a journal has nothing to keep.
LEMMA SessionOff ==
    ASSUME ~ journal'.on, journal'.pending = <<>>, journal'.prepared = NoWrite,
           \A k \in journal'.known : k < frames',
           phase' \notin {"replay", "baseline", "flush", "write_baseline", "renamed_baseline"},
           phase' = "renamed" => file'.pending = <<>>
    PROVE  Session'
<1>1. In(journal'.pending) = {} /\ In(journal'.prepared.pending) = {}
  BY InEmpty DEF NoWrite
<1>2. SessionMade' /\ Numbers' /\ KnownExact'
  BY <1>1 DEF SessionMade, Numbers, KnownExact
<1>3. Places'
  BY DEF Places, Writing
<1>4. FlushesSynced' /\ Current'
  BY DEF FlushesSynced, Flushing, Current
<1> QED BY <1>2, <1>3, <1>4 DEF Session

\* The outboxes of a step are outboxes of before, or empty.
LEMMA QuietFiles ==
    ASSUME JInv, Published' \subseteq Published,
           file'.pending \in {<<>>, file.pending, synced.pending},
           synced'.pending \in {<<>>, file.pending, synced.pending},
           journal'.pending \in {<<>>, file.pending, journal.pending, journal.prepared.pending},
           journal'.prepared.pending \in {<<>>, journal.prepared.pending}
    PROVE  Files' /\ Outboxes' \subseteq Outboxes
<1> USE DEF JInv
<1>1. Ordered(<<>>) /\ In(<<>>) = {}
  BY InEmpty, OrderedShort
<1>2. Outboxes' \subseteq Outboxes
  BY <1>1 DEF Outboxes
<1>3. OutboxesOrdered'
  BY <1>1 DEF Files, OutboxesOrdered
<1>4. ASSUME NEW s \in {<<>>, file.pending, synced.pending}, s # <<>>
      PROVE  UpTo(Published', LastOf(s).journal, LastOf(s).sequence)
  <2>1. UpTo(Published, LastOf(s).journal, LastOf(s).sequence)
    BY <1>4 DEF Files, Behind
  <2> QED BY <2>1 DEF UpTo
<1>5. Behind(file.pending)' /\ Behind(synced.pending)'
  BY <1>4 DEF Behind
<1> QED BY <1>2, <1>3, <1>5 DEF Files

-----------------------------------------------------------------------------
(* Steps without a journal *)

LEMMA NoJournalPending ==
    ASSUME JInv, ~ journal.on
    PROVE  journal.pending = <<>> /\ journal.prepared = NoWrite
           /\ journal.prepared.pending = <<>>
BY NoJournalTyped DEF JInv, Session, Places

\* What every step but a publication or a new frame leaves of the evidence.
LEMMA QuietStep ==
    ASSUME JInv, TypeOK',
           \/ log' = log /\ safe' \in safe..Len(log)
           \/ \E n \in safe..Len(log) : log' = SubSeq(log, 1, n) /\ safe' = n,
           file'.pending \in {<<>>, file.pending, synced.pending},
           synced'.pending \in {<<>>, file.pending, synced.pending},
           journal'.pending \in {<<>>, file.pending, journal.pending, journal.prepared.pending},
           journal'.prepared.pending \in {<<>>, journal.prepared.pending},
           frames' \in {frames, frames + 1}, journals' \in {journals, journals + 1},
           Session'
    PROVE  JInv'
<1>1. Published' \subseteq Published /\ Settled \subseteq Settled' /\ PublishedOnce'
  BY QuietHistory, CutHistory
<1>2. Files' /\ Outboxes' \subseteq Outboxes
  BY <1>1, QuietFiles
<1>3. Evidence'
  BY <1>1, <1>2, QuietFrames
<1> QED BY <1>1, <1>2, <1>3 DEF JInv

\* A step that reads no file and leaves the session without a journal.
LEMMA OffStep ==
    ASSUME JInv, TypeOK', ~ journal.on, UNCHANGED <<log, safe, journal, frames, journals>>,
           file'.pending \in {<<>>, file.pending, synced.pending},
           synced'.pending \in {<<>>, file.pending, synced.pending},
           phase' \notin {"replay", "baseline", "flush", "write_baseline", "renamed_baseline"},
           phase' = "renamed" => file'.pending = <<>>
    PROVE  JInv'
<1>1. journal.pending = <<>> /\ journal.prepared = NoWrite
  BY NoJournalPending
<1>2. \A k \in journal.known : k < frames
  BY DEF JInv, Session, SessionMade
<1>3. Session'
  BY <1>1, <1>2, SessionOff
<1>4. safe' \in safe..Len(log)
  BY PlacedTyped DEF JInv, TypeOK
<1> QED BY <1>3, <1>4, QuietStep

LEMMA LoadKeeps ==
    ASSUME JInv, TypeOK', Load
    PROVE  JInv'
<1>1. ~ journal.on
  BY DEF Load, JInv, Session, Places
<1> QED BY <1>1, OffStep DEF Load, disk

LEMMA LoadClampedKeeps ==
    ASSUME JInv, TypeOK', LoadClamped
    PROVE  JInv'
<1>1. ~ journal.on /\ phase' \in {"down", "loaded"}
  BY DEF LoadClamped, JInv, Session, Places
<1>2. file'.pending = <<>> /\ synced'.pending \in {<<>>, synced.pending}
  BY BareFileTyped DEF LoadClamped
<1> QED BY <1>1, <1>2, OffStep DEF LoadClamped

LEMMA OfflineEditKeeps ==
    ASSUME JInv, TypeOK', OfflineEdit
    PROVE  JInv'
<1>1. ~ journal.on /\ phase' = "down"
  BY DEF OfflineEdit, JInv, Session, Places
<1>2. file'.pending = <<>> /\ synced'.pending = <<>>
  BY BareFileTyped DEF OfflineEdit
<1> QED BY <1>1, <1>2, OffStep DEF OfflineEdit

LEMMA ReidentifyKeeps ==
    ASSUME JInv, TypeOK', Reidentify
    PROVE  JInv'
<1>1. ~ journal.on
  BY DEF Reidentify, JInv, Session, Places
<1> QED BY <1>1, OffStep DEF Reidentify, disk

\* The steps that lose the memory of a session.
LEMMA GoneSession ==
    ASSUME journal' = NoJournal, phase' \in {"down", "idle"}
    PROVE  Session'
BY NoJournalTyped, SessionOff

LEMMA PowerLossKeeps ==
    ASSUME JInv, TypeOK', PowerLoss
    PROVE  JInv'
<1>1. Session'
  BY GoneSession DEF PowerLoss, Gone
<1>2. journal'.pending = <<>> /\ journal'.prepared.pending = <<>>
  BY NoJournalTyped DEF PowerLoss, Gone
<1> QED BY <1>1, <1>2, QuietStep DEF PowerLoss

LEMMA OpenFailsKeeps ==
    ASSUME JInv, TypeOK', OpenFails
    PROVE  JInv'
<1>1. Session'
  BY GoneSession DEF OpenFails
<1>2. journal'.pending = <<>> /\ journal'.prepared.pending = <<>>
  BY NoJournalTyped DEF OpenFails
<1>3. safe' \in safe..Len(log)
  BY PlacedTyped DEF OpenFails, JInv, TypeOK
<1>4. synced'.pending \in {file.pending, synced.pending}
  BY DEF OpenFails
<1>5. log' = log /\ file' = file /\ frames' = frames /\ journals' = journals
  BY DEF OpenFails
<1> QED BY <1>1, <1>2, <1>3, <1>4, <1>5, QuietStep

\* A session that begins with an outbox of its own, empty.
LEMMA OpenNewKeeps ==
    ASSUME JInv, TypeOK', OpenNew
    PROVE  JInv'
<1> USE DEF JInv
<1>1. /\ journals \in Nat
      /\ journal' = NewJournal(journals) /\ phase' = "baseline"
      /\ journal'.pending = <<>> /\ journal'.prepared = NoWrite
      /\ journal'.prepared.pending = <<>> /\ journal'.known = {}
      /\ journal'.on /\ journal'.id = journals /\ journal'.gap # NoGap
      /\ ~ journal'.rescan
  BY NewJournalTyped, NoJournalTyped, GapsTyped DEF OpenNew, TypeOK
<1>2. /\ UNCHANGED <<file, synced, log, safe, frames>> /\ journals' = journals + 1
  BY DEF OpenNew, disk
<1>3. In(journal'.pending) = {} /\ In(journal'.prepared.pending) = {}
  BY <1>1, InEmpty
<1>4. SessionMade'
  BY <1>1, <1>2 DEF SessionMade
<1>5. \A f \in Published' : f.journal # journal'.id
  <2>1. Published' = Published /\ Published \subseteq Placed /\ Placed \subseteq Frame
    BY <1>2, PlacedTyped DEF Published
  <2>2. \A f \in Published : f.journal < journals /\ f.journal \in Nat
    BY <2>1, FrameFields DEF Evidence, FramesMade
  <2> QED BY <1>1, <2>1, <2>2
<1>6. Numbers'
  BY <1>1, <1>3, <1>5 DEF Numbers, UpTo, Writing
<1>7. Places'
  BY <1>1 DEF Places, Writing
<1>8. FlushesSynced' /\ Current'
  BY <1>1 DEF FlushesSynced, Flushing, Current
<1>9. KnownExact'
  BY <1>3 DEF KnownExact
<1>10. Session'
  BY <1>4, <1>6, <1>7, <1>8, <1>9 DEF Session
<1>11. safe' \in safe..Len(log) /\ log' = log
  BY <1>2, PlacedTyped DEF TypeOK
<1> QED BY <1>1, <1>2, <1>10, <1>11, QuietStep

-----------------------------------------------------------------------------
(* Steps of a session that neither publish nor make a frame *)

\* Looking into the history finds exactly what it holds.
LEMMA KnownOfExact ==
    ASSUME JInv, NEW p \in Seq(Frame), In(p) \subseteq Outboxes
    PROVE  /\ \A f \in In(p) : f.id \in KnownOf(p) <=> f \in Published
           /\ \A k \in KnownOf(p) : k < frames
<1> USE DEF JInv
<1>1. Placed \subseteq Frame /\ Published \subseteq Placed /\ In(p) \subseteq Placed
  BY PlacedTyped DEF Placed
<1>2. Ids(p) = {f.id : f \in In(p)}
  BY IdsTyped
<1>3. Ids(log) = {f.id : f \in In(log)}
  BY DEF Ids, In
<1>4. ASSUME NEW f \in In(p), f.id \in KnownOf(p)
      PROVE  f \in Published
  <2>1. PICK e \in In(log) : e.id = f.id
    BY <1>3, <1>4 DEF KnownOf
  <2>2. f \in Frame /\ f.id \in Nat /\ Torn.id = -1
    BY <1>1, FrameFields DEF Torn
  <2>3. e # Torn
    BY <2>1, <2>2
  <2>4. e \in Published
    BY <2>1, <2>3 DEF Published
  <2>5. e = f
    BY <1>1, <2>1, <2>4 DEF Evidence, OneFrame
  <2> QED BY <2>4, <2>5
<1>5. ASSUME NEW f \in In(p), f \in Published
      PROVE  f.id \in KnownOf(p)
  <2>1. f \in In(log)
    BY <1>5 DEF Published
  <2> QED BY <1>2, <1>3, <2>1 DEF KnownOf
<1>6. \A k \in KnownOf(p) : k < frames
  <2>1. \A f \in In(p) : f.id < frames
    BY <1>1 DEF Evidence, FramesMade
  <2> QED BY <1>2, <2>1 DEF KnownOf
<1> QED BY <1>4, <1>5, <1>6

\* A recovered session goes on with the numbers and the outbox of the file.
LEMMA OpenRecoveredKeeps ==
    ASSUME JInv, TypeOK', OpenRecovered
    PROVE  JInv'
<1> USE DEF JInv
<1>1. Recoverable /\ journal' = Recovered
  BY DEF OpenRecovered, Recovered
<1>2. /\ file.pending # <<>>
      /\ journal'.on /\ ~ journal'.rescan
      /\ journal'.id = LastOf(file.pending).journal
      /\ journal'.sequence = LastOf(file.pending).sequence
      /\ journal'.pending = file.pending
      /\ journal'.known = KnownOf(file.pending)
      /\ journal'.gap # NoGap /\ journal'.prepared = NoWrite
  BY <1>1, RecoveredTyped, GapsTyped
<1>3. /\ phase' = "replay" /\ synced' = file /\ file' = file /\ log' = log
      /\ safe' = Len(log) /\ frames' = frames /\ journals' = journals
  BY DEF OpenRecovered
<1>4. /\ file.pending \in Seq(Frame) /\ In(file.pending) \subseteq Outboxes
      /\ safe \in Nat /\ Len(log) \in Nat /\ Ordered(file.pending)
      /\ Outboxes \subseteq Placed /\ Placed \subseteq Frame
  BY PlacedTyped DEF Files, OutboxesOrdered, Placed
<1>5. In(journal'.prepared.pending) = {} /\ journal'.prepared.pending = <<>>
  BY <1>2, InEmpty, NoJournalTyped
<1>6. Published' = Published
  BY <1>3 DEF Published
<1>7. SessionMade'
  <2>1. LastOf(file.pending) \in In(file.pending)
    BY <1>2, <1>4, InLast
  <2>2. LastOf(file.pending).journal < journals
    BY <1>4, <2>1 DEF Evidence, FramesMade
  <2>3. \A k \in KnownOf(file.pending) : k < frames
    BY <1>4, KnownOfExact
  <2> QED BY <1>2, <1>3, <2>2, <2>3 DEF SessionMade
<1>8. Numbers'
  <2>1. \A f \in In(file.pending) : /\ f.journal = LastOf(file.pending).journal
                                    /\ f.sequence <= LastOf(file.pending).sequence
    BY <1>4, OrderedNumbers
  <2>2. UpTo(Published, LastOf(file.pending).journal, LastOf(file.pending).sequence)
    BY <1>2 DEF Files, Behind
  <2> QED BY <1>2, <1>3, <1>5, <1>6, <2>1, <2>2 DEF Numbers, Writing
<1>9. Places'
  BY <1>2, <1>3 DEF Places, Writing
<1>10. FlushesSynced'
  BY <1>2, <1>3 DEF FlushesSynced
<1>11. KnownExact'
  <2>1. Published \subseteq Settled'
    BY <1>3, <1>6 DEF Published, Settled, In
  <2>2. \A f \in In(file.pending) : f.id \in KnownOf(file.pending) <=> f \in Published
    BY <1>4, KnownOfExact
  <2> QED BY <1>2, <1>5, <1>6, <2>1, <2>2 DEF KnownExact
<1>12. Current'
  BY <1>3 DEF Current
<1>13. Session'
  BY <1>7, <1>8, <1>9, <1>10, <1>11, <1>12 DEF Session
<1>14. safe' \in safe..Len(log)
  BY <1>3, <1>4 DEF TypeOK
<1> QED BY <1>2, <1>3, <1>5, <1>13, <1>14, QuietStep

\* What a step of a session without publication leaves, its journal's numbers,
\* outboxes and known frames being the same.
LEMMA SameSession ==
    ASSUME JInv, TypeOK', journal.on,
           UNCHANGED <<log, safe, journals>>, frames' \in {frames, frames + 1},
           journal'.on, journal'.id = journal.id, journal'.sequence = journal.sequence,
           journal'.pending = journal.pending, journal'.known = journal.known,
           journal'.rescan \in {journal.rescan, TRUE}, journal'.prepared = journal.prepared,
           Writing' => Writing
    PROVE  SessionMade' /\ Numbers' /\ KnownExact' /\ Published' = Published /\ Settled' = Settled
<1> USE DEF JInv, Session
<1>1. Published' = Published /\ Settled' = Settled
  BY DEF Published, Settled
<1>2. frames \in Nat /\ journal.known \in SUBSET Nat
  BY JournalFields DEF TypeOK
<1>3. SessionMade'
  BY <1>2 DEF SessionMade
<1>4. Numbers'
  BY <1>1 DEF Numbers
<1>5. KnownExact'
  BY <1>1 DEF KnownExact
<1> QED BY <1>1, <1>3, <1>4, <1>5

\* A handler's change: the journal's last frame is one change behind.
LEMMA ChangeKeeps ==
    ASSUME JInv, TypeOK', NEW s \in States, Change(s)
    PROVE  JInv'
<1> USE DEF JInv, Session
<1>1. UNCHANGED <<file, synced, log, safe, journal, frames, journals>> /\ phase' = "changed"
  BY DEF Change, disk
<1>2. CASE ~ journal.on
  BY <1>1, <1>2, OffStep
<1>3. CASE journal.on
  <2>1. SessionMade' /\ Numbers' /\ KnownExact' /\ Settled' = Settled
    BY <1>1, <1>3, SameSession DEF Writing
  <2>2. Places'
    BY <1>1, <1>3 DEF Places, Writing, Change
  <2>3. FlushesSynced'
    BY <1>1 DEF FlushesSynced, Flushing
  <2>4. ASSUME journal.gap = NoGap
        PROVE  /\ journal.state # Unreadable
               /\ \E h \in Settled : IF Canonical(state') = journal.state THEN Stands(h, changes')
                                     ELSE Stands(h, changes' - 1)
    <3>1. /\ journal.state # Unreadable /\ Canonical(state) = journal.state
          /\ \E h \in Settled : Stands(h, changes)
      BY <1>3, <2>4 DEF Current, Change
    <3>2. CASE s = state
      BY <3>1, <3>2 DEF Change
    <3>3. CASE s # state
      <4>1. state' = s /\ changes' = changes + 1 /\ changes' - 1 = changes
        BY <3>3 DEF Change, TypeOK
      <4>2. Canonical(s) # Canonical(state)
        BY <3>1, <3>3 DEF Canonical
      <4> QED BY <3>1, <4>1, <4>2
    <3> QED BY <3>2, <3>3
  <2>5. Current'
    BY <1>1, <2>1, <2>4 DEF Current, Stands
  <2>6. safe' \in safe..Len(log)
    BY <1>1, PlacedTyped DEF TypeOK
  <2> QED BY <1>1, <2>1, <2>2, <2>3, <2>5, <2>6, QuietStep
<1> QED BY <1>2, <1>3

\* A session that is only marked with a gap.
LEMMA MarkedSession ==
    ASSUME JInv, TypeOK', journal.on, ~ Writing, ~ Flushing,
           UNCHANGED <<file, synced, log, safe, frames, journals>>,
           journal'.on, journal'.id = journal.id, journal'.sequence = journal.sequence,
           journal'.pending = journal.pending, journal'.known = journal.known,
           journal'.rescan = journal.rescan, journal'.prepared = journal.prepared,
           journal'.gap # NoGap, phase' = "idle"
    PROVE  JInv'
<1> USE DEF JInv, Session
<1>1. SessionMade' /\ Numbers' /\ KnownExact'
  BY SameSession DEF Writing
<1>2. Places'
  BY DEF Places, Writing
<1>3. FlushesSynced' /\ Current'
  BY DEF FlushesSynced, Flushing, Current
<1>4. safe' \in safe..Len(log)
  BY PlacedTyped DEF TypeOK
<1> QED BY <1>1, <1>2, <1>3, <1>4, QuietStep

LEMMA RaiseKeeps ==
    ASSUME JInv, TypeOK', Raise
    PROVE  JInv'
<1> USE DEF JInv, Session
<1>1. /\ UNCHANGED <<file, synced, log, safe, frames, journals, changes, state>>
      /\ phase = "changed" /\ phase' = "idle"
  BY DEF Raise, disk
<1>2. CASE ~ journal.on
  <2>1. journal' = journal
    BY <1>2 DEF Raise
  <2> QED BY <1>1, <1>2, <2>1, OffStep
<1>3. CASE journal.on /\ journal' = journal
  <2>1. SessionMade' /\ Numbers' /\ KnownExact' /\ Settled' = Settled
    BY <1>1, <1>3, SameSession DEF Writing
  <2>2. Places'
    BY <1>1, <1>3 DEF Places, Writing
  <2>3. FlushesSynced'
    BY <1>1 DEF FlushesSynced, Flushing
  <2>4. journal.gap = NoGap => Canonical(state) = journal.state
    <3> SUFFICES ASSUME journal.gap = NoGap, Canonical(state) # journal.state PROVE FALSE
      OBVIOUS
    <3>1. journal' = [journal EXCEPT !.gap = "unconfirmed_mutation"]
      BY <1>3 DEF Raise
    <3>2. journal'.gap = "unconfirmed_mutation"
      BY <3>1 DEF TypeOK, JournalType
    <3> QED BY <3>2, <1>3, GapsTyped
  <2>5. Current'
    BY <1>1, <1>3, <2>1, <2>4 DEF Current, Stands
  <2>6. safe' \in safe..Len(log)
    BY <1>1, PlacedTyped DEF TypeOK
  <2> QED BY <1>1, <1>3, <2>1, <2>2, <2>3, <2>5, <2>6, QuietStep
<1>4. CASE journal.on /\ journal' = [journal EXCEPT !.gap = "unconfirmed_mutation"]
  <2>1. /\ journal'.on /\ journal'.id = journal.id /\ journal'.sequence = journal.sequence
        /\ journal'.pending = journal.pending /\ journal'.known = journal.known
        /\ journal'.rescan = journal.rescan /\ journal'.prepared = journal.prepared
        /\ journal'.gap = "unconfirmed_mutation"
    BY <1>4 DEF TypeOK, JournalType
  <2>2. journal'.gap # NoGap
    BY <2>1, GapsTyped
  <2>3. ~ Writing /\ ~ Flushing
    BY <1>1 DEF Writing, Flushing
  <2> QED BY <1>1, <1>4, <2>1, <2>2, <2>3, MarkedSession
<1> QED BY <1>2, <1>3, <1>4 DEF Raise

LEMMA SeeReversalKeeps ==
    ASSUME JInv, TypeOK', SeeReversal
    PROVE  JInv'
<1> USE DEF JInv
<1>1. /\ UNCHANGED <<file, synced, log, safe, frames, journals>>
      /\ phase' = "idle" /\ ~ Writing /\ ~ Flushing /\ journal.on
  BY DEF SeeReversal, disk, Writing, Flushing
<1>2. /\ journal'.on /\ journal'.id = journal.id /\ journal'.sequence = journal.sequence
      /\ journal'.pending = journal.pending /\ journal'.known = journal.known
      /\ journal'.rescan = journal.rescan /\ journal'.prepared = journal.prepared
      /\ journal'.gap = "clock_reversal"
  BY DEF SeeReversal, TypeOK, JournalType
<1>3. journal'.gap # NoGap
  BY <1>2, GapsTyped
<1> QED BY <1>1, <1>2, <1>3, MarkedSession

\* The renamed file has the outbox of memory, which is what the history may reach.
LEMMA RenameKeeps ==
    ASSUME JInv, TypeOK', Rename
    PROVE  JInv'
<1> USE DEF JInv, Session
<1>1. /\ UNCHANGED <<state, synced, log, safe, journal, frames, journals, changes>>
      /\ Writing /\ phase' \in {"renamed", "renamed_baseline"}
      /\ phase' = "renamed_baseline" => phase = "write_baseline"
  BY DEF Rename, Writing
<1>2. file'.pending = journal.pending
  <2>1. state \in States /\ journal.pending \in Seq(Frame) /\ revision \in Nat
    BY PlacedTyped DEF TypeOK
  <2>2. file' = StateFile(state, journal.pending, revision)
    BY DEF Rename, FileNow
  <2> QED BY <2>1, <2>2, StateFileTyped
<1>3. CASE ~ journal.on
  <2>1. file'.pending = <<>> /\ phase' = "renamed"
    BY <1>1, <1>2, <1>3, NoJournalPending DEF Places
  <2> QED BY <1>1, <1>3, <2>1, OffStep
<1>4. CASE journal.on
  <2>1. SessionMade' /\ Numbers' /\ KnownExact' /\ Published' = Published /\ Settled' = Settled
    BY <1>1, <1>4, SameSession
  <2>2. Places'
    BY <1>1, <1>2, <1>4 DEF Places, Writing
  <2>3. FlushesSynced' /\ Current'
    BY <1>1 DEF FlushesSynced, Flushing, Current
  <2>4. Outboxes' \subseteq Outboxes
    BY <1>1, <1>2 DEF Outboxes
  <2>5. OutboxesOrdered'
    BY <1>1, <1>2 DEF Files, OutboxesOrdered
  <2>6. Behind(file.pending)'
    <3>1. /\ journal.pending # <<>> /\ journal.pending \in Seq(Frame)
          /\ LastOf(journal.pending).sequence = journal.sequence
      BY <1>1, <1>4, PlacedTyped DEF Places
    <3>2. LastOf(journal.pending).journal = journal.id
      BY <3>1, InLast DEF Numbers
    <3>3. UpTo(Published, journal.id, journal.sequence)
      BY <1>4 DEF Numbers
    <3> QED BY <1>2, <2>1, <3>1, <3>2, <3>3 DEF Behind
  <2>7. Behind(synced.pending)'
    BY <1>1, <2>1 DEF Files, Behind
  <2>8. Evidence'
    BY <1>1, <2>1, <2>4, QuietFrames
  <2>9. PublishedOnce'
    BY <1>1 DEF PublishedOnce
  <2> QED BY <2>1, <2>2, <2>3, <2>5, <2>6, <2>7, <2>8, <2>9 DEF Files
<1> QED BY <1>3, <1>4

\* A failed write takes its frame back; the file may keep it.
LEMMA WriteFailsKeeps ==
    ASSUME JInv, TypeOK', WriteFails
    PROVE  JInv'
<1> USE DEF JInv, Session
<1>1. /\ UNCHANGED <<file, synced, log, safe, frames, journals>>
      /\ Writing /\ phase' = "idle"
  BY DEF WriteFails, disk, Writing
<1>2. safe' \in safe..Len(log)
  BY <1>1, PlacedTyped DEF TypeOK
<1>3. CASE journal' = NoJournal
  <2>1. Session'
    BY <1>1, <1>3, GoneSession
  <2>2. journal'.pending = <<>> /\ journal'.prepared.pending = <<>>
    BY <1>3, NoJournalTyped
  <2> QED BY <1>1, <1>2, <2>1, <2>2, QuietStep
<1>4. CASE ~ journal.on /\ journal' = journal
  BY <1>1, <1>4, OffStep
<1>5. CASE journal.on /\ journal' = Failed(journal)
  <2>1. /\ journal'.on /\ journal'.id = journal.id
        /\ journal'.known = journal.known /\ journal'.rescan = journal.rescan
        /\ journal'.sequence = journal.prepared.sequence
        /\ journal'.pending = journal.prepared.pending
        /\ journal'.prepared = NoWrite /\ journal'.prepared.pending = <<>>
        /\ journal'.gap # NoGap
    BY <1>5, FailedTyped, NoJournalTyped, GapsTyped DEF TypeOK
  <2>2. Published' = Published /\ Settled' = Settled /\ In(journal'.prepared.pending) = {}
    BY <1>1, <2>1, InEmpty DEF Published, Settled
  <2>3. SessionMade'
    BY <1>1, <1>5, <2>1 DEF SessionMade
  <2>4. Numbers'
    BY <1>1, <1>5, <2>1, <2>2 DEF Numbers, Writing
  <2>5. Places'
    BY <1>1, <2>1 DEF Places, Writing
  <2>6. FlushesSynced' /\ Current'
    BY <1>1, <2>1 DEF FlushesSynced, Flushing, Current
  <2>7. KnownExact'
    BY <1>5, <2>1, <2>2 DEF KnownExact
  <2> QED BY <1>1, <1>2, <2>1, <2>3, <2>4, <2>5, <2>6, <2>7, QuietStep
<1> QED BY <1>3, <1>4, <1>5 DEF WriteFails

\* Once the write is durable, what will be flushed is in the synced file.
LEMMA CommitKeeps ==
    ASSUME JInv, TypeOK', Commit
    PROVE  JInv'
<1> USE DEF JInv, Session
<1>1. /\ UNCHANGED <<file, log, safe, frames, journals, changes>> /\ synced' = file
      /\ phase \in {"renamed", "renamed_baseline"} /\ Writing
      /\ phase' = IF journal.on THEN "flush" ELSE "idle"
  BY DEF Commit, Writing
<1>2. /\ journal'.on = journal.on /\ journal'.id = journal.id
      /\ journal'.sequence = journal.sequence /\ journal'.pending = journal.pending
      /\ journal'.known = journal.known /\ journal'.rescan = journal.rescan
      /\ journal'.prepared = NoWrite /\ journal'.prepared.pending = <<>>
  <2>1. journal' = [journal EXCEPT !.prepared = NoWrite]
    BY DEF Commit
  <2> QED BY <2>1, NoJournalTyped DEF TypeOK, JournalType
<1>3. safe' \in safe..Len(log)
  BY <1>1, PlacedTyped DEF TypeOK
<1>4. CASE ~ journal.on
  <2>1. Session'
    BY <1>1, <1>2, <1>4, NoJournalPending, SessionOff DEF SessionMade
  <2> QED BY <1>1, <1>2, <1>3, <2>1, QuietStep
<1>5. CASE journal.on
  <2>1. Published' = Published /\ Settled' = Settled /\ In(journal'.prepared.pending) = {}
    BY <1>1, <1>2, InEmpty DEF Published, Settled
  <2>2. SessionMade'
    BY <1>1, <1>2, <1>5 DEF SessionMade
  <2>3. Numbers'
    BY <1>1, <1>2, <1>5, <2>1 DEF Numbers, Writing
  <2>4. Places'
    BY <1>1, <1>2, <1>5 DEF Places, Writing
  <2>5. FlushesSynced'
    <3>1. file.pending = journal.pending
      BY <1>1 DEF Places
    <3> QED BY <1>1, <1>2, <3>1 DEF FlushesSynced
  <2>6. KnownExact'
    BY <1>2, <1>5, <2>1 DEF KnownExact
  <2>7. Current'
    <3>1. /\ journal.pending # <<>> /\ journal.pending \in Seq(Frame)
          /\ LastOf(journal.pending).sequence = journal.sequence
          /\ LastOf(journal.pending).at = changes
      BY <1>1, <1>5, PlacedTyped DEF Places
    <3>2. LastOf(journal.pending).journal = journal.id
      BY <3>1, InLast DEF Numbers
    <3> QED BY <1>1, <1>2, <1>5, <3>1, <3>2 DEF Current, Stands
  <2> QED BY <1>1, <1>2, <1>3, <2>2, <2>3, <2>4, <2>5, <2>6, <2>7, QuietStep
<1> QED BY <1>4, <1>5

-----------------------------------------------------------------------------
(* flush *)

\* While it flushes, a session has a journal and no write in progress.
LEMMA FlushingFacts ==
    ASSUME JInv, Flushing
    PROVE  /\ journal.on /\ ~ Writing /\ phase \in {"flush", "replay"}
           /\ journal.prepared = NoWrite
           /\ journal.prepared.pending = <<>> /\ In(journal.prepared.pending) = {}
           /\ phase = "replay" => journal.gap # NoGap
<1>1. journal.on /\ ~ Writing /\ phase \in {"flush", "replay"}
  BY DEF JInv, Session, Places, Flushing, Writing
<1>2. journal.prepared = NoWrite /\ (phase = "replay" => journal.gap # NoGap)
  BY <1>1 DEF JInv, Session, Places
<1>3. In(<<>>) = {} /\ NoWrite.pending = <<>>
  BY InEmpty, NoJournalTyped
<1> QED BY <1>1, <1>2, <1>3

LEMMA RescanKeeps ==
    ASSUME JInv, TypeOK', Rescan
    PROVE  JInv'
<1> USE DEF JInv, Session
<1>1. /\ UNCHANGED <<file, synced, log, phase, frames, journals, changes>>
      /\ Flushing /\ safe' = Len(log)
  BY DEF Rescan
<1>2. /\ journal'.on /\ journal'.id = journal.id
      /\ journal'.sequence = journal.sequence /\ journal'.pending = journal.pending
      /\ journal'.known = KnownOf(journal.pending)
      /\ journal'.prepared = NoWrite /\ journal'.prepared.pending = <<>>
      /\ journal'.gap = journal.gap
  <2>1. journal' = [journal EXCEPT !.rescan = FALSE, !.known = KnownOf(journal.pending)]
    BY DEF Rescan
  <2> QED BY <1>1, <2>1, FlushingFacts DEF TypeOK, JournalType
<1>3. /\ safe' \in safe..Len(log) /\ In(journal'.prepared.pending) = {}
      /\ journal.pending \in Seq(Frame) /\ In(journal.pending) \subseteq Outboxes
  BY <1>1, <1>2, InEmpty, PlacedTyped DEF TypeOK
<1>4. Published' = Published /\ Settled \subseteq Settled' /\ Published \subseteq Settled'
  <2>1. Published \subseteq Settled'
    BY <1>1 DEF Published, Settled, In
  <2> QED BY <1>1, <1>3, <2>1, QuietHistory
<1>5. /\ \A f \in In(journal.pending) : f.id \in KnownOf(journal.pending) <=> f \in Published
      /\ \A k \in KnownOf(journal.pending) : k < frames
  BY <1>3, KnownOfExact
<1>6. SessionMade'
  BY <1>1, <1>2, <1>5, FlushingFacts DEF SessionMade
<1>7. Numbers'
  BY <1>1, <1>2, <1>3, <1>4, FlushingFacts DEF Numbers, Writing
<1>8. Places'
  BY <1>1, <1>2, FlushingFacts DEF Places, Writing, Flushing
<1>9. FlushesSynced'
  BY <1>1, <1>2 DEF FlushesSynced, Flushing
<1>10. KnownExact'
  BY <1>2, <1>3, <1>4, <1>5 DEF KnownExact
<1>11. Current'
  <2>1. phase \in {"flush", "replay"}
    BY <1>1 DEF Flushing
  <2> QED BY <1>1, <1>2, <1>4, <2>1 DEF Current, Stands
<1> QED BY <1>1, <1>2, <1>3, <1>6, <1>7, <1>8, <1>9, <1>10, <1>11, QuietStep

\* An outbox without its first frame.
LEMMA TailFiles ==
    ASSUME JInv, journal.pending # <<>>, journal'.pending = Tail(journal.pending)
    PROVE  /\ In(journal.pending) = {Head(journal.pending)} \cup In(journal'.pending)
           /\ In(journal'.pending) \subseteq In(journal.pending)
           /\ Head(journal.pending) \notin In(journal'.pending)
           /\ Ordered(journal.pending)'
           /\ Head(journal.pending) \in In(journal.pending)
           /\ Head(journal.pending) \in Placed /\ Head(journal.pending) \in Frame
           /\ journal'.pending = <<>> => LastOf(journal.pending) = Head(journal.pending)
           /\ journal'.pending # <<>> => LastOf(journal'.pending) = LastOf(journal.pending)
<1>1. /\ journal.pending \in Seq(Frame) /\ Ordered(journal.pending)
      /\ In(journal.pending) \subseteq Placed /\ Placed \subseteq Frame
  BY PlacedTyped DEF JInv, Files, OutboxesOrdered, Placed
<1>2. Ordered(Tail(journal.pending)) /\ Head(journal.pending) \notin In(Tail(journal.pending))
  BY <1>1, OrderedTail
<1>3. /\ In(journal.pending) = {Head(journal.pending)} \cup In(Tail(journal.pending))
      /\ Tail(journal.pending) = <<>> => LastOf(journal.pending) = Head(journal.pending)
      /\ Tail(journal.pending) # <<>> => LastOf(Tail(journal.pending)) = LastOf(journal.pending)
  BY <1>1, InTail
<1> QED BY <1>1, <1>2, <1>3

LEMMA SkipKeeps ==
    ASSUME JInv, TypeOK', Skip
    PROVE  JInv'
<1> USE DEF JInv, Session
<1> DEFINE h == Head(journal.pending)
<1>1. /\ UNCHANGED <<file, synced, log, safe, phase, frames, journals, changes>>
      /\ Flushing /\ journal.pending # <<>> /\ h.id \in journal.known /\ ~ journal.rescan
  BY DEF Skip, disk
<1>2. /\ journal'.on /\ journal'.id = journal.id
      /\ journal'.sequence = journal.sequence /\ journal'.pending = Tail(journal.pending)
      /\ journal'.known = journal.known \ {h.id} /\ ~ journal'.rescan
      /\ journal'.prepared = NoWrite /\ journal'.prepared.pending = <<>>
      /\ journal'.gap = journal.gap
  <2>1. journal' = [journal EXCEPT !.pending = Tail(@), !.known = @ \ {h.id}]
    BY DEF Skip
  <2> HIDE DEF h
  <2> QED BY <1>1, <2>1, FlushingFacts DEF TypeOK, JournalType
<1>3. /\ In(journal.pending) = {h} \cup In(journal'.pending)
      /\ h \notin In(journal'.pending) /\ Ordered(journal.pending)'
      /\ h \in Placed /\ In(journal.pending) \subseteq Outboxes /\ Outboxes \subseteq Placed
      /\ journal'.pending = <<>> => LastOf(journal.pending) = h
      /\ journal'.pending # <<>> => LastOf(journal'.pending) = LastOf(journal.pending)
  BY <1>1, <1>2, TailFiles, PlacedTyped DEF Placed
<1> HIDE DEF h
<1>4. Published' = Published /\ Settled' = Settled /\ In(journal'.prepared.pending) = {}
  BY <1>1, <1>2, InEmpty DEF Published, Settled
<1>5. Outboxes' \subseteq Outboxes
  BY <1>1, <1>3, <1>4 DEF Outboxes
<1>6. OutboxesOrdered' /\ Behind(file.pending)' /\ Behind(synced.pending)'
  <2>1. Ordered(<<>>)
    BY OrderedShort
  <2> QED BY <1>1, <1>2, <1>3, <1>4, <2>1 DEF Files, OutboxesOrdered, Behind
<1>7. Evidence'
  BY <1>1, <1>4, <1>5, QuietFrames
<1>8. SessionMade'
  BY <1>1, <1>2, FlushingFacts DEF SessionMade
<1>9. Numbers'
  BY <1>1, <1>2, <1>3, <1>4, FlushingFacts DEF Numbers, Writing
<1>10. Places'
  BY <1>1, <1>2, FlushingFacts DEF Places, Writing, Flushing
<1>11. FlushesSynced'
  BY <1>1, <1>2, <1>3 DEF FlushesSynced, Flushing
<1>12. KnownExact'
  <2>1. \A f \in In(journal'.pending) : f.id # h.id
    BY <1>3 DEF Evidence, OneFrame
  <2>2. journal.on
    BY <1>1, FlushingFacts
  <2> QED BY <1>1, <1>2, <1>3, <1>4, <2>1, <2>2 DEF KnownExact
<1>13. Current'
  <2>1. phase \in {"flush", "replay"}
    BY <1>1 DEF Flushing
  <2>2. h \in Settled
    BY <1>1, <1>3 DEF KnownExact
  <2> QED BY <1>1, <1>2, <1>3, <1>4, <2>1, <2>2 DEF Current, Stands
<1>14. PublishedOnce'
  BY <1>1 DEF PublishedOnce
<1> QED BY <1>6, <1>7, <1>8, <1>9, <1>10, <1>11, <1>12, <1>13, <1>14 DEF Files

\* flush ends without having changed the history in this step.
LEMMA FlushStops ==
    ASSUME JInv, TypeOK', Flushing, UNCHANGED <<state, file, synced, log, safe, frames, journals,
                                                changes>>,
           journal'.on, journal'.id = journal.id, journal'.sequence = journal.sequence,
           journal'.pending = journal.pending, journal'.known = journal.known,
           journal'.rescan \in {journal.rescan, TRUE}, journal'.prepared = journal.prepared,
           \/ phase = "replay" /\ phase' = "baseline" /\ journal'.gap # NoGap
           \/ phase = "flush" /\ phase' = "idle" /\ journal'.gap # NoGap
           \/ /\ phase = "flush" /\ phase' = "idle" /\ journal.pending = <<>>
              /\ journal'.state = Canonical(state) /\ Canonical(state) # Unreadable
    PROVE  JInv'
<1> USE DEF JInv, Session
<1>1. journal.on /\ ~ Writing /\ journal.prepared = NoWrite /\ journal.prepared.pending = <<>>
  BY FlushingFacts
<1>2. SessionMade' /\ Numbers' /\ KnownExact' /\ Settled' = Settled
  BY <1>1, SameSession DEF Writing
<1>3. Places'
  BY <1>1 DEF Places, Writing
<1>4. FlushesSynced'
  BY DEF FlushesSynced, Flushing
<1>5. Current'
  BY <1>2 DEF Current, Stands
<1>6. safe' \in safe..Len(log)
  BY PlacedTyped DEF TypeOK
<1> QED BY <1>1, <1>2, <1>3, <1>4, <1>5, <1>6, QuietStep

LEMMA FlushDoneKeeps ==
    ASSUME JInv, TypeOK', FlushDone
    PROVE  JInv'
<1> USE DEF JInv
<1> DEFINE gap == IF phase = "flush" /\ Canonical(state) = Unreadable
                  THEN "invalid_state" ELSE NoGap
<1>1. /\ UNCHANGED <<state, file, synced, log, safe, frames, journals, changes>>
      /\ Flushing /\ journal.pending = <<>> /\ FlushEnds(journal, gap)
  BY DEF FlushDone, disk
<1>2. gap \in Gaps /\ (gap = NoGap => phase = "replay" \/ Canonical(state) # Unreadable)
  BY <1>1, GapsTyped DEF Flushing
<1> HIDE DEF gap
<1>3. journal \in JournalType /\ journal.on /\ phase \in {"flush", "replay"}
  BY <1>1, FlushingFacts DEF TypeOK
<1>4. /\ journal'.on /\ journal'.id = journal.id /\ journal'.sequence = journal.sequence
      /\ journal'.pending = journal.pending /\ journal'.known = journal.known
      /\ journal'.rescan = journal.rescan /\ journal'.prepared = journal.prepared
      /\ phase = "replay" => /\ phase' = "baseline"
                             /\ journal'.gap = IF gap = NoGap THEN journal.gap ELSE gap
      /\ phase # "replay" => /\ phase' = "idle" /\ journal'.gap = gap
                             /\ journal'.state = Canonical(state)
  BY <1>1, <1>2, <1>3, FlushEndsTyped
<1>5. phase = "replay" => journal.gap # NoGap
  BY <1>1, FlushingFacts
<1> QED BY <1>1, <1>2, <1>3, <1>4, <1>5, FlushStops

LEMMA RescanFailsKeeps ==
    ASSUME JInv, TypeOK', RescanFails
    PROVE  JInv'
<1> USE DEF JInv
<1>1. /\ UNCHANGED <<state, file, synced, log, safe, frames, journals, changes>>
      /\ Flushing /\ FlushEnds(journal, "journal_write_failed")
  BY DEF RescanFails, disk
<1>2. journal \in JournalType /\ journal.on /\ phase \in {"flush", "replay"}
  BY <1>1, FlushingFacts DEF TypeOK
<1>3. /\ journal'.on /\ journal'.id = journal.id /\ journal'.sequence = journal.sequence
      /\ journal'.pending = journal.pending /\ journal'.known = journal.known
      /\ journal'.rescan = journal.rescan /\ journal'.prepared = journal.prepared
      /\ phase = "replay" => phase' = "baseline"
      /\ phase # "replay" => phase' = "idle"
      /\ journal'.gap = "journal_write_failed"
  BY <1>1, <1>2, FlushEndsTyped, GapsTyped
<1> QED BY <1>1, <1>2, <1>3, FlushStops, GapsTyped

-----------------------------------------------------------------------------
(* Publishing the first frame of the outbox *)

Publishable ==
    /\ Flushing
    /\ ~ journal.rescan
    /\ journal.pending # <<>>
    /\ Head(journal.pending).id \notin journal.known

\* The frame is not in the history, and no other outbox has another with its number.
LEMMA PublishableFacts ==
    ASSUME JInv, Publishable
    PROVE  /\ Head(journal.pending) \in Placed /\ Head(journal.pending) \in Frame
           /\ Head(journal.pending) \notin Published
           /\ Head(journal.pending).journal = journal.id
           /\ Head(journal.pending).sequence <= journal.sequence
           /\ \A f \in Outboxes :
                /\ f.journal = Head(journal.pending).journal
                /\ f.sequence = Head(journal.pending).sequence
                => f = Head(journal.pending)
           /\ \A s \in {file.pending, synced.pending} :
                s # <<>> /\ LastOf(s).journal = Head(journal.pending).journal
                => Head(journal.pending).sequence <= LastOf(s).sequence
<1> USE DEF JInv, Session, Files, Publishable
<1> DEFINE h == Head(journal.pending)
<1>1. /\ file.pending \in Seq(Frame) /\ synced.pending \in Seq(Frame)
      /\ journal.pending \in Seq(Frame)
      /\ In(journal.pending) \subseteq Placed /\ Placed \subseteq Frame
      /\ Ordered(file.pending) /\ Ordered(synced.pending) /\ Ordered(journal.pending)
  BY PlacedTyped DEF OutboxesOrdered, Placed
<1>2. h \in In(journal.pending)
  BY <1>1, InTail
<1>3. h.journal = journal.id /\ h.sequence <= journal.sequence
  BY <1>2 DEF Numbers
<1>4. journal.on /\ In(journal.prepared.pending) = {}
  BY FlushingFacts
<1>5. h \notin Published
  BY <1>2, <1>4 DEF KnownExact
<1>6. \/ synced = file /\ h \in In(file.pending)
      \/ \A f \in In(file.pending) \cup In(synced.pending) : f.journal # h.journal
  BY <1>2, <1>3 DEF FlushesSynced
<1> HIDE DEF h
<1>7. ASSUME NEW s \in {file.pending, synced.pending}
      PROVE  /\ \A f \in In(s) : f.journal = h.journal /\ f.sequence = h.sequence => f = h
             /\ s # <<>> /\ LastOf(s).journal = h.journal => h.sequence <= LastOf(s).sequence
  <2>1. CASE h \in In(s)
    <3>1. s \in Seq(Frame) /\ Ordered(s)
      BY <1>1
    <3> QED BY <2>1, <3>1, OrderedNumbers
  <2>2. CASE \A f \in In(s) : f.journal # h.journal
    <3>1. s # <<>> => LastOf(s) \in In(s)
      BY <1>1, InLast
    <3> QED BY <2>2, <3>1
  <2> QED BY <1>6, <2>1, <2>2
<1>8. \A f \in In(journal.pending) : f.journal = h.journal /\ f.sequence = h.sequence => f = h
  BY <1>1, <1>2, OrderedNumbers
<1>9. \A f \in Outboxes : f.journal = h.journal /\ f.sequence = h.sequence => f = h
  BY <1>4, <1>7, <1>8 DEF Outboxes
<1>10. h \in Placed /\ h \in Frame
  BY <1>1, <1>2
<1> QED BY <1>3, <1>5, <1>7, <1>9, <1>10 DEF h

\* Whatever an append leaves, the frame is published once and its file has its number.
LEMMA AppendOutcome ==
    ASSUME JInv, TypeOK', Publishable, log' \in Remains(Head(journal.pending)),
           safe' \in safe..Len(log'), UNCHANGED <<file, synced, frames, journals>>,
           Outboxes' \subseteq Outboxes
    PROVE  /\ PublishedOnce' /\ Evidence' /\ Behind(file.pending)' /\ Behind(synced.pending)'
           /\ Published' \subseteq Published \cup {Head(journal.pending)}
           /\ Settled \subseteq Settled'
           /\ safe' = Len(log') => Published' \subseteq Settled'
           /\ log' = Append(log, Head(journal.pending)) => Head(journal.pending) \in Published'
<1> USE DEF JInv, Files
<1> DEFINE h == Head(journal.pending)
<1>1. /\ h \in Placed /\ h \in Frame /\ h \notin Published
      /\ h.journal = journal.id /\ h.sequence <= journal.sequence
      /\ \A f \in Outboxes : f.journal = h.journal /\ f.sequence = h.sequence => f = h
      /\ \A s \in {file.pending, synced.pending} :
           s # <<>> /\ LastOf(s).journal = h.journal => h.sequence <= LastOf(s).sequence
  BY PublishableFacts
<1> HIDE DEF h
<1>2. /\ log \in Seq(Frame \cup {Torn}) /\ Len(log) \in Nat /\ safe \in 0..Len(log)
      /\ Placed \subseteq Frame /\ Published \subseteq Placed
  BY PlacedTyped DEF TypeOK
<1>3. \/ log' = log
      \/ log' = Append(log, Torn)
      \/ log' = Append(log, h)
  BY DEF Remains, h
<1>4. /\ Torn \in Frame \cup {Torn} /\ h \in Frame \cup {Torn} /\ Torn.id = -1
      /\ \A f \in Frame : f.id \in Nat /\ f # Torn
  BY <1>1, FrameFields DEF Torn
<1>5. /\ In(log') \subseteq In(log) \cup {Torn, h}
      /\ log' = Append(log, h) => h \in In(log')
      /\ Len(log') \in {Len(log), Len(log) + 1}
      /\ \A n \in 1..Len(log) : log'[n] = log[n]
      /\ Len(log') = Len(log) + 1 => log'[Len(log) + 1] \in {Torn, h}
  <2>1. CASE log' = log
    BY <1>2, <2>1
  <2>2. ASSUME NEW e \in {Torn, h}, log' = Append(log, e)
        PROVE  /\ In(log') = In(log) \cup {e} /\ Len(log') = Len(log) + 1
               /\ \A n \in 1..Len(log) : log'[n] = log[n]
               /\ log'[Len(log) + 1] = e
    <3>1. e \in Frame \cup {Torn}
      BY <1>4
    <3>2. In(Append(log, e)) = In(log) \cup {e}
      BY <1>2, InAppend
    <3>3. /\ Len(Append(log, e)) = Len(log) + 1
          /\ \A n \in 1..Len(log) : Append(log, e)[n] = log[n]
          /\ Append(log, e)[Len(log) + 1] = e
      BY <1>2, <3>1
    <3> QED BY <2>2, <3>2, <3>3
  <2>3. CASE log' = Append(log, Torn)
    <3>1. /\ In(log') = In(log) \cup {Torn} /\ Len(log') = Len(log) + 1
          /\ \A n \in 1..Len(log) : log'[n] = log[n]
          /\ log'[Len(log) + 1] = Torn
      BY <2>2, <2>3
    <3>2. log' = Append(log, h) => h \in In(log')
      BY <2>2
    <3> QED BY <3>1, <3>2
  <2>4. CASE log' = Append(log, h)
    <3>1. /\ In(log') = In(log) \cup {h} /\ Len(log') = Len(log) + 1
          /\ \A n \in 1..Len(log) : log'[n] = log[n]
          /\ log'[Len(log) + 1] = h
      BY <2>2, <2>4
    <3> QED BY <3>1
  <2>5. log' = log => ~ (log' = Append(log, h))
    BY <1>2, <1>4
  <2> QED BY <1>3, <2>1, <2>3, <2>4, <2>5, <1>2
<1>6. /\ Published' \subseteq Published \cup {h}
      /\ log' = Append(log, h) => h \in Published'
  BY <1>1, <1>4, <1>5 DEF Published
<1>7. Settled \subseteq Settled'
  BY <1>2, <1>5 DEF Settled
<1>8. safe' = Len(log') => Published' \subseteq Settled'
  BY DEF Published, Settled, In
<1>9. PublishedOnce'
  <2>1. ASSUME NEW n \in 1..Len(log), log[n] # Torn
        PROVE  log[n] \in Frame /\ log[n] \in Published /\ log[n].id \in Nat /\ log[n].id # h.id
    <3>1. log[n] \in Published
      BY <2>1 DEF Published, In
    <3>2. log[n].id = h.id => log[n] = h
      BY <1>1, <1>2, <3>1 DEF Evidence, OneFrame
    <3> QED BY <1>1, <1>2, <1>4, <3>1, <3>2
  <2>2. h # Torn /\ h.id \in Nat /\ h.id # -1
    BY <1>1, <1>4
  <2> SUFFICES ASSUME NEW m \in 1..Len(log'), NEW n \in 1..Len(log'),
                      log'[m] # Torn, log'[m].id = log'[n].id
               PROVE  m = n
    BY DEF PublishedOnce
  <2>3. CASE m \in 1..Len(log) /\ n \in 1..Len(log)
    BY <1>5, <2>3 DEF PublishedOnce
  <2>4. CASE m \in 1..Len(log) /\ n = Len(log) + 1
    BY <1>4, <1>5, <2>1, <2>4
  <2>5. CASE m = Len(log) + 1 /\ n \in 1..Len(log)
    <3>1. log'[m] = h /\ log'[n] = log[n]
      BY <1>5, <1>2, <2>5
    <3>2. log[n].id = h.id
      BY <3>1
    <3>3. CASE log[n] = Torn
      BY <1>4, <2>2, <3>2, <3>3
    <3>4. CASE log[n] # Torn
      BY <2>1, <2>5, <3>2, <3>4
    <3> QED BY <3>3, <3>4
  <2>6. CASE m = Len(log) + 1 /\ n = Len(log) + 1
    BY <2>6
  <2> QED BY <1>2, <1>5, <2>3, <2>4, <2>5, <2>6
<1>10. Placed' \subseteq Placed
  BY <1>1, <1>2, <1>6 DEF Placed
<1>11. FramesMade' /\ OneFrame' /\ UnmarkedSucceeds'
  BY <1>7, <1>10 DEF Evidence, FramesMade, OneFrame, UnmarkedSucceeds
<1>12. OneNumber'
  <2>1. ASSUME NEW f \in Placed, f.journal = h.journal, f.sequence = h.sequence
        PROVE  f = h
    <3>1. CASE f \in Published
      BY <1>1, <2>1, <3>1 DEF Evidence, OneNumber
    <3>2. CASE f \in Outboxes
      BY <1>1, <2>1, <3>2
    <3> QED BY <3>1, <3>2 DEF Placed
  <2>2. ASSUME NEW e \in Published', NEW f \in Placed',
               e.journal = f.journal, e.sequence = f.sequence
        PROVE  e = f
    <3>1. CASE e \in Published
      BY <1>10, <2>2, <3>1 DEF Evidence, OneNumber
    <3>2. CASE e = h
      BY <1>10, <2>1, <2>2, <3>2
    <3> QED BY <1>6, <3>1, <3>2
  <2> QED BY <2>2 DEF OneNumber
<1>13. Behind(file.pending)' /\ Behind(synced.pending)'
  <2>1. ASSUME NEW s \in {file.pending, synced.pending}, s # <<>>
        PROVE  UpTo(Published', LastOf(s).journal, LastOf(s).sequence)
    <3>1. UpTo(Published, LastOf(s).journal, LastOf(s).sequence)
      BY <2>1 DEF Behind
    <3> QED BY <1>1, <1>6, <2>1, <3>1 DEF UpTo
  <2> QED BY <2>1 DEF Behind
<1>14. Evidence'
  BY <1>11, <1>12 DEF Evidence
<1> QED BY <1>6, <1>7, <1>8, <1>9, <1>13, <1>14 DEF h

\* The head moves from the outbox into the settled history.
LEMMA PublishKeeps ==
    ASSUME JInv, TypeOK', Publish
    PROVE  JInv'
<1> USE DEF JInv, Session
<1> DEFINE h == Head(journal.pending)
<1>1. /\ UNCHANGED <<file, synced, phase, frames, journals, changes>>
      /\ Publishable /\ Flushing /\ journal.pending # <<>>
      /\ log' = Append(log, h) /\ safe' = Len(log')
  BY DEF Publish, Publishable
<1>2. /\ journal'.on /\ journal'.id = journal.id
      /\ journal'.sequence = journal.sequence /\ journal'.pending = Tail(journal.pending)
      /\ journal'.known = journal.known /\ journal'.rescan = journal.rescan
      /\ journal'.prepared = NoWrite /\ journal'.prepared.pending = <<>>
      /\ journal'.gap = journal.gap
  <2>1. journal' = [journal EXCEPT !.pending = Tail(@)]
    BY DEF Publish
  <2> QED BY <1>1, <2>1, FlushingFacts DEF TypeOK, JournalType
<1>3. /\ In(journal.pending) = {h} \cup In(journal'.pending)
      /\ h \notin In(journal'.pending) /\ Ordered(journal.pending)'
      /\ journal'.pending = <<>> => LastOf(journal.pending) = h
      /\ journal'.pending # <<>> => LastOf(journal'.pending) = LastOf(journal.pending)
  BY <1>1, <1>2, TailFiles
<1>4. In(journal'.prepared.pending) = {}
  BY <1>2, InEmpty
<1>5. Outboxes' \subseteq Outboxes
  BY <1>1, <1>3, <1>4 DEF Outboxes
<1>6. /\ h.journal = journal.id /\ h.sequence <= journal.sequence
      /\ safe' \in safe..Len(log') /\ log' \in Remains(h)
  <2>1. h.journal = journal.id /\ h.sequence <= journal.sequence /\ h \in Frame
    BY <1>1, PublishableFacts
  <2>2. log' \in Remains(h)
    BY <1>1 DEF Remains
  <2>3. Len(log') >= Len(log)
    BY <2>1, <2>2, RemainsTyped DEF TypeOK
  <2>4. safe \in 0..Len(log) /\ safe' \in 0..Len(log') /\ Len(log) \in Nat
    BY PlacedTyped DEF TypeOK
  <2>5. safe' \in safe..Len(log')
    <3> HIDE DEF h
    <3> QED BY <1>1, <2>3, <2>4
  <2> QED BY <2>1, <2>2, <2>5
<1>7. /\ PublishedOnce' /\ Evidence' /\ Behind(file.pending)' /\ Behind(synced.pending)'
      /\ Published' \subseteq Published \cup {h} /\ Settled \subseteq Settled'
      /\ h \in Settled'
  BY <1>1, <1>5, <1>6, AppendOutcome
<1> HIDE DEF h
<1>8. OutboxesOrdered'
  <2>1. Ordered(<<>>)
    BY OrderedShort
  <2> QED BY <1>1, <1>2, <1>3, <2>1 DEF Files, OutboxesOrdered
<1>9. SessionMade'
  BY <1>1, <1>2, FlushingFacts DEF SessionMade
<1>10. Numbers'
  BY <1>1, <1>2, <1>3, <1>4, <1>6, <1>7, FlushingFacts DEF Numbers, Writing, UpTo
<1>11. Places'
  BY <1>1, <1>2, FlushingFacts DEF Places, Writing, Flushing
<1>12. FlushesSynced'
  BY <1>1, <1>2, <1>3 DEF FlushesSynced, Flushing
<1>13. KnownExact'
  BY <1>1, <1>2, <1>3, <1>4, <1>7, FlushingFacts DEF KnownExact
<1>14. Current'
  <2>1. phase \in {"flush", "replay"}
    BY <1>1 DEF Flushing
  <2> QED BY <1>1, <1>2, <1>3, <1>7, <2>1 DEF Current, Stands
<1> QED BY <1>7, <1>8, <1>9, <1>10, <1>11, <1>12, <1>13, <1>14 DEF Files

LEMMA AppendFailsKeeps ==
    ASSUME JInv, TypeOK', AppendFails
    PROVE  JInv'
<1> USE DEF JInv, Session
<1> DEFINE j == [journal EXCEPT !.rescan = TRUE]
           h == Head(journal.pending)
<1>1. /\ UNCHANGED <<state, file, synced, safe, frames, journals, changes>>
      /\ Publishable /\ Flushing /\ log' \in Remains(h)
      /\ FlushEnds(j, "journal_write_failed")
  BY DEF AppendFails, Publishable
<1>2. journal.on /\ phase \in {"flush", "replay"} /\ journal.prepared = NoWrite
      /\ journal.prepared.pending = <<>> /\ In(journal.prepared.pending) = {}
  BY <1>1, FlushingFacts
<1>3. /\ j \in JournalType /\ j.on = journal.on /\ j.id = journal.id
      /\ j.sequence = journal.sequence /\ j.pending = journal.pending
      /\ j.known = journal.known /\ j.rescan = TRUE /\ j.prepared = journal.prepared
  BY DEF TypeOK, JournalType
<1> HIDE DEF j
<1>4. /\ journal'.on /\ journal'.id = journal.id /\ journal'.sequence = journal.sequence
      /\ journal'.pending = journal.pending /\ journal'.known = journal.known
      /\ journal'.rescan /\ journal'.prepared = journal.prepared
      /\ journal'.gap # NoGap /\ phase' \in {"baseline", "idle"}
  BY <1>1, <1>2, <1>3, FlushEndsTyped, GapsTyped
<1>5. Outboxes' \subseteq Outboxes
  BY <1>1, <1>4 DEF Outboxes
<1>6. /\ h.journal = journal.id /\ h.sequence <= journal.sequence
      /\ safe' \in safe..Len(log')
  <2>1. h.journal = journal.id /\ h.sequence <= journal.sequence /\ h \in Frame
    BY <1>1, PublishableFacts
  <2>2. Len(log') >= Len(log)
    BY <1>1, <2>1, RemainsTyped DEF TypeOK
  <2>3. safe \in 0..Len(log) /\ safe' \in 0..Len(log') /\ safe' = safe
    BY <1>1 DEF TypeOK
  <2> QED BY <2>1, <2>2, <2>3
<1>7. /\ PublishedOnce' /\ Evidence' /\ Behind(file.pending)' /\ Behind(synced.pending)'
      /\ Published' \subseteq Published \cup {h} /\ Settled \subseteq Settled'
  BY <1>1, <1>5, <1>6, AppendOutcome
<1> HIDE DEF h
<1>8. OutboxesOrdered'
  BY <1>1, <1>4 DEF Files, OutboxesOrdered
<1>9. SessionMade'
  BY <1>1, <1>2, <1>4 DEF SessionMade
<1>10. Numbers'
  BY <1>2, <1>4, <1>6, <1>7 DEF Numbers, Writing, UpTo
<1>11. Places'
  BY <1>2, <1>4 DEF Places, Writing
<1>12. FlushesSynced' /\ Current'
  BY <1>4 DEF FlushesSynced, Flushing, Current
<1>13. KnownExact'
  BY <1>4, <1>7 DEF KnownExact
<1> QED BY <1>7, <1>8, <1>9, <1>10, <1>11, <1>12, <1>13 DEF Files

LEMMA CrashKeeps ==
    ASSUME JInv, TypeOK', Crash
    PROVE  JInv'
<1> USE DEF JInv
<1> DEFINE h == Head(journal.pending)
<1>1. /\ UNCHANGED <<file, synced, safe, frames, journals>>
      /\ journal' = NoJournal /\ phase' = "down"
  BY DEF Crash, Gone
<1>2. Session'
  BY <1>1, GoneSession
<1>3. journal'.pending = <<>> /\ journal'.prepared.pending = <<>>
  BY <1>1, NoJournalTyped
<1>4. CASE log' = log
  <2>1. safe' \in safe..Len(log)
    BY <1>1, PlacedTyped DEF TypeOK
  <2> QED BY <1>1, <1>2, <1>3, <1>4, <2>1, QuietStep
<1>5. CASE Publishable /\ log' \in Remains(h)
  <2>1. safe' \in safe..Len(log')
    <3>1. h \in Frame
      BY <1>5, PublishableFacts
    <3>2. Len(log') >= Len(log)
      BY <1>5, <3>1, RemainsTyped DEF TypeOK
    <3>3. safe \in 0..Len(log) /\ safe' = safe /\ safe' \in 0..Len(log')
      BY <1>1 DEF TypeOK
    <3> QED BY <3>2, <3>3
  <2>2. Outboxes' \subseteq Outboxes
    BY <1>1, <1>3, InEmpty DEF Outboxes
  <2>3. /\ PublishedOnce' /\ Evidence' /\ Behind(file.pending)' /\ Behind(synced.pending)'
    BY <1>1, <1>5, <2>1, <2>2, AppendOutcome
  <2>4. OutboxesOrdered'
    BY <1>1, <1>3, OrderedShort DEF Files, OutboxesOrdered
  <2> QED BY <1>2, <2>3, <2>4 DEF Files
<1> QED BY <1>4, <1>5 DEF Crash, Publishable

-----------------------------------------------------------------------------
(* Making a frame *)

\* A new frame in the outbox of memory: its id is new, its number is beyond what
\* its journal has used, and if it is unmarked it succeeds a settled one.
LEMMA MintedFrame ==
    ASSUME JInv, TypeOK', UNCHANGED <<file, synced, log, safe>>,
           frames' = frames + 1, journals' \in {journals, journals + 1},
           NEW g \in Frame, g.id = frames, g.journal < journals',
           \A f \in Published \cup In(journal.pending) :
               f.journal = g.journal => f.sequence < g.sequence,
           \A f \in In(journal.pending) : f.journal = g.journal,
           journal'.pending \in {Append(journal.pending, g), <<g>>},
           journal'.prepared.pending \in {<<>>, journal.pending},
           g.boundary = NoGap => \E h \in Settled : Succeeds(g, h)
    PROVE  /\ PublishedOnce' /\ Evidence' /\ Files'
           /\ Published' = Published /\ Settled' = Settled /\ g \notin Placed
           /\ In(journal'.pending) \subseteq In(journal.pending) \cup {g}
           /\ In(journal'.prepared.pending) \subseteq In(journal.pending)
           /\ journal'.pending # <<>> /\ LastOf(journal'.pending) = g
<1> USE DEF JInv
<1>1. /\ Placed \subseteq Frame /\ Published \subseteq Placed
      /\ In(journal.pending) \subseteq Placed /\ journal.pending \in Seq(Frame)
      /\ frames \in Nat /\ journals \in Nat
      /\ \A f \in Placed : f.id \in Nat /\ f.journal \in Nat /\ f.sequence \in Nat
      /\ g.id \in Nat /\ g.journal \in Nat /\ g.sequence \in Nat
  BY PlacedTyped, FrameFields DEF Placed, TypeOK
<1>2. /\ Published' = Published /\ Settled' = Settled /\ PublishedOnce'
  BY DEF Published, Settled, PublishedOnce
<1>3. /\ In(journal'.pending) \subseteq In(journal.pending) \cup {g}
      /\ journal'.pending # <<>> /\ LastOf(journal'.pending) = g
  <2>1. CASE journal'.pending = Append(journal.pending, g)
    BY <1>1, <2>1, InAppend
  <2>2. CASE journal'.pending = <<g>>
    BY <2>2, OrderedShort
  <2> QED BY <2>1, <2>2
<1>4. In(journal'.prepared.pending) \subseteq In(journal.pending)
  BY InEmpty
<1>5. Placed' \subseteq Placed \cup {g}
  BY <1>2, <1>3, <1>4 DEF Placed, Outboxes
<1>6. \A f \in Placed : f.id < frames /\ f.journal < journals
  BY DEF Evidence, FramesMade
<1>7. \A f \in Placed : f.id # g.id
  BY <1>1, <1>6
<1>8. FramesMade'
  BY <1>1, <1>5, <1>6 DEF FramesMade
<1>9. OneFrame'
  BY <1>5, <1>7 DEF Evidence, OneFrame
<1>10. OneNumber'
  <2>1. \A e \in Published : e.journal = g.journal => e.sequence # g.sequence
    BY <1>1
  <2> QED BY <1>2, <1>5, <2>1 DEF Evidence, OneNumber
<1>11. UnmarkedSucceeds'
  BY <1>2, <1>5 DEF Evidence, UnmarkedSucceeds
<1>12. OutboxesOrdered'
  <2>1. Ordered(journal.pending)' /\ Ordered(journal.prepared.pending)'
    <3>1. Ordered(journal.pending) /\ Ordered(<<>>) /\ Ordered(<<g>>)
      BY OrderedShort DEF Files, OutboxesOrdered
    <3>2. \A f \in In(journal.pending) : f.journal = g.journal /\ f.sequence < g.sequence
      BY <1>1
    <3>3. Ordered(Append(journal.pending, g))
      BY <1>1, <3>1, <3>2, OrderedAppend
    <3> QED BY <3>1, <3>3
  <2> QED BY <2>1 DEF Files, OutboxesOrdered
<1>13. Behind(file.pending)' /\ Behind(synced.pending)'
  BY <1>2 DEF Files, Behind
<1>14. g \notin Placed
  BY <1>7
<1> QED BY <1>2, <1>3, <1>4, <1>8, <1>9, <1>10, <1>11, <1>12, <1>13, <1>14 DEF Evidence, Files

\* A write stages a frame: unmarked only if the last frame is settled.
LEMMA PrepareKeeps ==
    ASSUME JInv, TypeOK', Prepare
    PROVE  JInv'
<1> USE DEF JInv, Session
<1>1. /\ UNCHANGED <<state, file, synced, log, safe, journals, changes>>
      /\ phase \in {"changed", "baseline"} /\ phase' \in {"write", "write_baseline"}
      /\ phase = "baseline" <=> phase' = "write_baseline"
      /\ ~ Writing /\ ~ Flushing
  BY DEF Prepare, disk, Writing, Flushing
<1>2. CASE ~ journal.on
  <2>1. UNCHANGED <<journal, frames>> /\ phase' = "write"
    BY <1>1, <1>2 DEF Prepare, Places
  <2> QED BY <1>1, <1>2, <2>1, OffStep
<1>3. CASE journal.on
  <2>1. PICK reversed \in Reversals(journal) :
          journal' = Staged(journal, FrameOf(journal, TRUE, reversed))
    BY <1>3 DEF Prepare
  <2> DEFINE made == FrameOf(journal, TRUE, reversed)
  <2>2. journal \in JournalType /\ Len(journal.pending) <= MaxPending /\ reversed \in BOOLEAN
    BY DEF TypeOK, Reversals
  <2>3. /\ made \in Frame /\ made.id = frames /\ made.journal = journal.id
        /\ made.sequence = journal.sequence + 1 /\ made.at = changes
        /\ made.boundary = NoGap => journal.gap = NoGap /\ Canonical(state) # Unreadable
    BY <2>2, FrameOfTyped
  <2>4. journal' = Staged(journal, made) /\ frames' = frames + 1
    BY <1>3, <2>1 DEF Prepare
  <2> HIDE DEF made
  <2>5. PICK g \in Carried(made) :
          /\ \/ Envelope(journal, made) = Append(journal.pending, g)
             \/ Envelope(journal, made) = <<g>>
          /\ g \in In(Envelope(journal, made))
    BY <2>2, <2>3, EnvelopeAdds
  <2>6. /\ g \in Frame /\ g.id = frames /\ g.journal = journal.id
        /\ g.sequence = journal.sequence + 1 /\ g.at = changes
        /\ g.boundary = NoGap => journal.gap = NoGap
    BY <2>3, <2>5, CarriedTyped
  <2>7. /\ journal'.on /\ journal'.id = journal.id /\ journal'.gap = journal.gap
        /\ journal'.known = journal.known /\ journal'.rescan = journal.rescan
        /\ journal'.sequence = journal.sequence + 1
        /\ journal'.pending \in {Append(journal.pending, g), <<g>>}
        /\ journal'.prepared.pending = journal.pending
        /\ journal'.prepared.sequence = journal.sequence
    BY <1>3, <2>2, <2>3, <2>4, <2>5, StagedTyped
  <2>8. /\ journal.sequence \in Nat /\ journal.id \in Nat /\ Placed \subseteq Frame
        /\ frames \in Nat /\ journal.known \in SUBSET Nat
    BY <2>2, JournalFields, PlacedTyped DEF TypeOK
  <2>9. journal.id < journals
    BY <1>3 DEF SessionMade
  <2>10. g.boundary = NoGap => \E h \in Settled : Succeeds(g, h)
    <3> SUFFICES ASSUME journal.gap = NoGap PROVE \E h \in Settled : Succeeds(g, h)
      BY <2>6
    <3>1. phase = "changed"
      BY <1>1 DEF Places
    <3>2. PICK h \in Settled : Stands(h, changes) \/ Stands(h, changes - 1)
      BY <1>3, <3>1 DEF Current
    <3>3. changes \in Nat /\ h \in Frame
      BY <2>8, PlacedTyped DEF TypeOK
    <3>4. h.at \in Nat /\ (h.at = changes \/ h.at = changes - 1)
      BY <3>2, <3>3, FrameFields DEF Stands
    <3>5. changes \in {h.at, h.at + 1}
      BY <3>3, <3>4
    <3> QED BY <2>6, <3>2, <3>5 DEF Stands, Succeeds
  <2>11. \A f \in Published \cup In(journal.pending) :
            f.journal = g.journal => f.sequence < g.sequence
    <3>1. \A f \in Published \cup In(journal.pending) :
            f.journal = journal.id => f.sequence <= journal.sequence
      BY <1>3 DEF Numbers, UpTo
    <3>2. Published \cup In(journal.pending) \subseteq Frame
      BY PlacedTyped DEF Placed
    <3> QED BY <2>6, <2>8, <3>1, <3>2, FrameFields
  <2>12. \A f \in In(journal.pending) : f.journal = g.journal
    BY <2>6 DEF Numbers
  <2>13. /\ PublishedOnce' /\ Evidence' /\ Files'
         /\ Published' = Published /\ Settled' = Settled /\ g \notin Placed
         /\ In(journal'.pending) \subseteq In(journal.pending) \cup {g}
         /\ In(journal'.prepared.pending) \subseteq In(journal.pending)
         /\ journal'.pending # <<>> /\ LastOf(journal'.pending) = g
    BY <1>1, <2>4, <2>6, <2>7, <2>9, <2>10, <2>11, <2>12, MintedFrame
  <2>14. SessionMade'
    BY <1>1, <2>4, <2>7, <2>8, <2>9 DEF SessionMade
  <2>15. Numbers'
    <3>1. /\ \A f \in In(journal.pending) : f.journal = journal.id /\ f.sequence <= journal.sequence
          /\ UpTo(Published, journal.id, journal.sequence)
      BY <1>3 DEF Numbers
    <3>2. /\ \A f \in In(journal.pending) : f.sequence \in Nat
          /\ \A f \in Published : f.sequence \in Nat
      BY <2>8, FrameFields, PlacedTyped DEF Placed
    <3>3. UpTo(Published, journal.id, journal.sequence + 1)
      BY <2>8, <3>1, <3>2 DEF UpTo
    <3>4. \A f \in In(journal'.pending) : /\ f.journal = journal.id
                                          /\ f.sequence <= journal.sequence + 1
      BY <2>6, <2>8, <2>13, <3>1, <3>2
    <3> QED BY <2>7, <2>13, <3>1, <3>3, <3>4 DEF Numbers
  <2>16. Places'
    BY <1>1, <2>6, <2>7, <2>13 DEF Places, Writing
  <2>17. FlushesSynced' /\ Current'
    BY <1>1 DEF FlushesSynced, Flushing, Current
  <2>18. KnownExact'
    <3>1. g.id \notin journal.known
      BY <2>6, <2>8 DEF SessionMade
    <3>2. g \notin Published
      BY <2>13 DEF Placed
    <3> QED BY <1>3, <2>7, <2>13, <3>1, <3>2 DEF KnownExact
  <2> QED BY <2>13, <2>14, <2>15, <2>16, <2>17, <2>18
<1> QED BY <1>2, <1>3

\* The baseline of a file without a usable outbox begins a journal and is marked.
LEMMA OpenLegacyKeeps ==
    ASSUME JInv, TypeOK', OpenLegacy
    PROVE  JInv'
<1> USE DEF JInv, Session
<1> DEFINE fresh == NewJournal(journals)
           made == FrameOf(fresh, FALSE, FALSE)
<1>1. /\ UNCHANGED <<state, file, synced, log, safe, changes>> /\ phase' = "flush"
      /\ frames' = frames + 1 /\ journals' = journals + 1 /\ phase = "loaded"
      /\ journal' = [Staged(fresh, made) EXCEPT !.prepared = NoWrite]
  BY DEF OpenLegacy, disk
<1>2. /\ fresh \in JournalType /\ fresh.on /\ fresh.id = journals /\ fresh.sequence = 0
      /\ fresh.pending = <<>> /\ fresh.known = {} /\ ~ fresh.rescan
      /\ fresh.gap # NoGap /\ Len(fresh.pending) <= MaxPending
      /\ journals \in Nat
  <2>1. journals \in Nat /\ MaxPending \in Nat /\ Len(<<>>) = 0
    BY JournalAssumption DEF TypeOK
  <2>2. /\ fresh \in JournalType /\ fresh.on = TRUE /\ fresh.id = journals
        /\ fresh.sequence = 0 /\ fresh.pending = <<>> /\ fresh.known = {}
        /\ fresh.rescan = FALSE /\ fresh.gap = "session_start"
    BY <2>1, NewJournalTyped
  <2> HIDE DEF fresh
  <2>3. fresh.gap # NoGap
    BY <2>2, GapsTyped
  <2>4. Len(fresh.pending) <= MaxPending
    BY <2>1, <2>2
  <2> QED BY <2>1, <2>2, <2>3, <2>4
<1>3. /\ made \in Frame /\ made.id = frames /\ made.journal = journals
      /\ made.sequence = 1 /\ made.at = changes /\ made.boundary # NoGap
  <2> HIDE DEF fresh
  <2>1. /\ made \in Frame /\ made.id = frames /\ made.journal = fresh.id
        /\ made.sequence = fresh.sequence + 1 /\ made.at = changes
        /\ made.boundary = NoGap => fresh.gap = NoGap
    BY <1>2, FrameOfTyped
  <2> HIDE DEF made
  <2> QED BY <1>2, <2>1
<1> HIDE DEF fresh, made
<1>4. PICK g \in Carried(made) :
        /\ \/ Envelope(fresh, made) = Append(<<>>, g)
           \/ Envelope(fresh, made) = <<g>>
        /\ g \in In(Envelope(fresh, made))
  BY <1>2, <1>3, EnvelopeAdds
<1>5. /\ g \in Frame /\ g.id = frames /\ g.journal = journals
      /\ g.sequence = 1 /\ g.at = changes /\ g.boundary # NoGap
  BY <1>3, <1>4, CarriedTyped
<1>6. /\ Staged(fresh, made) \in JournalType /\ Staged(fresh, made).on
      /\ Staged(fresh, made).id = journals /\ Staged(fresh, made).known = {}
      /\ ~ Staged(fresh, made).rescan /\ Staged(fresh, made).sequence = 1
      /\ Staged(fresh, made).pending = Envelope(fresh, made)
  BY <1>2, <1>3, StagedTyped
<1>7. /\ journal'.on /\ journal'.id = journals /\ journal'.known = {} /\ ~ journal'.rescan
      /\ journal'.sequence = 1 /\ journal'.pending = Envelope(fresh, made)
      /\ journal'.prepared = NoWrite /\ journal'.prepared.pending = <<>>
  <2> DEFINE k == Staged(fresh, made)
  <2>1. k \in JournalType /\ journal' = [k EXCEPT !.prepared = NoWrite]
    BY <1>1, <1>6
  <2> HIDE DEF k
  <2>2. /\ journal'.on = k.on /\ journal'.id = k.id /\ journal'.known = k.known
        /\ journal'.rescan = k.rescan /\ journal'.sequence = k.sequence
        /\ journal'.pending = k.pending /\ journal'.prepared = NoWrite
    BY <2>1 DEF JournalType
  <2> QED BY <1>6, <2>2, NoJournalTyped DEF k
<1>8. journal.pending = <<>> /\ In(journal.pending) = {}
  BY <1>1, InEmpty DEF Places
<1>9. /\ Placed \subseteq Frame /\ Published \subseteq Placed /\ Outboxes \subseteq Placed
      /\ frames \in Nat
      /\ \A f \in Placed : f.journal < journals /\ f.journal \in Nat
  BY PlacedTyped, FrameFields DEF Evidence, FramesMade, Placed, TypeOK
<1>10. \A f \in Placed : f.journal # journals
  BY <1>2, <1>9
<1>11. /\ PublishedOnce' /\ Evidence' /\ Files'
       /\ Published' = Published /\ Settled' = Settled /\ g \notin Placed
       /\ In(journal'.pending) \subseteq In(journal.pending) \cup {g}
       /\ In(journal'.prepared.pending) \subseteq In(journal.pending)
       /\ journal'.pending # <<>> /\ LastOf(journal'.pending) = g
  <2>1. g.journal < journals'
    BY <1>1, <1>2, <1>5
  <2>2. \A f \in Published \cup In(journal.pending) : f.journal # g.journal
    BY <1>5, <1>8, <1>9, <1>10
  <2>3. journal'.pending \in {Append(journal.pending, g), <<g>>}
    BY <1>4, <1>7, <1>8
  <2> QED BY <1>1, <1>5, <1>7, <1>8, <2>1, <2>2, <2>3, MintedFrame
<1>12. SessionMade'
  BY <1>1, <1>2, <1>7 DEF SessionMade
<1>13. Numbers'
  BY <1>1, <1>5, <1>7, <1>8, <1>9, <1>10, <1>11 DEF Numbers, UpTo, Writing
<1>14. Places'
  BY <1>1, <1>7 DEF Places, Writing
<1>15. FlushesSynced'
  <2>1. In(file.pending) \cup In(synced.pending) \subseteq Placed
    BY <1>9 DEF Outboxes
  <2> QED BY <1>1, <1>7, <1>10, <2>1 DEF FlushesSynced
<1>16. KnownExact'
  BY <1>7, <1>8, <1>9, <1>11 DEF KnownExact
<1>17. Current'
  BY <1>1, <1>5, <1>7, <1>11 DEF Current, Stands
<1> QED BY <1>11, <1>12, <1>13, <1>14, <1>15, <1>16, <1>17

-----------------------------------------------------------------------------
(* The invariant and what follows from it *)

\* A bot starts with no journal and a file that has no outbox.
LEMMA JInvInit == Init => JInv
<1> SUFFICES ASSUME Init PROVE JInv
  OBVIOUS
<1>1. TypeOK
  BY TypesInit
<1>2. file.pending = <<>> /\ synced.pending = <<>>
  <2>1. NoFile.pending = <<>>
    BY DEF NoFile
  <2> QED BY <2>1, BareFileTyped DEF Init
<1>3. /\ ~ journal.on /\ journal.pending = <<>> /\ journal.prepared = NoWrite
      /\ journal.prepared.pending = <<>> /\ journal.known = {}
      /\ phase = "down" /\ log = <<>> /\ safe = 0
  BY NoJournalTyped DEF Init
<1>4. Published = {} /\ Outboxes = {} /\ Placed = {}
  BY <1>2, <1>3, InEmpty DEF Published, Outboxes, Placed
<1>5. PublishedOnce
  BY <1>3 DEF PublishedOnce
<1>6. Evidence
  BY <1>4 DEF Evidence, FramesMade, OneFrame, OneNumber, UnmarkedSucceeds
<1>7. Files
  BY <1>2, <1>3, OrderedShort DEF Files, OutboxesOrdered, Behind
<1>8. Session
  BY <1>3, InEmpty DEF Session, SessionMade, Numbers, Places, FlushesSynced, Flushing,
                       KnownExact, Current, Writing
<1> QED BY <1>1, <1>5, <1>6, <1>7, <1>8 DEF JInv

\* One case per group of actions, each by the lemma of its action.
LEMMA JInvStep == JInv /\ [Next]_vars => JInv'
<1> SUFFICES ASSUME JInv, [Next]_vars PROVE JInv'
  OBVIOUS
<1>1. TypeOK'
  BY TypesStep DEF JInv
<1>2. CASE Start
  BY <1>1, <1>2, LoadKeeps, LoadClampedKeeps, OpenRecoveredKeeps, OpenLegacyKeeps, OpenNewKeeps,
     OpenFailsKeeps DEF Start
<1>3. CASE Command
  BY <1>1, <1>3, ChangeKeeps, RaiseKeeps, PrepareKeeps, RenameKeeps, WriteFailsKeeps, CommitKeeps
     DEF Command
<1>4. CASE Flush
  BY <1>1, <1>4, RescanKeeps, PublishKeeps, SkipKeeps, FlushDoneKeeps, RescanFailsKeeps,
     AppendFailsKeeps DEF Flush
<1>5. CASE Outside
  BY <1>1, <1>5, SeeReversalKeeps, CrashKeeps, PowerLossKeeps, OfflineEditKeeps, ReidentifyKeeps
     DEF Outside
<1>6. CASE UNCHANGED vars
  BY <1>6 DEF vars, disk, JInv, TypeOK, PublishedOnce, Evidence, Files, Session, FramesMade, OneFrame,
     OneNumber, UnmarkedSucceeds, OutboxesOrdered, Behind, SessionMade, Numbers, Places,
     FlushesSynced, KnownExact, Current, Placed, Published, Settled, Outboxes, Writing, Flushing,
     Stands
<1> QED BY <1>2, <1>3, <1>4, <1>5, <1>6 DEF Next

\* Wherever the thread is, and whatever failed, the frames are where JInv says.
THEOREM JournalInvariant == Spec => []JInv
<1> QED BY JInvInit, JInvStep, PTL DEF Spec

\* PublishedOnce for any outbox bound and any number of faults: a frame is in the
\* history at most once (_read_known before a replay and after a failed append).
THEOREM NoFrameTwice == Spec => []PublishedOnce
<1>1. JInv => PublishedOnce
  BY DEF JInv
<1> QED BY <1>1, JournalInvariant, PTL

\* NeverAhead: the history holds no frame of a journal beyond what the synced state
\* file has staged of it (flush runs only after the write is durable).
THEOREM HistoryNeverAhead == Spec => []NeverAhead
<1>1. JInv => NeverAhead
  <2> SUFFICES ASSUME JInv, NEW n \in 1..Len(log), log[n] # Torn, synced.pending # <<>>,
                      log[n].journal = LastOf(synced.pending).journal
               PROVE  log[n].sequence <= LastOf(synced.pending).sequence
    BY DEF NeverAhead
  <2>1. log[n] \in Published
    BY DEF Published, In
  <2> QED BY <2>1 DEF JInv, Files, Behind, UpTo
<1> QED BY <1>1, JournalInvariant, PTL

\* VerifiedIsComplete: in a window of the history that the feed calls verified no change
\* of the allocator's state is without its frame, whatever failed before (read_feed).
THEOREM VerifiedWindowIsComplete == Spec => []VerifiedIsComplete
<1>1. JInv => VerifiedIsComplete
  <2> SUFFICES ASSUME JInv, NEW a \in 1..Len(log), Verified(a)
               PROVE  /\ \A n \in (a + 1)..Len(log) :
                            log[n].at \in {log[n - 1].at, log[n - 1].at + 1}
                      /\ LastOf(log).at = changes
    BY DEF VerifiedIsComplete
  <2> USE DEF JInv
  <2>1. Len(log) \in Nat /\ Published \subseteq Placed /\ Settled \subseteq Published
        /\ Placed \subseteq Frame
    BY PlacedTyped
  <2>2. \A n \in a..Len(log) : log[n] \in Published
    BY <2>1 DEF Verified, Published, In
  <2>3. \A e, f \in Published : e.journal = f.journal /\ e.sequence = f.sequence => e = f
    BY <2>1 DEF Evidence, OneNumber
  <2>4. ASSUME NEW n \in (a + 1)..Len(log)
        PROVE  log[n].at \in {log[n - 1].at, log[n - 1].at + 1}
    <3>1. /\ n \in a..Len(log) /\ n - 1 \in a..Len(log)
      BY <2>1
    <3>2. log[n] \in Published /\ log[n - 1] \in Published
      BY <2>2, <3>1
    <3>3. log[n].boundary = NoGap /\ Follows(log[n - 1], log[n])
      BY DEF Verified
    <3>4. PICK h \in Settled : Succeeds(log[n], h)
      BY <2>1, <3>2, <3>3 DEF Evidence, UnmarkedSucceeds
    <3>5. h.journal = log[n - 1].journal /\ h.sequence + 1 = log[n - 1].sequence + 1
      BY <3>3, <3>4 DEF Succeeds, Follows
    <3>6. h.sequence \in Nat /\ log[n - 1].sequence \in Nat
      BY <2>1, <3>2, FrameFields
    <3>7. h = log[n - 1]
      BY <2>1, <2>3, <3>2, <3>5, <3>6
    <3> QED BY <3>4, <3>7 DEF Succeeds
  <2>5. LastOf(log).at = changes
    <3>1. Len(log) \in a..Len(log)
      BY <2>1
    <3>2. LastOf(log) \in Published
      BY <2>2, <3>1 DEF LastOf
    <3>3. LastOf(log).journal = journal.id /\ LastOf(log).sequence = journal.sequence
      BY DEF Verified
    <3>4. PICK h \in Settled : Stands(h, changes)
      BY DEF Verified, Consistent, Session, Current
    <3>5. h = LastOf(log)
      BY <2>1, <2>3, <3>2, <3>3, <3>4 DEF Stands
    <3> QED BY <3>4, <3>5 DEF Stands
  <2> QED BY <2>4, <2>5
<1> QED BY <1>1, JournalInvariant, PTL

-----------------------------------------------------------------------------
(* What is told is durable: the state that the journal's last frame stands *)
(* for is the one in the synced file                                        *)

\* The last line of the history is the journal's last frame, for good.
EndsWithIt ==
    /\ Len(log) > 0 /\ safe = Len(log)
    /\ LastOf(log) # Torn
    /\ LastOf(log).journal = journal.id
    /\ LastOf(log).sequence = journal.sequence

\* A frame that is staged or flushed has not been published and is the journal's last.
LatestWaits ==
    journal.on /\ (Writing \/ phase = "flush") /\ journal.pending # <<>> =>
        /\ LastOf(journal.pending) \notin Published
        /\ LastOf(journal.pending).journal = journal.id
        /\ LastOf(journal.pending).sequence = journal.sequence

RenamedIsState == phase \in {"renamed", "renamed_baseline"} => file.state = state

\* What a flush publishes is durable in the state file, unless it is a baseline
\* that no write carried.
FlushedIsSynced ==
    phase = "flush" =>
        IF journal.pending # <<>>
        THEN LastOf(journal.pending).atomic => synced.state = state
        ELSE /\ ~ journal.rescan
             /\ EndsWithIt
             /\ LastOf(log).atomic => synced.state = state

\* A session without a gap has published all it made, and what it told last is synced.
ToldIsSynced ==
    journal.on /\ journal.gap = NoGap /\ phase \in {"idle", "changed"} =>
        /\ journal.pending = <<>>
        /\ EndsWithIt
        /\ LastOf(log).atomic => synced.state = journal.state

Newest == LatestWaits /\ RenamedIsState /\ FlushedIsSynced /\ ToldIsSynced

\* Steps after which nothing is staged or flushed and no session goes without a gap.
LEMMA NothingTold ==
    ASSUME phase' \notin {"write", "write_baseline", "renamed", "renamed_baseline", "flush"},
           phase' \in {"idle", "changed"} => ~ journal'.on \/ journal'.gap # NoGap
    PROVE  Newest'
BY DEF Newest, LatestWaits, RenamedIsState, FlushedIsSynced, ToldIsSynced, Writing

\* A step of a flush changes nothing of the journal but its outbox and what it knows.
LEMMA FlushFields ==
    ASSUME TypeOK, Rescan \/ Publish \/ Skip
    PROVE  /\ journal'.on = journal.on /\ journal'.id = journal.id
           /\ journal'.sequence = journal.sequence /\ journal'.gap = journal.gap
           /\ journal'.state = journal.state /\ journal'.prepared = journal.prepared
           /\ Rescan => journal'.pending = journal.pending /\ ~ journal'.rescan
           /\ Publish \/ Skip => /\ journal'.pending = Tail(journal.pending)
                                 /\ journal'.rescan = journal.rescan
<1>1. CASE Rescan
  <2>1. journal' = [journal EXCEPT !.rescan = FALSE, !.known = KnownOf(journal.pending)]
        /\ journal.rescan
    BY <1>1 DEF Rescan
  <2>2. ~ (Publish \/ Skip)
    BY <2>1 DEF Publish, Skip
  <2> QED BY <2>1, <2>2 DEF TypeOK, JournalType
<1>2. CASE Publish
  <2>1. journal' = [journal EXCEPT !.pending = Tail(@)] /\ ~ journal.rescan
    BY <1>2 DEF Publish
  <2>2. ~ Rescan
    BY <2>1 DEF Rescan
  <2> QED BY <2>1, <2>2 DEF TypeOK, JournalType
<1>3. CASE Skip
  <2>1. /\ journal' = [journal EXCEPT !.pending = Tail(@),
                                      !.known = @ \ {Head(journal.pending).id}]
        /\ ~ journal.rescan
    BY <1>3 DEF Skip
  <2>2. ~ Rescan
    BY <2>1 DEF Rescan
  <2> QED BY <2>1, <2>2 DEF TypeOK, JournalType
<1> QED BY <1>1, <1>2, <1>3

\* What a write stages: a new last frame, with the outbox that failed() restores.
LEMMA PrepareStages ==
    ASSUME TypeOK, Prepare, journal.on
    PROVE  \E g \in Frame :
             /\ g.id = frames /\ g.journal = journal.id /\ g.sequence = journal.sequence + 1
             /\ journal'.on /\ journal'.id = journal.id /\ journal'.sequence = g.sequence
             /\ journal'.prepared.pending = journal.pending
             /\ \/ journal'.pending = Append(journal.pending, g)
                \/ journal'.pending = <<g>> /\ g.boundary = "outbox_overflow"
             /\ journal'.pending # <<>> /\ LastOf(journal'.pending) = g
<1>1. PICK reversed \in Reversals(journal) :
        journal' = Staged(journal, FrameOf(journal, TRUE, reversed))
  BY DEF Prepare
<1> DEFINE made == FrameOf(journal, TRUE, reversed)
           over == [made EXCEPT !.boundary = "outbox_overflow"]
<1>2. journal \in JournalType /\ Len(journal.pending) <= MaxPending /\ reversed \in BOOLEAN
  BY DEF TypeOK, Reversals
<1>3. /\ made \in Frame /\ made.id = frames /\ made.journal = journal.id
      /\ made.sequence = journal.sequence + 1
  BY <1>2, FrameOfTyped
<1>4. journal' = Staged(journal, made)
  BY <1>1
<1> HIDE DEF made
<1>5. /\ over \in Frame /\ over.id = made.id /\ over.journal = made.journal
      /\ over.sequence = made.sequence /\ over.boundary = "outbox_overflow"
  BY <1>3, GapsTyped DEF Frame
<1>6. /\ journal'.on /\ journal'.id = journal.id /\ journal'.sequence = made.sequence
      /\ journal'.pending = Envelope(journal, made)
      /\ journal'.prepared.pending = journal.pending
  BY <1>2, <1>3, <1>4, StagedTyped
<1>7. CASE Envelope(journal, made) = Append(journal.pending, made)
  <2>1. /\ Append(journal.pending, made) # <<>>
        /\ LastOf(Append(journal.pending, made)) = made
    BY <1>2, <1>3, InAppend, JournalFields
  <2> QED BY <1>3, <1>6, <1>7, <2>1
<1>8. CASE Envelope(journal, made) = <<over>>
  <2> HIDE DEF over
  <2>1. <<over>> # <<>> /\ LastOf(<<over>>) = over
    BY OrderedShort
  <2> QED BY <1>3, <1>5, <1>6, <1>8, <2>1
<1> QED BY <1>7, <1>8 DEF Envelope

LEMMA NewestPrepare ==
    ASSUME JInv, Newest, Prepare
    PROVE  Newest'
<1> USE DEF JInv
<1>1. /\ UNCHANGED <<state, file, synced, log, safe>> /\ phase' \in {"write", "write_baseline"}
      /\ ~ journal.on => journal' = journal
  BY DEF Prepare, disk
<1>2. RenamedIsState' /\ FlushedIsSynced' /\ ToldIsSynced'
  BY <1>1 DEF RenamedIsState, FlushedIsSynced, ToldIsSynced
<1>3. LatestWaits'
  <2>1. CASE ~ journal.on
    BY <1>1, <2>1 DEF LatestWaits
  <2>2. CASE journal.on
    <3>1. PICK g \in Frame :
            /\ g.id = frames /\ g.journal = journal.id
            /\ journal'.id = journal.id /\ journal'.sequence = g.sequence
            /\ LastOf(journal'.pending) = g
      BY <2>2, PrepareStages
    <3>2. \A f \in Placed : f.id < frames /\ f.id \in Nat
      BY PlacedTyped, FrameFields DEF Evidence, FramesMade
    <3>3. frames \in Nat /\ Published' = Published /\ Published \subseteq Placed
      BY <1>1, PlacedTyped DEF TypeOK, Published
    <3>4. g \notin Published
      BY <3>1, <3>2, <3>3
    <3> QED BY <3>1, <3>3, <3>4 DEF LatestWaits
  <2> QED BY <2>1, <2>2
<1> QED BY <1>2, <1>3 DEF Newest

LEMMA NewestRename ==
    ASSUME JInv, Newest, Rename
    PROVE  Newest'
<1> USE DEF JInv
<1>1. /\ UNCHANGED <<state, synced, log, safe, journal>> /\ Writing
      /\ phase' \in {"renamed", "renamed_baseline"}
  BY DEF Rename, Writing
<1>2. file'.state = state
  <2>1. state \in States /\ journal.pending \in Seq(Frame) /\ revision \in Nat
    BY PlacedTyped DEF TypeOK
  <2> QED BY <2>1, StateFileTyped DEF Rename, FileNow
<1>3. LatestWaits'
  BY <1>1 DEF Newest, LatestWaits, Published
<1> QED BY <1>1, <1>2, <1>3 DEF Newest, RenamedIsState, FlushedIsSynced, ToldIsSynced

LEMMA NewestCommit ==
    ASSUME JInv, Newest, Commit
    PROVE  Newest'
<1> USE DEF JInv, Session
<1>1. /\ UNCHANGED <<state, file, log, safe>> /\ synced' = file
      /\ phase \in {"renamed", "renamed_baseline"} /\ Writing
      /\ phase' = IF journal.on THEN "flush" ELSE "idle"
  BY DEF Commit, Writing
<1>2. /\ journal'.on = journal.on /\ journal'.id = journal.id
      /\ journal'.sequence = journal.sequence /\ journal'.pending = journal.pending
  BY DEF Commit, TypeOK, JournalType
<1>3. CASE ~ journal.on
  BY <1>1, <1>2, <1>3, NothingTold
<1>4. CASE journal.on
  <2>1. journal.pending # <<>> /\ synced'.state = state
    BY <1>1, <1>4 DEF Places, Newest, RenamedIsState
  <2>2. LatestWaits'
    BY <1>1, <1>2, <1>4 DEF Newest, LatestWaits, Published
  <2> QED BY <1>1, <1>2, <1>4, <2>1, <2>2 DEF Newest, RenamedIsState, FlushedIsSynced, ToldIsSynced
<1> QED BY <1>3, <1>4

\* The baseline of a file without a usable outbox is not atomic.
LEMMA NewestLegacy ==
    ASSUME JInv, Newest, OpenLegacy
    PROVE  Newest'
<1> USE DEF JInv
<1> DEFINE fresh == NewJournal(journals)
           made == FrameOf(fresh, FALSE, FALSE)
<1>1. /\ UNCHANGED <<state, file, synced, log, safe>> /\ phase' = "flush"
      /\ journal' = [Staged(fresh, made) EXCEPT !.prepared = NoWrite]
  BY DEF OpenLegacy, disk
<1>2. /\ journals \in Nat /\ 0 \in Nat /\ MaxPending \in Nat \ {0} /\ Len(<<>>) = 0
      /\ frames \in Nat
  BY JournalAssumption DEF TypeOK
<1>3. fresh \in JournalType /\ fresh.id = journals /\ fresh.pending = <<>>
  BY <1>2, NewJournalTyped
<1>4. /\ made \in Frame /\ made.id = frames /\ made.journal = journals /\ made.atomic = FALSE
  <2>1. made.atomic = FALSE
    BY DEF FrameOf
  <2> HIDE DEF fresh
  <2> QED BY <1>3, <2>1, FrameOfTyped
<1> HIDE DEF fresh, made
<1>5. Envelope(fresh, made) = <<made>>
  BY <1>2, <1>3 DEF Envelope
<1>6. /\ Staged(fresh, made) \in JournalType /\ Staged(fresh, made).id = journals
      /\ Staged(fresh, made).sequence = made.sequence
      /\ Staged(fresh, made).pending = <<made>>
  BY <1>2, <1>3, <1>4, <1>5, StagedTyped
<1>7. /\ journal'.id = journals /\ journal'.sequence = made.sequence
      /\ journal'.pending = <<made>>
  <2> DEFINE k == Staged(fresh, made)
  <2>1. k \in JournalType /\ journal' = [k EXCEPT !.prepared = NoWrite]
    BY <1>1, <1>6
  <2> HIDE DEF k
  <2>2. /\ journal'.id = k.id /\ journal'.sequence = k.sequence /\ journal'.pending = k.pending
    BY <2>1 DEF JournalType
  <2> QED BY <1>6, <2>2 DEF k
<1>8. journal'.pending # <<>> /\ LastOf(journal'.pending) = made
  BY <1>7, OrderedShort
<1>9. made \notin Published'
  <2>1. \A f \in Placed : f.id < frames /\ f.id \in Nat
    BY PlacedTyped, FrameFields DEF Evidence, FramesMade
  <2>2. Published' = Published /\ Published \subseteq Placed
    BY <1>1, PlacedTyped DEF Published
  <2> QED BY <1>2, <1>4, <2>1, <2>2
<1> QED BY <1>1, <1>4, <1>7, <1>8, <1>9
        DEF Newest, LatestWaits, RenamedIsState, FlushedIsSynced, ToldIsSynced

\* A handler's change is not told before it is written.
LEMMA NewestQuiet ==
    ASSUME JInv, Newest, UNCHANGED <<synced, log, safe, journal>>,
           phase \in {"idle", "changed"}, phase' \in {"idle", "changed"}
    PROVE  Newest'
BY DEF Newest, LatestWaits, RenamedIsState, FlushedIsSynced, ToldIsSynced, Writing, EndsWithIt

LEMMA NewestRaise ==
    ASSUME JInv, Newest, Raise
    PROVE  Newest'
<1>1. phase = "changed" /\ phase' = "idle" /\ UNCHANGED <<synced, log, safe>>
  BY DEF Raise, disk
<1>2. CASE journal' = journal
  BY <1>1, <1>2, NewestQuiet
<1>3. CASE journal' = [journal EXCEPT !.gap = "unconfirmed_mutation"]
  <2>1. journal'.gap # NoGap
    BY <1>3, GapsTyped DEF JInv, TypeOK, JournalType
  <2> QED BY <1>1, <2>1, NothingTold
<1> QED BY <1>2, <1>3 DEF Raise

LEMMA NewestWriteFails ==
    ASSUME JInv, Newest, WriteFails
    PROVE  Newest'
<1>1. phase' = "idle"
  BY DEF WriteFails
<1>2. ~ journal'.on \/ journal'.gap # NoGap
  <2>1. CASE journal' = NoJournal
    BY <2>1, NoJournalTyped
  <2>2. CASE journal' = Failed(journal)
    BY <2>2, FailedTyped, GapsTyped DEF JInv, TypeOK
  <2>3. CASE ~ journal.on /\ journal' = journal
    BY <2>3
  <2> QED BY <2>1, <2>2, <2>3 DEF WriteFails
<1> QED BY <1>1, <1>2, NothingTold

LEMMA NewestRescan ==
    ASSUME JInv, Newest, Rescan
    PROVE  Newest'
<1>1. /\ UNCHANGED <<state, file, synced, log, phase>> /\ phase \in {"flush", "replay"}
      /\ journal.rescan
  BY DEF Rescan, Flushing
<1>2. /\ journal'.on = journal.on /\ journal'.id = journal.id
      /\ journal'.sequence = journal.sequence /\ journal'.pending = journal.pending
  BY FlushFields DEF JInv
<1>3. phase = "flush" => journal.pending # <<>>
  BY <1>1 DEF Newest, FlushedIsSynced
<1> QED BY <1>1, <1>2, <1>3
        DEF Newest, LatestWaits, RenamedIsState, FlushedIsSynced, ToldIsSynced, Writing, Published

LEMMA NewestSkip ==
    ASSUME JInv, Newest, Skip
    PROVE  Newest'
<1> USE DEF JInv, Session
<1>1. /\ UNCHANGED <<state, file, synced, log, safe, phase>> /\ phase \in {"flush", "replay"}
      /\ Flushing /\ journal.pending # <<>> /\ Head(journal.pending).id \in journal.known
  BY DEF Skip, Flushing, disk
<1>2. /\ journal'.on = journal.on /\ journal'.id = journal.id
      /\ journal'.sequence = journal.sequence /\ journal'.pending = Tail(journal.pending)
  BY FlushFields
<1>3. /\ Head(journal.pending) \in In(journal.pending)
      /\ journal'.pending = <<>> => LastOf(journal.pending) = Head(journal.pending)
      /\ journal'.pending # <<>> => LastOf(journal'.pending) = LastOf(journal.pending)
  BY <1>1, <1>2, TailFiles
<1>4. phase = "flush" => journal'.pending # <<>>
  <2>1. Head(journal.pending) \in Published
    BY <1>1, <1>3, PlacedTyped DEF KnownExact
  <2>2. journal.on
    BY <1>1, FlushingFacts
  <2> QED BY <1>1, <1>3, <2>1, <2>2 DEF Newest, LatestWaits
<1> QED BY <1>1, <1>2, <1>3, <1>4
        DEF Newest, LatestWaits, RenamedIsState, FlushedIsSynced, ToldIsSynced, Writing, Published

\* The frame that is published last ends the history.
LEMMA NewestPublish ==
    ASSUME JInv, TypeOK', Newest, Publish
    PROVE  Newest'
<1> USE DEF JInv, Session
<1> DEFINE h == Head(journal.pending)
<1>1. /\ UNCHANGED <<state, file, synced, phase>> /\ phase \in {"flush", "replay"}
      /\ Publishable /\ Flushing /\ journal.pending # <<>> /\ ~ journal.rescan
      /\ log' = Append(log, h) /\ safe' = Len(log')
  BY DEF Publish, Publishable, Flushing
<1>2. /\ journal'.on = journal.on /\ journal'.id = journal.id
      /\ journal'.sequence = journal.sequence /\ journal'.pending = Tail(journal.pending)
      /\ ~ journal'.rescan
  BY <1>1, FlushFields
<1>3. /\ In(journal.pending) = {h} \cup In(journal'.pending)
      /\ h \notin In(journal'.pending) /\ h \in Frame /\ h # Torn
      /\ journal'.pending = <<>> => LastOf(journal.pending) = h
      /\ journal'.pending # <<>> => LastOf(journal'.pending) = LastOf(journal.pending)
  BY <1>1, <1>2, TailFiles, FrameFields
<1>4. journal'.pending # <<>> => LastOf(journal'.pending) \in In(journal'.pending)
  BY InLast, JournalFields DEF TypeOK
<1>5. log \in Seq(Frame \cup {Torn}) /\ Len(log) \in Nat /\ journal.on
  BY <1>1, PlacedTyped, FlushingFacts DEF TypeOK
<1> HIDE DEF h
<1>6. /\ In(log') = In(log) \cup {h} /\ LastOf(log') = h /\ Len(log') = Len(log) + 1
  BY <1>1, <1>3, <1>5, InAppend
<1>7. Published' = Published \cup {h}
  BY <1>3, <1>6 DEF Published
<1>8. CASE phase = "replay"
  BY <1>1, <1>8, NothingTold
<1>9. CASE phase = "flush"
  <2>1. /\ LastOf(journal.pending) \notin Published
        /\ LastOf(journal.pending).journal = journal.id
        /\ LastOf(journal.pending).sequence = journal.sequence
        /\ LastOf(journal.pending).atomic => synced.state = state
    BY <1>1, <1>5, <1>9 DEF Newest, LatestWaits, FlushedIsSynced
  <2>2. LatestWaits'
    BY <1>2, <1>3, <1>4, <1>7, <2>1 DEF LatestWaits
  <2>3. FlushedIsSynced'
    <3>1. CASE journal'.pending # <<>>
      BY <1>1, <1>3, <2>1, <3>1 DEF FlushedIsSynced
    <3>2. CASE journal'.pending = <<>>
      <4>1. h.journal = journal'.id /\ h.sequence = journal'.sequence
        BY <1>2, <1>3, <2>1, <3>2
      <4>2. Len(log') > 0
        BY <1>5, <1>6
      <4>3. EndsWithIt'
        BY <1>1, <1>3, <1>6, <4>1, <4>2 DEF EndsWithIt
      <4>4. LastOf(log').atomic => synced'.state = state'
        BY <1>1, <1>3, <1>6, <2>1, <3>2
      <4> QED BY <1>2, <3>2, <4>3, <4>4 DEF FlushedIsSynced
    <3> QED BY <3>1, <3>2
  <2> QED BY <1>1, <1>9, <2>2, <2>3 DEF Newest, RenamedIsState, ToldIsSynced
<1> QED BY <1>1, <1>8, <1>9

\* flush returns: the checkpoint's state is the one that was synced.
LEMMA NewestFlushDone ==
    ASSUME JInv, Newest, FlushDone
    PROVE  Newest'
<1> USE DEF JInv
<1> DEFINE gap == IF phase = "flush" /\ Canonical(state) = Unreadable
                  THEN "invalid_state" ELSE NoGap
<1>1. /\ UNCHANGED <<state, file, synced, log, safe>>
      /\ Flushing /\ journal.pending = <<>> /\ FlushEnds(journal, gap)
  BY DEF FlushDone, disk
<1>2. gap \in Gaps /\ (gap = NoGap => phase = "replay" \/ Canonical(state) # Unreadable)
  BY <1>1, GapsTyped DEF Flushing
<1> HIDE DEF gap
<1>3. journal \in JournalType /\ journal.on /\ phase \in {"flush", "replay"}
  BY <1>1, FlushingFacts DEF TypeOK
<1>4. /\ journal'.id = journal.id /\ journal'.sequence = journal.sequence
      /\ journal'.pending = journal.pending
      /\ phase = "replay" => phase' = "baseline"
      /\ phase # "replay" => /\ phase' = "idle" /\ journal'.gap = gap
                             /\ journal'.state = Canonical(state)
  BY <1>1, <1>2, <1>3, FlushEndsTyped
<1>5. CASE phase = "replay"
  BY <1>4, <1>5, NothingTold
<1>6. CASE phase = "flush" /\ gap # NoGap
  BY <1>4, <1>6, NothingTold
<1>7. CASE phase = "flush" /\ gap = NoGap
  <2>1. journal'.state = state
    BY <1>2, <1>4, <1>7 DEF Canonical
  <2>2. EndsWithIt /\ (LastOf(log).atomic => synced.state = state)
    BY <1>1, <1>7 DEF Newest, FlushedIsSynced
  <2>3. EndsWithIt'
    BY <1>1, <1>4, <2>2 DEF EndsWithIt
  <2> QED BY <1>1, <1>4, <1>7, <2>1, <2>2, <2>3
          DEF Newest, LatestWaits, RenamedIsState, FlushedIsSynced, ToldIsSynced, Writing
<1> QED BY <1>3, <1>5, <1>6, <1>7

LEMMA NewestFlushFails ==
    ASSUME JInv, RescanFails \/ AppendFails
    PROVE  Newest'
<1> USE DEF JInv
<1>1. PICK j \in JournalType : FlushEnds(j, "journal_write_failed")
  <2>1. [journal EXCEPT !.rescan = TRUE] \in JournalType /\ journal \in JournalType
    BY DEF TypeOK, JournalType
  <2> QED BY <2>1 DEF RescanFails, AppendFails
<1>2. phase \in {"flush", "replay"}
  BY DEF RescanFails, AppendFails, Flushing
<1>3. /\ phase = "replay" => phase' = "baseline"
      /\ phase # "replay" => phase' = "idle" /\ journal'.gap = "journal_write_failed"
  BY <1>1, FlushEndsTyped, GapsTyped
<1>4. phase' \in {"baseline", "idle"} /\ (phase' = "idle" => journal'.gap # NoGap)
  BY <1>2, <1>3, GapsTyped
<1> QED BY <1>4, NothingTold

LEMMA NewestStep == JInv /\ Newest /\ [Next]_vars => Newest'
<1> SUFFICES ASSUME JInv, Newest, [Next]_vars PROVE Newest'
  OBVIOUS
<1> USE DEF JInv
<1>1. TypeOK'
  BY TypesStep
<1>2. CASE Load \/ LoadClamped \/ OpenRecovered \/ OpenNew \/ OfflineEdit \/ Reidentify
  <2>1. phase' \in {"down", "loaded", "replay", "baseline"}
    BY <1>2 DEF Load, LoadClamped, OpenRecovered, OpenNew, OfflineEdit, Reidentify
  <2> QED BY <2>1, NothingTold
<1>3. CASE Crash \/ PowerLoss
  <2>1. phase' = "down"
    BY <1>3 DEF Crash, PowerLoss, Gone
  <2> QED BY <2>1, NothingTold
<1>4. CASE OpenFails
  <2>1. phase' = "idle" /\ ~ journal'.on
    BY <1>4, NoJournalTyped DEF OpenFails
  <2> QED BY <2>1, NothingTold
<1>5. CASE SeeReversal
  <2>1. phase' = "idle" /\ journal'.gap = "clock_reversal"
    BY <1>5 DEF SeeReversal, TypeOK, JournalType
  <2>2. journal'.gap # NoGap
    BY <2>1, GapsTyped
  <2> QED BY <2>1, <2>2, NothingTold
<1>6. CASE \E s \in States : Change(s)
  <2>1. /\ UNCHANGED <<synced, log, safe, journal>> /\ phase = "idle" /\ phase' = "changed"
    BY <1>6 DEF Change, disk
  <2> QED BY <2>1, NewestQuiet
<1>7. CASE UNCHANGED vars
  BY <1>7 DEF vars, disk, Newest, LatestWaits, RenamedIsState, FlushedIsSynced, ToldIsSynced,
              Writing, Published, EndsWithIt
<1> QED BY <1>1, <1>2, <1>3, <1>4, <1>5, <1>6, <1>7, NewestLegacy, NewestRaise, NewestPrepare,
           NewestRename, NewestWriteFails, NewestCommit, NewestRescan, NewestPublish, NewestSkip,
           NewestFlushDone, NewestFlushFails
        DEF Next, Start, Command, Flush, Outside

\* ToldIsDurable: a checkpoint that is reported as consistent after a commit of this
\* contract stands for the state a loss of power would leave, the history ends with its
\* frame for good and holds none that the synced file has not staged
\* (checkpoint, committed and flush of lease_history.py).
THEOREM WhatIsToldIsDurable == Spec => []ToldIsDurable
<1>1. Init => Newest
  <2>1. ASSUME Init PROVE phase = "down"
    BY <2>1 DEF Init
  <2> QED BY <2>1 DEF Newest, LatestWaits, RenamedIsState, FlushedIsSynced, ToldIsSynced, Writing
<1>2. JInv /\ Newest => ConsistentIsDurable
  <2> SUFFICES ASSUME JInv, Newest, Consistent, LastOf(log) # Torn, LastOf(log).atomic
               PROVE  /\ synced.state = state /\ journal.pending = <<>> /\ safe = Len(log)
                      /\ LastOf(log).sequence = journal.sequence
                      /\ LastOf(log).journal = journal.id
    BY DEF ConsistentIsDurable
  <2>1. /\ journal.pending = <<>> /\ EndsWithIt /\ synced.state = journal.state
    BY DEF Consistent, Newest, ToldIsSynced
  <2>2. journal.state = state
    BY DEF Consistent, Canonical
  <2> QED BY <2>1, <2>2 DEF EndsWithIt
<1>3. JInv /\ Newest /\ [Next]_vars => JInv' /\ Newest'
  BY JInvStep, NewestStep
<1>4. Spec => [](JInv /\ Newest)
  BY <1>1, <1>3, JInvInit, PTL DEF Spec
<1> QED BY <1>2, <1>4, HistoryNeverAhead, PTL DEF ToldIsDurable

-----------------------------------------------------------------------------
(* Evidence is kept: what replaces the synced file has its frames, says    *)
(* that it dropped them, or belongs to another journal                     *)

\* The ids of the lines that a loss of power leaves.
SettledIds == {log[n].id : n \in 1..safe}

\* A frame of s is in t, or does not need to be.
Covers(s, t) == In(s) \subseteq In(t) \cup Settled

Overflowed(s) == LastOf(s).boundary = "outbox_overflow"

\* An outbox that may follow that of the synced file, for the journal at hand.
Carries(s) ==
    synced.pending # <<>> /\ LastOf(synced.pending).journal = journal.id =>
        Covers(synced.pending, s)

\* The file that may become durable any time drops nothing in silence.
FileCovers ==
    file # synced =>
        \/ file.pending = <<>>
        \/ Overflowed(file.pending)
        \/ LastOf(file.pending).journal # LastOf(synced.pending).journal
        \/ Covers(synced.pending, file.pending)

\* Neither does the outbox in memory, nor the one that a failed write brings back.
MemoryCovers ==
    journal.on =>
        /\ Carries(IF Writing THEN journal.prepared.pending ELSE journal.pending)
        /\ Writing => \/ Overflowed(journal.pending)
                      \/ In(journal.prepared.pending) \subseteq In(journal.pending)

Backed == FileCovers /\ MemoryCovers

\* The lines that a loss of power leaves stay what they are and where they are.
LEMMA SafeGrows ==
    ASSUME JInv, [Next]_vars
    PROVE  Settled \subseteq Settled' /\ SettledIds \subseteq SettledIds'
<1> USE DEF JInv
<1>1. /\ log \in Seq(Frame \cup {Torn}) /\ safe \in 0..Len(log) /\ Len(log) \in Nat
  BY PlacedTyped DEF TypeOK
<1>2. ASSUME log' = log, safe' \in {safe, Len(log)}
      PROVE  safe' \in safe..Len(log') /\ \A n \in 1..safe : log'[n] = log[n]
  BY <1>1, <1>2
<1>3. ASSUME NEW e \in Frame \cup {Torn}, log' = Append(log, e), safe' \in {safe, Len(log')}
      PROVE  safe' \in safe..Len(log') /\ \A n \in 1..safe : log'[n] = log[n]
  <2>1. /\ Len(Append(log, e)) = Len(log) + 1
        /\ \A n \in 1..Len(log) : Append(log, e)[n] = log[n]
    BY <1>1
  <2> QED BY <1>1, <1>3, <2>1
<1>4. ASSUME journal.pending # <<>>, log' \in Remains(Head(journal.pending)), safe' = safe
      PROVE  safe' \in safe..Len(log') /\ \A n \in 1..safe : log'[n] = log[n]
  <2>1. Head(journal.pending) \in Frame
    BY <1>4, InTail, JournalFields DEF TypeOK
  <2>2. CASE log' = log
    BY <1>2, <1>4, <2>2
  <2>3. CASE log' = Append(log, Torn)
    BY <1>3, <1>4, <2>3
  <2>4. CASE log' = Append(log, Head(journal.pending))
    BY <1>3, <1>4, <2>1, <2>4
  <2> QED BY <1>4, <2>2, <2>3, <2>4 DEF Remains
<1>5. safe' \in safe..Len(log') /\ \A n \in 1..safe : log'[n] = log[n]
  <2>1. CASE Start
    <3>1. log' = log /\ safe' \in {safe, Len(log)}
      BY <2>1 DEF Start, Load, LoadClamped, OpenRecovered, OpenLegacy, OpenNew, OpenFails, disk
    <3> QED BY <3>1, <1>2
  <2>2. CASE Command
    <3>1. log' = log /\ safe' = safe
      BY <2>2 DEF Command, Change, Raise, Prepare, Rename, WriteFails, Commit, disk
    <3> QED BY <3>1, <1>2
  <2>3. CASE Rescan \/ Skip \/ FlushDone \/ RescanFails
    <3>1. log' = log /\ safe' \in {safe, Len(log)}
      BY <2>3 DEF Rescan, Skip, FlushDone, RescanFails, disk
    <3> QED BY <3>1, <1>2
  <2>4. CASE Publish
    <3>1. Head(journal.pending) \in Frame
      BY <2>4, InTail, JournalFields DEF TypeOK, Publish
    <3> QED BY <2>4, <3>1, <1>3 DEF Publish
  <2>5. CASE AppendFails
    BY <2>5, <1>4 DEF AppendFails
  <2>6. CASE Crash
    BY <2>6, <1>2, <1>4 DEF Crash
  <2>7. CASE PowerLoss
    <3>1. PICK n \in safe..Len(log) : log' = SubSeq(log, 1, n) /\ safe' = n
      BY <2>7 DEF PowerLoss
    <3>2. Len(log') = n /\ \A k \in 1..n : log'[k] = log[k]
      BY <1>1, <3>1
    <3> QED BY <1>1, <3>1, <3>2
  <2>8. CASE SeeReversal \/ OfflineEdit \/ Reidentify \/ UNCHANGED vars
    <3>1. log' = log /\ safe' = safe
      BY <2>8 DEF SeeReversal, OfflineEdit, Reidentify, vars, disk
    <3> QED BY <3>1, <1>2
  <2> QED BY <2>1, <2>2, <2>3, <2>4, <2>5, <2>6, <2>7, <2>8 DEF Next, Flush, Outside
<1>6. \A n \in 1..safe : n \in 1..safe'
  BY <1>1, <1>5
<1> QED BY <1>5, <1>6 DEF Settled, SettledIds

\* The file and what is synced of it stay, or become one.
LEMMA FileCoversQuiet ==
    ASSUME FileCovers, Settled \subseteq Settled',
           \/ file' = file /\ synced' = synced
           \/ synced' = file'
           \/ file'.pending = <<>>
    PROVE  FileCovers'
BY DEF FileCovers, Covers, Overflowed

\* A session that stages no write covers no less when its outbox loses only what is settled.
LEMMA MemoryCoversQuiet ==
    ASSUME MemoryCovers, Settled \subseteq Settled', synced' = synced,
           journal'.on => journal.on /\ journal'.id = journal.id,
           ~ Writing, ~ Writing',
           In(journal.pending) \subseteq In(journal'.pending) \cup Settled'
    PROVE  MemoryCovers'
BY DEF MemoryCovers, Carries, Covers

\* A session whose outbox is that of the synced file.
LEMMA MemoryCoversSame ==
    ASSUME ~ Writing', journal'.pending = synced'.pending
    PROVE  MemoryCovers'
BY DEF MemoryCovers, Carries, Covers

LEMMA MemoryCoversOff ==
    ASSUME ~ journal'.on
    PROVE  MemoryCovers'
BY DEF MemoryCovers

\* A journal that is new is not that of the synced file.
LEMMA MemoryCoversNew ==
    ASSUME JInv, OpenLegacy \/ OpenNew
    PROVE  MemoryCovers'
<1> USE DEF JInv
<1>1. synced' = synced /\ ~ Writing'
  BY DEF OpenLegacy, OpenNew, disk, Writing
<1>2. journal'.id = journals
  <2>1. NewJournal(journals) \in JournalType /\ NewJournal(journals).id = journals
        /\ NewJournal(journals).pending = <<>>
    BY NewJournalTyped DEF TypeOK
  <2>2. CASE OpenNew
    BY <2>1, <2>2 DEF OpenNew
  <2>3. CASE OpenLegacy
    <3> DEFINE fresh == NewJournal(journals)
               made == FrameOf(fresh, FALSE, FALSE)
               k == Staged(fresh, made)
    <3>1. journal' = [k EXCEPT !.prepared = NoWrite]
      BY <2>3 DEF OpenLegacy
    <3>2. made \in Frame /\ Len(fresh.pending) <= MaxPending
      <4>1. Len(<<>>) <= MaxPending
        BY JournalAssumption
      <4> HIDE DEF fresh
      <4> QED BY <2>1, <4>1, FrameOfTyped DEF fresh
    <3> HIDE DEF made
    <3>3. k \in JournalType /\ k.id = journals
      BY <2>1, <3>2, StagedTyped
    <3> HIDE DEF k
    <3> QED BY <3>1, <3>3 DEF JournalType
  <2> QED BY <2>2, <2>3
<1>3. synced.pending # <<>> => LastOf(synced.pending).journal # journals
  <2>1. synced.pending # <<>> => LastOf(synced.pending) \in Placed
    BY PlacedTyped, InLast DEF Placed
  <2>2. \A f \in Placed : f.journal < journals /\ f.journal \in Nat
    BY PlacedTyped, FrameFields DEF Evidence, FramesMade
  <2> QED BY <2>1, <2>2 DEF TypeOK
<1> QED BY <1>1, <1>2, <1>3 DEF MemoryCovers, Carries

\* A staged write restores what it replaces, or says that it dropped it.
LEMMA MemoryCoversPrepare ==
    ASSUME JInv, MemoryCovers, Prepare
    PROVE  MemoryCovers'
<1> USE DEF JInv
<1>1. /\ UNCHANGED <<synced, log, safe>> /\ ~ Writing /\ Writing'
      /\ ~ journal.on => journal' = journal
  BY DEF Prepare, disk, Writing
<1>2. CASE ~ journal.on
  BY <1>1, <1>2, MemoryCoversOff
<1>3. CASE journal.on
  <2>1. PICK g \in Frame :
          /\ journal'.id = journal.id
          /\ journal'.prepared.pending = journal.pending
          /\ \/ journal'.pending = Append(journal.pending, g)
             \/ journal'.pending = <<g>> /\ g.boundary = "outbox_overflow"
          /\ LastOf(journal'.pending) = g
    BY <1>3, PrepareStages
  <2>2. Carries(journal.pending)
    BY <1>1, <1>3 DEF MemoryCovers
  <2>3. Settled' = Settled
    BY <1>1 DEF Settled
  <2>4. Carries(journal.prepared.pending)'
    BY <1>1, <2>1, <2>2, <2>3 DEF Carries, Covers
  <2>5. \/ Overflowed(journal.pending)'
        \/ In(journal'.prepared.pending) \subseteq In(journal'.pending)
    <3>1. CASE journal'.pending = Append(journal.pending, g)
      <4>1. In(Append(journal.pending, g)) = In(journal.pending) \cup {g}
        BY InAppend, JournalFields DEF TypeOK
      <4> QED BY <2>1, <3>1, <4>1
    <3>2. CASE journal'.pending = <<g>> /\ g.boundary = "outbox_overflow"
      BY <2>1, <3>2 DEF Overflowed
    <3> QED BY <2>1, <3>1, <3>2
  <2> QED BY <1>1, <2>4, <2>5 DEF MemoryCovers
<1> QED BY <1>2, <1>3

\* The file that a rename puts in place carries on the synced one, or says that it does not.
LEMMA BackedRename ==
    ASSUME JInv, Backed, Rename
    PROVE  Backed'
<1> USE DEF JInv, Session
<1>1. UNCHANGED <<synced, log, safe, journal>> /\ Writing /\ Writing'
  BY DEF Rename, Writing
<1>2. Settled' = Settled
  BY <1>1 DEF Settled
<1>3. file'.pending = journal.pending
  <2>1. state \in States /\ journal.pending \in Seq(Frame) /\ revision \in Nat
    BY PlacedTyped DEF TypeOK
  <2> QED BY <2>1, StateFileTyped DEF Rename, FileNow
<1>4. MemoryCovers'
  BY <1>1, <1>2 DEF Backed, MemoryCovers, Carries, Covers, Overflowed
<1>5. FileCovers'
  <2>1. CASE ~ journal.on
    BY <1>3, <2>1, NoJournalPending DEF FileCovers
  <2>2. CASE journal.on /\ synced.pending = <<>>
    BY <1>1, <2>2, InEmpty DEF FileCovers, Covers
  <2>3. CASE journal.on /\ synced.pending # <<>>
    <3>1. journal.pending # <<>> /\ journal.pending \in Seq(Frame)
      BY <1>1, <2>3, PlacedTyped DEF Places
    <3>2. LastOf(journal.pending).journal = journal.id
      BY <3>1, InLast DEF Numbers
    <3>3. LastOf(synced.pending).journal = journal.id =>
            Overflowed(journal.pending) \/ Covers(synced.pending, journal.pending)
      BY <1>1, <2>3 DEF Backed, MemoryCovers, Carries, Covers
    <3> QED BY <1>1, <1>2, <1>3, <3>2, <3>3 DEF FileCovers, Covers, Overflowed
  <2> QED BY <2>1, <2>2, <2>3
<1> QED BY <1>4, <1>5 DEF Backed

\* A write that fails brings back the outbox that covered the synced one.
LEMMA MemoryCoversFails ==
    ASSUME JInv, MemoryCovers, WriteFails
    PROVE  MemoryCovers'
<1> USE DEF JInv
<1>1. UNCHANGED <<synced, log, safe>> /\ Writing /\ ~ Writing'
  BY DEF WriteFails, disk, Writing
<1>2. CASE ~ journal'.on
  BY <1>2, MemoryCoversOff
<1>3. CASE journal'.on
  <2>1. journal.on /\ journal' = Failed(journal)
    BY <1>3, NoJournalTyped DEF WriteFails
  <2>2. journal'.id = journal.id /\ journal'.pending = journal.prepared.pending
    BY <2>1, FailedTyped DEF TypeOK
  <2>3. Carries(journal.prepared.pending) /\ Settled' = Settled
    BY <1>1, <2>1 DEF MemoryCovers, Settled
  <2> QED BY <1>1, <2>2, <2>3 DEF MemoryCovers, Carries, Covers
<1> QED BY <1>2, <1>3

LEMMA BackedFlush ==
    ASSUME JInv, Backed, Settled \subseteq Settled', Flush
    PROVE  Backed'
<1> USE DEF JInv, Session
<1>1. /\ file' = file /\ synced' = synced /\ Flushing
      /\ phase' \in {phase, "baseline", "idle"}
  BY DEF Flush, Rescan, Publish, Skip, FlushDone, RescanFails, AppendFails, FlushEnds, disk
<1>2. ~ Writing /\ ~ Writing' /\ journal.on /\ In(journal.prepared.pending) = {}
  BY <1>1, FlushingFacts DEF Writing, Flushing
<1>3. FileCovers'
  BY <1>1, FileCoversQuiet DEF Backed
<1>4. /\ journal'.id = journal.id
      /\ In(journal.pending) \subseteq In(journal'.pending) \cup Settled'
  <2>1. CASE Rescan
    BY <2>1, FlushFields
  <2>2. ASSUME Publish \/ Skip, Head(journal.pending) \in Settled'
        PROVE  /\ journal'.id = journal.id
               /\ In(journal.pending) \subseteq In(journal'.pending) \cup Settled'
    <3>1. journal.pending # <<>> /\ journal'.pending = Tail(journal.pending)
          /\ journal'.id = journal.id
      BY <2>2, FlushFields DEF Publish, Skip
    <3>2. In(journal.pending) = {Head(journal.pending)} \cup In(journal'.pending)
      BY <3>1, TailFiles
    <3> QED BY <2>2, <3>1, <3>2
  <2>3. CASE Publish
    <3>1. /\ journal.pending # <<>> /\ log' = Append(log, Head(journal.pending))
          /\ safe' = Len(log')
      BY <2>3 DEF Publish
    <3>2. Head(journal.pending) \in Frame /\ Head(journal.pending) # Torn
      BY <3>1, InTail, JournalFields, FrameFields DEF TypeOK
    <3>3. In(log') = In(log) \cup {Head(journal.pending)}
      BY <3>1, InAppend DEF TypeOK
    <3>4. Head(journal.pending) \in Settled'
      BY <3>1, <3>2, <3>3 DEF Settled, In
    <3> QED BY <2>2, <2>3, <3>4
  <2>4. CASE Skip
    <3>1. journal.pending # <<>> /\ Head(journal.pending).id \in journal.known
      BY <2>4 DEF Skip
    <3>2. Head(journal.pending) \in In(journal.pending)
      BY <3>1, InTail, JournalFields DEF TypeOK
    <3>3. Head(journal.pending) \in Settled
      BY <3>1, <3>2 DEF KnownExact
    <3> QED BY <2>2, <2>4, <3>3
  <2>5. CASE FlushDone \/ RescanFails \/ AppendFails
    <3>1. PICK j \in JournalType, gap \in Gaps :
            FlushEnds(j, gap) /\ j.id = journal.id /\ j.pending = journal.pending
      <4>1. CASE FlushDone
        BY <4>1, GapsTyped DEF FlushDone, TypeOK
      <4>2. CASE RescanFails
        BY <4>2, GapsTyped DEF RescanFails, TypeOK
      <4>3. CASE AppendFails
        <5> DEFINE j == [journal EXCEPT !.rescan = TRUE]
        <5>1. j \in JournalType /\ j.id = journal.id /\ j.pending = journal.pending
          BY DEF TypeOK, JournalType
        <5>2. FlushEnds(j, "journal_write_failed")
          BY <4>3 DEF AppendFails
        <5> HIDE DEF j
        <5> QED BY <5>1, <5>2, GapsTyped
      <4> QED BY <2>5, <4>1, <4>2, <4>3
    <3>2. journal'.id = j.id /\ journal'.pending = j.pending
      BY <3>1, FlushEndsTyped
    <3> QED BY <3>1, <3>2
  <2> QED BY <2>1, <2>3, <2>4, <2>5 DEF Flush
<1>5. MemoryCovers'
  BY <1>1, <1>2, <1>4, MemoryCoversQuiet DEF Backed
<1> QED BY <1>3, <1>5 DEF Backed

LEMMA BackedStep == JInv /\ Backed /\ [Next]_vars => Backed'
<1> SUFFICES ASSUME JInv, Backed, [Next]_vars PROVE Backed'
  OBVIOUS
<1> USE DEF JInv, Session
<1>1. Settled \subseteq Settled' /\ FileCovers /\ MemoryCovers
  BY SafeGrows DEF Backed
<1>2. CASE Load \/ Reidentify
  <2>1. file' = file /\ synced' = synced /\ ~ journal'.on
    BY <1>2 DEF Load, Reidentify, disk, Places
  <2> QED BY <1>1, <2>1, FileCoversQuiet, MemoryCoversOff DEF Backed
<1>3. CASE LoadClamped \/ OfflineEdit
  <2>1. ~ journal'.on /\ file'.pending = <<>>
    BY <1>3, BareFileTyped DEF LoadClamped, OfflineEdit, Places
  <2> QED BY <1>1, <2>1, FileCoversQuiet, MemoryCoversOff DEF Backed
<1>4. CASE OpenRecovered
  <2>1. journal' = Recovered /\ Recoverable
    BY <1>4 DEF OpenRecovered, Recovered
  <2>2. synced' = file /\ file' = file /\ journal'.pending = file.pending /\ ~ Writing'
    BY <1>4, <2>1, RecoveredTyped DEF OpenRecovered, Writing
  <2> QED BY <1>1, <2>2, FileCoversQuiet, MemoryCoversSame DEF Backed
<1>5. CASE OpenLegacy \/ OpenNew
  <2>1. file' = file /\ synced' = synced
    BY <1>5 DEF OpenLegacy, OpenNew, disk
  <2> QED BY <1>1, <1>5, <2>1, FileCoversQuiet, MemoryCoversNew DEF Backed
<1>6. CASE OpenFails \/ Crash \/ PowerLoss
  <2>1. ~ journal'.on
    BY <1>6, NoJournalTyped DEF OpenFails, Crash, PowerLoss, Gone
  <2>2. (file' = file /\ synced' = synced) \/ synced' = file'
    BY <1>6 DEF OpenFails, Crash, PowerLoss
  <2> QED BY <1>1, <2>1, <2>2, FileCoversQuiet, MemoryCoversOff DEF Backed
<1>7. CASE (\E s \in States : Change(s)) \/ Raise \/ SeeReversal
  <2>1. /\ file' = file /\ synced' = synced /\ ~ Writing /\ ~ Writing'
    BY <1>7 DEF Change, Raise, SeeReversal, disk, Writing
  <2>2. /\ journal'.on = journal.on /\ journal'.id = journal.id
        /\ journal'.pending = journal.pending
    BY <1>7 DEF Change, Raise, SeeReversal, TypeOK, JournalType
  <2> QED BY <1>1, <2>1, <2>2, FileCoversQuiet, MemoryCoversQuiet DEF Backed
<1>8. CASE Prepare \/ WriteFails
  <2>1. file' = file /\ synced' = synced
    BY <1>8 DEF Prepare, WriteFails, disk
  <2> QED BY <1>1, <1>8, <2>1, FileCoversQuiet, MemoryCoversPrepare, MemoryCoversFails DEF Backed
<1>9. CASE Commit
  <2>1. /\ synced' = file /\ file' = file /\ ~ Writing' /\ file.pending = journal.pending
    BY <1>9 DEF Commit, Writing, Places
  <2>2. journal'.pending = journal.pending
    BY <1>9 DEF Commit, TypeOK, JournalType
  <2> QED BY <1>1, <2>1, <2>2, FileCoversQuiet, MemoryCoversSame DEF Backed
<1>10. CASE UNCHANGED vars
  BY <1>10 DEF vars, disk, Backed, FileCovers, MemoryCovers, Carries, Covers, Overflowed,
               Writing, Settled
<1> QED BY <1>1, <1>2, <1>3, <1>4, <1>5, <1>6, <1>7, <1>8, <1>9, <1>10, BackedRename, BackedFlush
        DEF Next, Start, Command, Outside

\* EvidenceKept: a frame that would survive a loss of power goes on to survive one, unless
\* the synced file is replaced by one that says it overflowed, has no outbox or begins
\* another journal (envelope, failed and the recovery of lease_history.py).
THEOREM EvidenceIsKept == Spec => EvidenceKept
<1> DEFINE A == Kept \subseteq Kept'
                \/ /\ synced' # synced
                   /\ \/ synced'.pending = <<>>
                      \/ LastOf(synced'.pending).boundary = "outbox_overflow"
                      \/ LastOf(synced'.pending).journal # LastOf(synced.pending).journal
<1>1. Init => Backed
  <2>1. ASSUME Init PROVE file = synced /\ ~ journal.on
    BY <2>1, NoJournalTyped DEF Init
  <2> QED BY <2>1 DEF Backed, FileCovers, MemoryCovers
<1>2. JInv => Kept = SettledIds \cup Ids(synced.pending)
  <2> SUFFICES ASSUME JInv PROVE Ids(SubSeq(log, 1, safe)) = SettledIds
    BY DEF Kept
  <2>1. log \in Seq(Frame \cup {Torn}) /\ safe \in 0..Len(log) /\ Len(log) \in Nat
    BY PlacedTyped DEF JInv, TypeOK
  <2> DEFINE t == SubSeq(log, 1, safe)
  <2>2. Len(t) = safe /\ \A n \in 1..safe : t[n] = log[n]
    BY <2>1
  <2> HIDE DEF t
  <2>3. Ids(t) = SettledIds
    BY <2>2 DEF Ids, SettledIds
  <2> QED BY <2>3 DEF t
<1>3. JInv' => (Kept = SettledIds \cup Ids(synced.pending))'
  BY <1>2, PTL
<1>4. JInv /\ JInv' /\ Backed /\ [Next]_vars => A
  <2> SUFFICES ASSUME JInv, JInv', Backed, [Next]_vars, ~ A PROVE FALSE
    OBVIOUS
  <2>a. /\ ~ (Kept \subseteq Kept')
        /\ synced' # synced =>
             /\ synced'.pending # <<>>
             /\ LastOf(synced'.pending).boundary # "outbox_overflow"
             /\ LastOf(synced'.pending).journal = LastOf(synced.pending).journal
    OBVIOUS
  <2> HIDE DEF A
  <2>1. /\ Kept = SettledIds \cup Ids(synced.pending)
        /\ Kept' = SettledIds' \cup Ids(synced'.pending)
        /\ SettledIds \subseteq SettledIds' /\ Settled \subseteq Settled'
    BY <1>2, <1>3, SafeGrows
  <2>2. CASE synced' = synced
    BY <2>a, <2>1, <2>2
  <2>3. CASE synced' # synced
    <3>1. synced'.pending # <<>>
      BY <2>a, <2>3
    <3>2. synced' = file
      <4>1. CASE Start
        BY <2>3, <3>1, <4>1, BareFileTyped
           DEF Start, Load, LoadClamped, OpenRecovered, OpenLegacy, OpenNew, OpenFails, disk
      <4>2. CASE Command
        BY <2>3, <4>2 DEF Command, Change, Raise, Prepare, Rename, WriteFails, Commit, disk
      <4>3. CASE Flush
        BY <2>3, <4>3 DEF Flush, Rescan, Publish, Skip, FlushDone, RescanFails, AppendFails, disk
      <4>4. CASE Outside
        BY <2>3, <3>1, <4>4, BareFileTyped
           DEF Outside, SeeReversal, Crash, PowerLoss, OfflineEdit, Reidentify, disk
      <4> QED BY <2>3, <4>1, <4>2, <4>3, <4>4 DEF Next, vars, disk
    <3>3. Covers(synced.pending, file.pending)
      BY <2>a, <2>3, <3>1, <3>2 DEF Backed, FileCovers, Overflowed
    <3>4. /\ Ids(synced.pending) = {f.id : f \in In(synced.pending)}
          /\ Ids(file.pending) = {f.id : f \in In(file.pending)}
      BY DEF Ids, In
    <3>5. \A f \in Settled : f.id \in SettledIds
      BY DEF Settled, SettledIds
    <3> QED BY <2>a, <2>1, <3>2, <3>3, <3>4, <3>5 DEF Covers
  <2> QED BY <2>2, <2>3
<1>5. JInv /\ Backed /\ [Next]_vars => JInv' /\ Backed'
  BY JInvStep, BackedStep
<1>6. Spec => [](JInv /\ Backed)
  BY <1>1, <1>5, JInvInit, PTL DEF Spec
<1>7. JInv /\ JInv' /\ Backed /\ [Next]_vars => [A]_vars
  BY <1>4
<1> QED BY <1>6, <1>7, PTL DEF Spec, EvidenceKept
=============================================================================
