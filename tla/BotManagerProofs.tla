--------------------------- MODULE BotManagerProofs ---------------------------
(***************************************************************************)
(* Theorems about BotManager, for every set of bots and threads, every     *)
(* limit and every sequence of requests; and, at the end, about the parts  *)
(* of MCProgress together, whose theorems are in ServerProofs.             *)
(***************************************************************************)
EXTENDS MCProgress, ServerProofs

USE BotSchedulerAssumption, BotManagerAssumption

-----------------------------------------------------------------------------
(***************************************************************************)
(* Bags.                                                                   *)
(***************************************************************************)
LEMMA BagAddType ==
  ASSUME NEW S, NEW B, IsBag(B, S), NEW x \in S
  PROVE  IsBag(B (+) SetToBag({x}), S)
BY DEF IsBag, (+), SetToBag

LEMMA BagRemoveType ==
  ASSUME NEW S, NEW B, IsBag(B, S), NEW x
  PROVE  IsBag(B (-) SetToBag({x}), S)
BY DEF IsBag, (-), SetToBag

-----------------------------------------------------------------------------
(***************************************************************************)
(* The scheduler's variables.                                              *)
(***************************************************************************)
LEMMA PushType ==
  ASSUME SchedTypeOK, NEW b \in Bots, NEW gen \in Nat, NEW d \in Nat, Push(b, gen, d)
  PROVE  IsBag(heap', Entry)
<1>1. [bot |-> b, gen |-> gen, wait |-> d] \in Entry
  BY DEF Entry
<1>2. IsBag(heap, Entry)
  BY DEF SchedTypeOK
<1> QED
  BY <1>1, <1>2, BagAddType DEF Push

LEMMA NoItemType == NoItem \in Item
BY DEF NoItem, Item, None

LEMMA AddType ==
  ASSUME SchedTypeOK, NEW b \in Bots, NEW g \in Nat, Add(b, g, 0), UNCHANGED thread
  PROVE  SchedTypeOK'
<1>1. IsBag(heap', Entry)
  <2>1. gens[b] \in Nat
    BY DEF SchedTypeOK
  <2>2. CASE UNCHANGED heap
    BY <2>2 DEF SchedTypeOK
  <2>3. CASE Push(b, gens[b], 0)
    BY <2>1, <2>3, PushType
  <2> QED
    BY <2>2, <2>3 DEF Add
<1> QED
  BY <1>1 DEF SchedTypeOK, Add, registry, thread

LEMMA RemoveType ==
  ASSUME SchedTypeOK, NEW b \in Bots, NEW g \in Nat, RemoveEntry(b, g), UNCHANGED heap
  PROVE  /\ registered' \in [Bots -> Nat] /\ newest' \in [Bots -> Nat]
         /\ gens' \in [Bots -> Nat] /\ failures' \in [Bots -> Nat]
         /\ cooldown' \in [Bots -> Nat]
BY DEF SchedTypeOK, RemoveEntry, registry, None

LEMMA RescheduleType ==
  ASSUME SchedTypeOK, NEW b \in Bots, RescheduleSoon(b), UNCHANGED << registry, thread >>
  PROVE  SchedTypeOK'
<1>1. IsBag(heap', Entry)
  <2>1. gens[b] \in Nat /\ MinInterval \in Nat
    BY DEF SchedTypeOK
  <2>2. CASE UNCHANGED heap
    BY <2>2 DEF SchedTypeOK
  <2>3. CASE Push(b, gens[b], MinInterval)
    BY <2>1, <2>3, PushType
  <2> QED
    BY <2>2, <2>3 DEF RescheduleSoon
<1> QED
  BY <1>1 DEF SchedTypeOK, RescheduleSoon, registry, thread

LEMMA PushItemType ==
  ASSUME SchedTypeOK, NEW d \in Nat, PushItem(d)
  PROVE  IsBag(heap', Entry)
<1>1. item.bot \in Bots /\ item.gen \in Nat
  BY DEF SchedTypeOK, Item
<1>2. CASE Push(item.bot, item.gen, d)
  BY <1>1, <1>2, PushType
<1>3. CASE UNCHANGED heap
  BY <1>3 DEF SchedTypeOK
<1> QED
  BY <1>2, <1>3 DEF PushItem

LEMMA FireDueType ==
  ASSUME SchedTypeOK, FireDue
  PROVE  SchedTypeOK'
<1>1. IsBag(heap', Entry)
  BY DEF SchedTypeOK, FireDue, IsBag
<1>2. IsBag(due', Item)
  <2> DEFINE Ripe == {x \in DueEntries : Current(x)}
  <2>1. ASSUME NEW e \in Ripe
        PROVE  /\ Captured(e) \in Item
               /\ [bot |-> Captured(e).bot, gen |-> Captured(e).gen, wait |-> 0] = e
               /\ heap[e] \in Nat \ {0}
    BY DEF SchedTypeOK, IsBag, DueEntries, Captured, Entry, Item
  <2> DEFINE Items == {Captured(e) : e \in Ripe}
  <2>2. due' = [i \in Items |-> heap[[bot |-> i.bot, gen |-> i.gen, wait |-> 0]]]
    BY DEF FireDue
  <2>3. \A i \in Items : i \in Item /\ heap[[bot |-> i.bot, gen |-> i.gen, wait |-> 0]] \in Nat \ {0}
    BY <2>1
  <2> HIDE DEF Items
  <2> QED
    BY <2>2, <2>3 DEF IsBag
<1> QED
  BY <1>1, <1>2 DEF SchedTypeOK, FireDue, registry

LEMMA TickType ==
  ASSUME SchedTypeOK, Tick
  PROVE  SchedTypeOK'
<1>1. IsBag(heap', Entry)
  <2> DEFINE Olds == {Aged(x) : x \in DOMAIN heap}
             Count(e) == Copies([e EXCEPT !.wait = @ + 1]) + IF e.wait = 0 THEN Copies(e) ELSE 0
  <2>1. heap' = [e \in Olds |-> Count(e)]
    BY DEF Tick
  <2>2. ASSUME NEW x \in DOMAIN heap
        PROVE  Aged(x) \in Entry /\ Count(Aged(x)) \in Nat \ {0}
    <3>1. x \in Entry /\ heap[x] \in Nat \ {0} /\ \A e : Copies(e) \in Nat
      BY DEF SchedTypeOK, IsBag, Copies
    <3>2. Aged(x) \in Entry
      BY <3>1 DEF Aged, Entry
    <3>3. CASE x.wait = 0
      <4>1. Aged(x) = x /\ Copies(x) \in Nat \ {0}
        BY <3>1, <3>3 DEF Aged, Entry, Copies
      <4> QED
        BY <3>1, <3>2, <3>3, <4>1
    <3>4. CASE x.wait # 0
      <4>1. /\ x = [bot |-> x.bot, gen |-> x.gen, wait |-> x.wait]
            /\ x.wait \in Nat \ {0} /\ x.wait - 1 + 1 = x.wait
        BY <3>1, <3>4 DEF Entry
      <4>2. Aged(x) = [bot |-> x.bot, gen |-> x.gen, wait |-> x.wait - 1]
        BY <3>4, <4>1 DEF Aged
      <4>3. [Aged(x) EXCEPT !.wait = @ + 1] = x
        BY <4>1, <4>2
      <4>4. Copies(x) \in Nat \ {0}
        BY <3>1 DEF Copies
      <4> QED
        BY <3>1, <3>2, <4>3, <4>4
    <3> QED
      BY <3>3, <3>4
  <2>3. \A e \in Olds : e \in Entry /\ Count(e) \in Nat \ {0}
    BY <2>2
  <2> HIDE DEF Olds, Count
  <2> QED
    BY <2>1, <2>3 DEF IsBag
<1>2. cooldown' \in [Bots -> Nat]
  BY DEF SchedTypeOK, Tick
<1> QED
  BY <1>1, <1>2 DEF SchedTypeOK, Tick, registry, thread

LEMMA UnadmittedType ==
  ASSUME SchedTypeOK, SweepUnadmitted
  PROVE  SchedTypeOK'
<1>0. item.bot \in Bots /\ item.mgrGen \in Nat /\ delay \in Nat
  BY DEF SchedTypeOK, Item
<1>1. CASE FireDue
  BY <1>1, FireDueType
<1>2. CASE NextItem
  <2>1. PICK i \in DOMAIN due : due' = due (-) SetToBag({i}) /\ item' = i
    BY <1>2 DEF NextItem
  <2>2. IsBag(due', Item) /\ i \in Item
    BY <2>1, BagRemoveType DEF SchedTypeOK, IsBag
  <2> QED
    BY <1>2, <2>1, <2>2 DEF NextItem, SchedTypeOK, registry, Steps
<1>3. CASE Refused
  <2>1. IsBag(heap', Entry)
    BY <1>3, PushItemType DEF Refused
  <2> QED
    BY <1>3, <2>1, NoItemType DEF Refused, Finished, SchedTypeOK, registry, Steps
<1>4. CASE CountSuccess
  BY <1>0, <1>4 DEF CountSuccess, SchedTypeOK, Steps
<1>5. CASE DropFailure
  BY <1>5, NoItemType DEF DropFailure, Finished, SchedTypeOK, registry, Steps
<1>6. CASE CountFailure
  <2>1. failures' \in [Bots -> Nat]
    BY <1>0, <1>6 DEF CountFailure, SchedTypeOK
  <2>2. cooldown' \in [Bots -> Nat] /\ delay' \in Nat /\ step' \in Steps
    BY <1>0, <1>6 DEF CountFailure, SchedTypeOK, Steps
  <2> QED
    BY <1>6, <2>1, <2>2 DEF CountFailure, SchedTypeOK
<1>7. CASE Requeue
  <2>1. IsBag(heap', Entry)
    BY <1>0, <1>7, PushItemType DEF Requeue
  <2> QED
    BY <1>7, <2>1, NoItemType DEF Requeue, Finished, SchedTypeOK, registry, Steps
<1>8. CASE RemoveFailing
  <2>1. RemoveEntry(item.bot, item.mgrGen) /\ UNCHANGED heap
    BY <1>8 DEF RemoveFailing
  <2> QED
    BY <1>0, <1>8, <2>1, RemoveType DEF RemoveFailing, SchedTypeOK, Steps
<1> QED
  BY <1>1, <1>2, <1>3, <1>4, <1>5, <1>6, <1>7, <1>8 DEF SweepUnadmitted

-----------------------------------------------------------------------------
(***************************************************************************)
(* The inductive invariant.  A bot has one owner; a request that is about  *)
(* to use the saved state has found no instance, and nobody else can make  *)
(* one; whatever is at work has an instance to work on, which a drain that *)
(* waited for the counters therefore does not take away.                   *)
(***************************************************************************)
SoleOwner ==
  \A s, t \in Admins :
    job[s].kind # "none" /\ job[t].kind # "none" /\ job[s].bot = job[t].bot => s = t

Loading == {"construct", "publish", "write"}

NothingLives ==
  \A t \in Admins : job[t].kind # "none" /\ job[t].at \in Loading =>
    bots[job[t].bot] = None /\ failed[job[t].bot] = None

WorkHasInstance == \A b \in Bots : Working(b) => bots[b] # None \/ failed[b] # None

NewestWorks ==
  /\ \A b \in Bots : Sweeping(b) => item.instance = generations[b]
  /\ \A c \in Clients : Busy(c) => op[c].gen = generations[op[c].bot]

IInv ==
  /\ TypeOK
  /\ WorkIsCounted
  /\ SoleOwner
  /\ NothingLives
  /\ WorkHasInstance
  /\ NewestWorks

LEMMA IInvOneGeneration ==
  ASSUME IInv
  PROVE  OneGenerationWorks
<1>1. ASSUME NEW t \in Admins, NEW b \in Bots, OnDisk(t, b)
      PROVE  ~ Working(b) /\ \A s \in Admins \ {t} : ~ OnDisk(s, b)
  <2>1. job[t].kind # "none" /\ job[t].at \in Loading /\ job[t].bot = b
    BY <1>1 DEF OnDisk, At, Loading
  <2>2. ~ Working(b)
    BY <2>1 DEF IInv, NothingLives, WorkHasInstance
  <2>3. ASSUME NEW s \in Admins \ {t}, OnDisk(s, b)
        PROVE  FALSE
    BY <2>1, <2>3 DEF IInv, SoleOwner, OnDisk, At
  <2> QED
    BY <2>2, <2>3
<1> QED
  BY <1>1 DEF OneGenerationWorks, IInv, NewestWorks

-----------------------------------------------------------------------------
(***************************************************************************)
(* Steps that change a request, the row or the registrations, and leave    *)
(* the instances and the work alone.                                       *)
(***************************************************************************)
LEMMA Typing ==
  ASSUME TypeOK
  PROVE  /\ \A t \in Admins : job[t] \in Job /\ job[t].bot \in Bots
         /\ \A c \in Clients : op[c] \in Op /\ op[c].bot \in Bots
         /\ item \in Item /\ item.bot \in Bots
BY DEF TypeOK, WorkTypeOK, SchedTypeOK, Job, Op, Item

LEMMA NullRecords == NoJob \in Job /\ NoJob.kind = "none" /\ NoOp \in Op /\ NoOp.gen = None
BY DEF NoJob, Job, Places, NoOp, Op, None

LEMMA WorkFrame ==
  ASSUME IInv, UNCHANGED << step, item, managed, inflight, fatalPending, op >>
  PROVE  ManagedTypeOK' /\ WorkIsCounted' /\ WorkHasInstance' /\ NewestWorks'
<1>1. ManagedTypeOK'
  BY DEF IInv, TypeOK, ManagedTypeOK, managed
<1>2. \A b : Sweeping(b)' = Sweeping(b) /\ OpsOn(b)' = OpsOn(b) /\ Recording(b)' = Recording(b)
  BY DEF Sweeping, OpsOn, Busy, Recording
<1>3. WorkIsCounted'
  BY <1>2 DEF IInv, WorkIsCounted
<1>4. WorkHasInstance'
  BY <1>2 DEF IInv, WorkHasInstance, Working, managed
<1>5. NewestWorks'
  BY <1>2 DEF IInv, NewestWorks, Busy, managed
<1> QED
  BY <1>1, <1>3, <1>4, <1>5

\* One thread's request becomes j.
LEMMA JobFrame ==
  ASSUME IInv, NEW t \in Admins, NEW j \in Job,
         job' = [job EXCEPT ![t] = j],
         j.kind # "none" =>
           \A s \in Admins \ {t} : job[s].kind # "none" => job[s].bot # j.bot
  PROVE  /\ SoleOwner'
         /\ job' \in [Admins -> Job]
         /\ \A s \in Admins : job'[s] = IF s = t THEN j ELSE job[s]
<1>1. job \in [Admins -> Job]
  BY DEF IInv, TypeOK, WorkTypeOK
<1>2. \A s \in Admins : job'[s] = IF s = t THEN j ELSE job[s]
  BY <1>1
<1>3. SoleOwner'
  BY <1>2 DEF IInv, SoleOwner
<1> QED
  BY <1>1, <1>2, <1>3

LEMMA HandleFrame ==
  ASSUME IInv, NEW t \in Admins, NEW j \in Job,
         job' = [job EXCEPT ![t] = j],
         j.kind # "none" =>
           \A s \in Admins \ {t} : job[s].kind # "none" => job[s].bot # j.bot,
         j.kind # "none" /\ j.at \in Loading => bots[j.bot] = None /\ failed[j.bot] = None,
         SchedTypeOK',
         row' \in [Bots -> Statuses],
         startFailures' \in [Bots -> 0..MaxStartFailures],
         recovering' \subseteq Bots,
         UNCHANGED << step, item, managed, inflight, fatalPending, op, streak >>
  PROVE  IInv'
<1>1. ManagedTypeOK' /\ WorkIsCounted' /\ WorkHasInstance' /\ NewestWorks'
  BY WorkFrame
<1>2. /\ SoleOwner' /\ job' \in [Admins -> Job]
      /\ \A s \in Admins : job'[s] = IF s = t THEN j ELSE job[s]
  BY JobFrame
<1>3. NothingLives'
  BY <1>2 DEF IInv, NothingLives, managed
<1>4. WorkTypeOK'
  BY <1>2 DEF IInv, TypeOK, WorkTypeOK
<1> QED
  BY <1>1, <1>2, <1>3, <1>4 DEF IInv, TypeOK

\* A request that moves on, or to its end.
LEMMA GoIs ==
  ASSUME IInv, NEW t \in Admins, NEW place \in Places, Go(t, place), job[t].kind # "none"
  PROVE  \E j \in Job :
           /\ job' = [job EXCEPT ![t] = j]
           /\ j.at = place /\ j.kind = job[t].kind /\ j.bot = job[t].bot /\ j.gen = job[t].gen
           /\ \A s \in Admins \ {t} : job[s].kind # "none" => job[s].bot # j.bot
<1> DEFINE j == [job[t] EXCEPT !.at = place]
<1>1. job[t] \in Job
  BY Typing DEF IInv
<1>2. /\ j \in Job
      /\ j.at = place /\ j.kind = job[t].kind /\ j.bot = job[t].bot /\ j.gen = job[t].gen
  BY <1>1 DEF Job
<1>3. job' = [job EXCEPT ![t] = j]
  BY DEF Go
<1>4. \A s \in Admins \ {t} : job[s].kind # "none" => job[s].bot # j.bot
  BY <1>2 DEF IInv, SoleOwner
<1> QED
  BY <1>2, <1>3, <1>4

LEMMA LeaveIs ==
  ASSUME IInv, NEW t \in Admins, Leave(t)
  PROVE  /\ job' = [job EXCEPT ![t] = NoJob]
         /\ recovering' \subseteq Bots
BY DEF Leave, IInv, TypeOK, WorkTypeOK

\* Moving on and leaving, with nothing but the request changed in its admin.
LEMMA GoFrame ==
  ASSUME IInv, NEW t \in Admins, NEW place \in Places, Go(t, place), job[t].kind # "none",
         place \in Loading => bots[job[t].bot] = None /\ failed[job[t].bot] = None,
         SchedTypeOK',
         row' \in [Bots -> Statuses],
         startFailures' \in [Bots -> 0..MaxStartFailures],
         recovering' \subseteq Bots,
         UNCHANGED << step, item, managed, inflight, fatalPending, op, streak >>
  PROVE  IInv'
<1>1. PICK j \in Job :
        /\ job' = [job EXCEPT ![t] = j]
        /\ j.at = place /\ j.kind = job[t].kind /\ j.bot = job[t].bot
        /\ \A s \in Admins \ {t} : job[s].kind # "none" => job[s].bot # j.bot
  BY GoIs
<1>2. j.at \in Loading => bots[j.bot] = None /\ failed[j.bot] = None
  BY <1>1
<1> QED
  BY <1>1, <1>2, HandleFrame

LEMMA LeaveFrame ==
  ASSUME IInv, NEW t \in Admins, Leave(t),
         SchedTypeOK',
         row' \in [Bots -> Statuses],
         startFailures' \in [Bots -> 0..MaxStartFailures],
         UNCHANGED << step, item, managed, inflight, fatalPending, op, streak >>
  PROVE  IInv'
BY LeaveIs, NullRecords, HandleFrame

\* A request that turns into the reset of its row.
LEMMA ResetFrame ==
  ASSUME IInv, NEW t \in Admins, job[t].kind # "none",
         job' = [job EXCEPT ![t].kind = "reset", ![t].at = "retire"],
         UNCHANGED << schedVars, managed, inflight, fatalPending, op, database, recovering, streak >>
  PROVE  IInv'
<1> DEFINE j == [job[t] EXCEPT !.kind = "reset", !.at = "retire"]
<1>1. job[t] \in Job /\ job \in [Admins -> Job]
  BY Typing DEF IInv, TypeOK, WorkTypeOK
<1>2. /\ j \in Job /\ j.at = "retire" /\ j.bot = job[t].bot
      /\ job' = [job EXCEPT ![t] = j]
  BY <1>1 DEF Job, Places
<1>3. \A s \in Admins \ {t} : job[s].kind # "none" => job[s].bot # j.bot
  BY <1>2 DEF IInv, SoleOwner
<1>4. j.kind # "none" /\ j.at \in Loading => bots[j.bot] = None /\ failed[j.bot] = None
  BY <1>2 DEF Loading
<1>5. SchedTypeOK'
  BY DEF IInv, TypeOK, SchedTypeOK, schedVars, registry, thread
<1>6. /\ row' \in [Bots -> Statuses]
      /\ startFailures' \in [Bots -> 0..MaxStartFailures]
      /\ recovering' \subseteq Bots
      /\ UNCHANGED << step, item, managed, inflight, fatalPending, op, streak >>
  BY DEF IInv, TypeOK, WorkTypeOK, schedVars, thread, database
<1> HIDE DEF j
<1> QED
  BY <1>2, <1>3, <1>4, <1>5, <1>6, HandleFrame

LEMMA SchedSame ==
  ASSUME IInv, UNCHANGED schedVars
  PROVE  SchedTypeOK' /\ UNCHANGED << step, item >>
BY DEF IInv, TypeOK, SchedTypeOK, schedVars, registry, thread

LEMMA BeginKeeps ==
  ASSUME IInv, NEW t \in Admins, NEW verb \in Requests \cup {"recover"}, NEW b \in Bots,
         Begin(t, verb, b)
  PROVE  IInv'
<1> DEFINE j == [kind |-> verb, bot |-> b, gen |-> 0,
                 at |-> CASE verb \in {"start", "recover"} -> "begin"
                          [] verb = "edit" -> "edit"
                          [] OTHER -> "retire"]
<1>1. j.at \in {"begin", "edit", "retire"} /\ j.bot = b /\ j.kind = verb
  OBVIOUS
<1>2. j \in Job
  BY <1>1 DEF Job, Kinds, Places
<1>3. job' = [job EXCEPT ![t] = j]
  BY DEF Begin
<1>4. \A s \in Admins \ {t} : job[s].kind # "none" => job[s].bot # j.bot
  BY DEF Begin, Owned
<1>5. j.at \notin Loading
  BY <1>1 DEF Loading
<1>6. /\ row' \in [Bots -> Statuses]
      /\ startFailures' \in [Bots -> 0..MaxStartFailures]
      /\ recovering' \subseteq Bots
      /\ UNCHANGED << schedVars, managed, inflight, fatalPending, op, streak >>
  BY DEF Begin, IInv, TypeOK, WorkTypeOK, database
<1> HIDE DEF j
<1> QED
  BY <1>2, <1>3, <1>4, <1>5, <1>6, SchedSame, HandleFrame

LEMMA StartKeeps ==
  ASSUME IInv, NEW t \in Admins,
         CheckStart(t) \/ Construct(t) \/ ConstructFails(t) \/ CommitRunning(t)
  PROVE  IInv'
<1>1. /\ job[t].kind # "none"
      /\ UNCHANGED << schedVars, managed, inflight, fatalPending, op, streak >>
  BY DEF CheckStart, Construct, ConstructFails, CommitRunning, At
<1>2. SchedTypeOK' /\ UNCHANGED << step, item >>
  BY <1>1, SchedSame
<1>3. /\ job[t].bot \in Bots
      /\ row \in [Bots -> Statuses]
      /\ startFailures \in [Bots -> 0..MaxStartFailures]
      /\ recovering \subseteq Bots
  BY Typing DEF IInv, TypeOK, WorkTypeOK
<1>4. CASE CheckStart(t)
  <2>1. UNCHANGED database
    BY <1>4 DEF CheckStart
  <2>2. CASE Leave(t)
    BY <1>1, <1>2, <1>3, <2>1, <2>2, LeaveFrame DEF database
  <2>3. CASE MayStart(job[t].bot) /\ Go(t, "construct") /\ UNCHANGED recovering
    BY <1>1, <1>2, <1>3, <2>1, <2>3, GoFrame DEF database, MayStart, Places
  <2> QED
    BY <1>4, <2>2, <2>3 DEF CheckStart
<1>5. CASE Construct(t)
  <2>1. bots[job[t].bot] = None /\ failed[job[t].bot] = None
    BY <1>5 DEF Construct, At, IInv, NothingLives, Loading
  <2>2. Go(t, "publish") /\ UNCHANGED << database, recovering >> /\ "publish" \in Places
    BY <1>5 DEF Construct, Places
  <2> QED
    BY <1>1, <1>2, <1>3, <2>1, <2>2, GoFrame DEF database
<1>6. CASE ConstructFails(t)
  <2>1. CASE /\ startFailures' = [startFailures EXCEPT ![job[t].bot] =
                                    IF @ < MaxStartFailures THEN @ + 1 ELSE @]
             /\ row' = IF startFailures'[job[t].bot] = MaxStartFailures
                       THEN [row EXCEPT ![job[t].bot] = "error"] ELSE row
             /\ Leave(t)
    <3>1. row' \in [Bots -> Statuses]
      BY <1>3, <2>1 DEF Statuses
    <3>2. startFailures' \in [Bots -> 0..MaxStartFailures]
      BY <1>3, <2>1
    <3> QED
      BY <1>1, <1>2, <2>1, <3>1, <3>2, LeaveFrame
  <2>2. CASE /\ job' = [job EXCEPT ![t].kind = "reset", ![t].at = "retire"]
             /\ UNCHANGED << database, recovering >>
    BY <1>1, <2>2, ResetFrame
  <2>3. CASE Leave(t) /\ UNCHANGED database
    BY <1>1, <1>2, <1>3, <2>3, LeaveFrame DEF database
  <2> QED
    BY <1>6, <2>1, <2>2, <2>3 DEF ConstructFails
<1>7. CASE CommitRunning(t)
  <2>1. CASE /\ row' = [row EXCEPT ![job[t].bot] = "running"]
             /\ startFailures' = [startFailures EXCEPT ![job[t].bot] =
                                    IF job[t].kind = "restart" THEN @ ELSE 0]
             /\ Go(t, "register")
    <3>1. row' \in [Bots -> Statuses]
      BY <1>3, <2>1 DEF Statuses
    <3>2. startFailures' \in [Bots -> 0..MaxStartFailures]
      BY <1>3, <2>1
    <3>3. "register" \in Places /\ "register" \notin Loading /\ UNCHANGED recovering
      BY <1>7 DEF Places, Loading, CommitRunning
    <3> QED
      BY <1>1, <1>2, <1>3, <2>1, <3>1, <3>2, <3>3, GoFrame
  <2>2. CASE /\ job' = [job EXCEPT ![t].kind = "reset", ![t].at = "retire"]
             /\ UNCHANGED database
    <3>1. UNCHANGED recovering
      BY <1>7 DEF CommitRunning
    <3> QED
      BY <1>1, <2>2, <3>1, ResetFrame
  <2> QED
    BY <1>7, <2>1, <2>2 DEF CommitRunning
<1> QED
  BY <1>4, <1>5, <1>6, <1>7

LEMMA RegistrationKeeps ==
  ASSUME IInv, NEW t \in Admins, Register(t) \/ Nudge(t) \/ Unschedule(t)
  PROVE  IInv'
<1>1. /\ job[t].kind # "none"
      /\ UNCHANGED << step, item, managed, inflight, fatalPending, op, streak, database >>
  BY DEF Register, Nudge, Unschedule, At, thread
<1>2. /\ job[t].bot \in Bots /\ job[t].gen \in Nat /\ generations[job[t].bot] \in Nat
      /\ row' \in [Bots -> Statuses]
      /\ startFailures' \in [Bots -> 0..MaxStartFailures]
      /\ recovering \subseteq Bots
  BY <1>1, Typing DEF IInv, TypeOK, WorkTypeOK, ManagedTypeOK, database, Job
<1>3. SchedTypeOK
  BY DEF IInv, TypeOK
<1>4. CASE Register(t)
  <2>1. SchedTypeOK'
    BY <1>2, <1>3, <1>4, AddType DEF Register
  <2>2. Go(t, "open") /\ UNCHANGED recovering /\ "open" \in Places /\ "open" \notin Loading
    BY <1>4 DEF Register, Places, Loading
  <2> QED
    BY <1>1, <1>2, <2>1, <2>2, GoFrame
<1>5. CASE Nudge(t)
  <2>1. SchedTypeOK'
    BY <1>2, <1>3, <1>5, RescheduleType DEF Nudge
  <2> QED
    BY <1>1, <1>2, <1>5, <2>1, LeaveFrame DEF Nudge
<1>6. CASE Unschedule(t)
  <2>1. SchedTypeOK'
    BY <1>2, <1>3, <1>6, RemoveType DEF Unschedule, SchedTypeOK, thread
  <2>2. Go(t, "drain") /\ UNCHANGED recovering /\ "drain" \in Places /\ "drain" \notin Loading
    BY <1>6 DEF Unschedule, Places, Loading
  <2> QED
    BY <1>1, <1>2, <2>1, <2>2, GoFrame
<1> QED
  BY <1>4, <1>5, <1>6

LEMMA EndKeeps ==
  ASSUME IInv, NEW t \in Admins,
         GiveUp(t) \/ CommitStopped(t) \/ CheckEdit(t) \/ WriteEdit(t)
  PROVE  IInv'
<1>1. /\ job[t].kind # "none"
      /\ UNCHANGED << schedVars, managed, inflight, fatalPending, op, streak >>
  BY DEF GiveUp, CommitStopped, CheckEdit, WriteEdit, At
<1>2. SchedTypeOK' /\ UNCHANGED << step, item >>
  BY <1>1, SchedSame
<1>3. /\ job[t].bot \in Bots
      /\ row \in [Bots -> Statuses]
      /\ startFailures \in [Bots -> 0..MaxStartFailures]
      /\ recovering \subseteq Bots
  BY Typing DEF IInv, TypeOK, WorkTypeOK
<1>4. CASE Leave(t) /\ UNCHANGED database
  BY <1>1, <1>2, <1>3, <1>4, LeaveFrame DEF database
<1>5. CASE GiveUp(t) \/ WriteEdit(t)
  BY <1>4, <1>5 DEF GiveUp, WriteEdit
<1>6. CASE CommitStopped(t)
  <2>1. CASE /\ row' = [row EXCEPT ![job[t].bot] =
                          IF job[t].kind = "delete" THEN "deleted" ELSE "stopped"]
             /\ startFailures' = [startFailures EXCEPT ![job[t].bot] =
                                    IF job[t].kind = "stop" THEN 0 ELSE @]
             /\ Leave(t)
    <3>1. row' \in [Bots -> Statuses]
      BY <1>3, <2>1 DEF Statuses
    <3>2. startFailures' \in [Bots -> 0..MaxStartFailures]
      BY <1>3, <2>1
    <3> QED
      BY <1>1, <1>2, <2>1, <3>1, <3>2, LeaveFrame
  <2>2. CASE Go(t, "begin") /\ UNCHANGED << database, recovering >>
    <3>1. "begin" \in Places /\ "begin" \notin Loading
      BY DEF Places, Loading
    <3> QED
      BY <1>1, <1>2, <1>3, <2>2, <3>1, GoFrame DEF database
  <2> QED
    BY <1>4, <1>6, <2>1, <2>2 DEF CommitStopped
<1>7. CASE CheckEdit(t)
  <2>1. CASE /\ bots[job[t].bot] = None /\ failed[job[t].bot] = None
             /\ Go(t, "write") /\ UNCHANGED << recovering, database >>
    <3>1. "write" \in Places
      BY DEF Places
    <3> QED
      BY <1>1, <1>2, <1>3, <2>1, <3>1, GoFrame DEF database
  <2> QED
    BY <1>4, <1>7, <2>1 DEF CheckEdit
<1> QED
  BY <1>5, <1>6, <1>7

-----------------------------------------------------------------------------
(***************************************************************************)
(* Steps of a request that make an instance, open it, retire it or take it *)
(* away.                                                                   *)
(***************************************************************************)
LEMMA OpsFinite ==
  ASSUME NEW b
  PROVE  /\ IsFiniteSet(OpsOn(b)) /\ Cardinality(OpsOn(b)) \in Nat
         /\ Cardinality(OpsOn(b)) = 0 => OpsOn(b) = {}
<1>1. OpsOn(b) \in SUBSET Clients /\ IsFiniteSet(Clients)
  BY DEF OpsOn
<1>2. IsFiniteSet(OpsOn(b))
  BY ONLY <1>1, FS_Subset
<1> QED
  BY ONLY <1>2, FS_CardinalityType, FS_EmptySet

\* A drain that waited for the counters waited for the work.
LEMMA DrainedIsIdle ==
  ASSUME IInv, NEW b \in Bots, inflight[b] = 0
  PROVE  ~ Working(b)
<1>1. inflight[b] = Cardinality(OpsOn(b)) + IF Sweeping(b) THEN 1 ELSE 0
  BY DEF IInv, WorkIsCounted
<1>2. ~ Sweeping(b) /\ Cardinality(OpsOn(b)) = 0
  BY <1>1, OpsFinite
<1> QED
  BY <1>2, OpsFinite DEF Working

LEMMA PublishKeeps ==
  ASSUME IInv, NEW t \in Admins, Publish(t)
  PROVE  IInv'
<1> DEFINE b == job[t].bot
           g == generations[b] + 1
<1>1. /\ b \in Bots /\ job[t].kind # "none" /\ job[t].at = "publish"
      /\ bots' = [bots EXCEPT ![b] = g]
      /\ generations' = [generations EXCEPT ![b] = g]
      /\ staged' = [staged EXCEPT ![b] = g]
      /\ streak' = [streak EXCEPT ![b] = 0]
      /\ Go(t, "commit")
      /\ UNCHANGED << schedVars, failed, retiring, inflight, fatalPending, op, database,
                      recovering >>
  BY Typing DEF IInv, Publish, At
<1>2. bots[b] = None /\ failed[b] = None /\ ~ Working(b)
  BY <1>1 DEF IInv, NothingLives, Loading, WorkHasInstance
<1>3. generations[b] \in Nat /\ g \in Nat /\ g # None
  BY <1>1 DEF IInv, TypeOK, ManagedTypeOK, None
<1>4. PICK j \in Job :
        /\ job' = [job EXCEPT ![t] = j] /\ j.at = "commit" /\ j.bot = b
        /\ \A s \in Admins \ {t} : job[s].kind # "none" => job[s].bot # j.bot
  <2>1. "commit" \in Places
    BY DEF Places
  <2> QED
    BY <1>1, <2>1, GoIs
<1>5. /\ SoleOwner' /\ job' \in [Admins -> Job]
      /\ \A s \in Admins : job'[s] = IF s = t THEN j ELSE job[s]
  BY <1>4, JobFrame
<1> HIDE DEF b, g
<1>6. ManagedTypeOK'
  BY <1>1, <1>2, <1>3 DEF IInv, TypeOK, ManagedTypeOK
<1>7. SchedTypeOK' /\ UNCHANGED << step, item >>
  BY <1>1, SchedSame
<1>8. WorkTypeOK'
  BY <1>1, <1>5 DEF IInv, TypeOK, WorkTypeOK, database
<1>9. \A a : /\ Sweeping(a)' = Sweeping(a) /\ OpsOn(a)' = OpsOn(a)
            /\ Recording(a)' = Recording(a)
  BY <1>1, <1>7 DEF Sweeping, OpsOn, Busy, Recording
<1>10. WorkIsCounted'
  BY <1>1, <1>9 DEF IInv, WorkIsCounted
<1>11. WorkHasInstance'
  BY <1>1, <1>2, <1>9 DEF IInv, TypeOK, ManagedTypeOK, WorkHasInstance, Working
<1>12. NewestWorks'
  <2>1. ASSUME NEW a \in Bots, Sweeping(a)'
        PROVE  item'.instance = generations'[a]
    BY <1>1, <1>2, <1>7, <1>9, <2>1
    DEF IInv, TypeOK, ManagedTypeOK, NewestWorks, Working
  <2>2. ASSUME NEW c \in Clients, Busy(c)'
        PROVE  op'[c].gen = generations'[op'[c].bot]
    <3>1. op[c].bot # b /\ op[c].bot \in Bots
      BY <1>1, <1>2, <2>2, Typing DEF IInv, Working, OpsOn, Busy
    <3> QED
      BY <1>1, <2>2, <3>1 DEF IInv, TypeOK, ManagedTypeOK, NewestWorks, Busy
  <2> QED
    BY <2>1, <2>2 DEF NewestWorks
<1>13. NothingLives'
  <2>1. ASSUME NEW s \in Admins, job'[s].kind # "none", job'[s].at \in Loading
        PROVE  bots'[job'[s].bot] = None /\ failed'[job'[s].bot] = None
    <3>1. s # t /\ job'[s] = job[s] /\ job[s].bot # b
      BY <1>4, <1>5, <2>1 DEF Loading
    <3>2. job[s].bot \in Bots
      BY Typing DEF IInv
    <3> QED
      BY <1>1, <2>1, <3>1, <3>2 DEF IInv, NothingLives, TypeOK, ManagedTypeOK
  <2> QED
    BY <2>1 DEF NothingLives
<1> QED
  BY <1>5, <1>6, <1>7, <1>8, <1>10, <1>11, <1>12, <1>13 DEF IInv, TypeOK

LEMMA OpenRetireKeeps ==
  ASSUME IInv, NEW t \in Admins, Open(t) \/ Retire(t)
  PROVE  IInv'
<1>1. /\ job[t].kind # "none" /\ job[t].bot \in Bots
      /\ UNCHANGED << schedVars, bots, failed, generations, inflight, fatalPending, op,
                      database, recovering, streak >>
  BY Typing DEF IInv, Open, Retire, At, managed
<1>2. /\ staged' = [staged EXCEPT ![job[t].bot] = None] \/ UNCHANGED staged
      /\ retiring' \subseteq retiring \cup {job[t].bot}
  BY DEF Open, Retire, managed
<1>3. ManagedTypeOK'
  BY <1>1, <1>2 DEF IInv, TypeOK, ManagedTypeOK, None
<1>4. PICK j \in Job :
        /\ job' = [job EXCEPT ![t] = j] /\ j.at \notin Loading
        /\ \A s \in Admins \ {t} : job[s].kind # "none" => job[s].bot # j.bot
  <2>1. {"nudge", "stopped", "unschedule"} \subseteq Places
    BY DEF Places
  <2>2. CASE Go(t, "nudge") \/ Go(t, "stopped")
    BY <1>1, <2>1, <2>2, GoIs DEF Loading
  <2>3. CASE job' = [job EXCEPT ![t].gen = generations[job[t].bot], ![t].at = "unschedule"]
    <3> DEFINE j == [job[t] EXCEPT !.gen = generations[job[t].bot], !.at = "unschedule"]
    <3>1. job[t] \in Job /\ generations[job[t].bot] \in Nat
      BY <1>1, Typing DEF IInv, TypeOK, ManagedTypeOK
    <3>2. j \in Job /\ j.at = "unschedule" /\ j.bot = job[t].bot
      BY <2>1, <3>1 DEF Job
    <3>3. job' = [job EXCEPT ![t] = j]
      BY <2>3
    <3>4. \A s \in Admins \ {t} : job[s].kind # "none" => job[s].bot # j.bot
      BY <1>1, <3>2 DEF IInv, SoleOwner
    <3> QED
      BY <3>2, <3>3, <3>4 DEF Loading
  <2> QED
    BY <2>2, <2>3 DEF Open, Retire
<1>5. /\ SoleOwner' /\ job' \in [Admins -> Job]
      /\ \A s \in Admins : job'[s] = IF s = t THEN j ELSE job[s]
  BY <1>4, JobFrame
<1>6. SchedTypeOK' /\ UNCHANGED << step, item >>
  BY <1>1, SchedSame
<1>7. WorkTypeOK'
  BY <1>1, <1>5 DEF IInv, TypeOK, WorkTypeOK, database
<1>8. \A a : /\ Sweeping(a)' = Sweeping(a) /\ OpsOn(a)' = OpsOn(a)
            /\ Recording(a)' = Recording(a)
  BY <1>1, <1>6 DEF Sweeping, OpsOn, Busy, Recording
<1>9. WorkIsCounted'
  BY <1>1, <1>8 DEF IInv, WorkIsCounted
<1>10. WorkHasInstance'
  BY <1>1, <1>8 DEF IInv, WorkHasInstance, Working
<1>11. NewestWorks'
  BY <1>1, <1>6, <1>8 DEF IInv, NewestWorks, Busy
<1>12. NothingLives'
  BY <1>1, <1>4, <1>5 DEF IInv, NothingLives
<1> QED
  BY <1>3, <1>5, <1>6, <1>7, <1>9, <1>10, <1>11, <1>12 DEF IInv, TypeOK

LEMMA FinalizeKeeps ==
  ASSUME IInv, NEW t \in Admins, Finalize(t)
  PROVE  IInv'
<1> DEFINE b == job[t].bot
<1>1. /\ job[t].kind # "none" /\ b \in Bots /\ inflight[b] = 0
      /\ Go(t, "stopped") /\ "stopped" \in Places /\ "stopped" \notin Loading
      /\ UNCHANGED << schedVars, generations, fatalPending, op, database, recovering, streak >>
  BY Typing DEF IInv, Finalize, At, Drained, Places, Loading
<1>2. SchedTypeOK' /\ UNCHANGED << step, item >>
  BY <1>1, SchedSame
<1>3. CASE UNCHANGED << bots, failed, staged, inflight, retiring >>
  <2>1. UNCHANGED << step, item, managed, inflight, fatalPending, op, streak >>
    BY <1>1, <1>2, <1>3 DEF managed
  <2>2. /\ row' \in [Bots -> Statuses] /\ recovering' \subseteq Bots
        /\ startFailures' \in [Bots -> 0..MaxStartFailures]
    BY <1>1 DEF IInv, TypeOK, WorkTypeOK, database
  <2> QED
    BY <1>1, <1>2, <2>1, <2>2, GoFrame
<1>4. CASE /\ bots' = [bots EXCEPT ![b] = None]
           /\ failed' = [failed EXCEPT ![b] = None]
           /\ staged' = [staged EXCEPT ![b] = None]
           /\ inflight' = [inflight EXCEPT ![b] = 0]
           /\ retiring' = retiring \ {b}
  <2>1. PICK j \in Job :
          /\ job' = [job EXCEPT ![t] = j] /\ j.at = "stopped"
          /\ \A s \in Admins \ {t} : job[s].kind # "none" => job[s].bot # j.bot
    BY <1>1, GoIs
  <2>2. /\ SoleOwner' /\ job' \in [Admins -> Job]
        /\ \A s \in Admins : job'[s] = IF s = t THEN j ELSE job[s]
    BY <2>1, JobFrame
  <2>3. ~ Working(b)
    BY <1>1, DrainedIsIdle
  <2> HIDE DEF b
  <2>4. ManagedTypeOK'
    BY <1>1, <1>4 DEF IInv, TypeOK, ManagedTypeOK, None
  <2>5. UNCHANGED inflight
    BY <1>1, <1>4 DEF IInv, TypeOK, WorkTypeOK
  <2>6. WorkTypeOK'
    BY <1>1, <2>2, <2>5 DEF IInv, TypeOK, WorkTypeOK, database
  <2>7. \A a : /\ Sweeping(a)' = Sweeping(a) /\ OpsOn(a)' = OpsOn(a)
              /\ Recording(a)' = Recording(a)
    BY <1>1, <1>2 DEF Sweeping, OpsOn, Busy, Recording
  <2>8. WorkIsCounted' /\ NewestWorks'
    BY <1>1, <1>2, <2>5, <2>7 DEF IInv, WorkIsCounted, NewestWorks, Busy
  <2>9. WorkHasInstance'
    BY <1>4, <2>3, <2>7 DEF IInv, TypeOK, ManagedTypeOK, WorkHasInstance, Working
  <2>10. NothingLives'
    <3>1. ASSUME NEW s \in Admins, job'[s].kind # "none", job'[s].at \in Loading
          PROVE  bots'[job'[s].bot] = None /\ failed'[job'[s].bot] = None
      <4>1. job'[s] = job[s] /\ job[s].bot \in Bots
        BY <1>1, <2>1, <2>2, <3>1, Typing DEF IInv
      <4>2. bots[job[s].bot] = None /\ failed[job[s].bot] = None
        BY <3>1, <4>1 DEF IInv, NothingLives
      <4> QED
        BY <1>4, <4>1, <4>2 DEF IInv, TypeOK, ManagedTypeOK
    <3> QED
      BY <3>1 DEF NothingLives
  <2> QED
    BY <1>2, <2>2, <2>4, <2>6, <2>8, <2>9, <2>10 DEF IInv, TypeOK
<1> QED
  BY <1>3, <1>4 DEF Finalize

-----------------------------------------------------------------------------
(***************************************************************************)
(* Commands and reads.                                                     *)
(***************************************************************************)
LEMMA OtherTypes ==
  ASSUME IInv, UNCHANGED << managed, job, database, recovering >>
  PROVE  /\ ManagedTypeOK' /\ SoleOwner' /\ NothingLives'
         /\ job' \in [Admins -> Job] /\ row' \in [Bots -> Statuses]
         /\ startFailures' \in [Bots -> 0..MaxStartFailures] /\ recovering' \subseteq Bots
<1>1. ManagedTypeOK'
  BY DEF IInv, TypeOK, ManagedTypeOK, managed
<1>2. SoleOwner' /\ NothingLives'
  BY DEF IInv, SoleOwner, NothingLives, managed
<1> QED
  BY <1>1, <1>2 DEF IInv, TypeOK, WorkTypeOK, database

LEMMA AdmitKeeps ==
  ASSUME IInv, NEW c \in Clients, NEW b \in Bots, NEW reads \in BOOLEAN, Admit(c, b, reads)
  PROVE  IInv'
<1> DEFINE g == IF bots[b] # None THEN bots[b] ELSE failed[b]
<1>1. /\ ~ Busy(c) /\ g # None
      /\ inflight' = [inflight EXCEPT ![b] = @ + 1]
      /\ op' = [op EXCEPT ![c] = [bot |-> b, gen |-> g, reads |-> reads]]
      /\ UNCHANGED << schedVars, managed, fatalPending, job, database, recovering, streak >>
  BY DEF Admit, Admits
<1>2. g \in Nat /\ g = generations[b]
  BY <1>1 DEF IInv, TypeOK, ManagedTypeOK
<1>3. bots[b] # None \/ failed[b] # None
  BY <1>1
<1> HIDE DEF g
<1>4. op' \in [Clients -> Op]
  BY <1>1, <1>2 DEF IInv, TypeOK, WorkTypeOK, Op
<1>5. \A d \in Clients : op'[d] = IF d = c THEN [bot |-> b, gen |-> g, reads |-> reads] ELSE op[d]
  BY <1>1 DEF IInv, TypeOK, WorkTypeOK
<1>6. SchedTypeOK' /\ UNCHANGED << step, item >>
  BY <1>1, SchedSame
<1>7. inflight' \in [Bots -> Nat]
  BY <1>1 DEF IInv, TypeOK, WorkTypeOK
<1>8. /\ OpsOn(b)' = OpsOn(b) \cup {c} /\ c \notin OpsOn(b)
      /\ \A a \in Bots \ {b} : OpsOn(a)' = OpsOn(a)
  BY <1>1, <1>5 DEF OpsOn, Busy
<1>9. \A a : Sweeping(a)' = Sweeping(a) /\ Recording(a)' = Recording(a)
  BY <1>6 DEF Sweeping, Recording
<1>10. WorkIsCounted'
  <2>1. Cardinality(OpsOn(b)') = Cardinality(OpsOn(b)) + 1 /\ Cardinality(OpsOn(b)) \in Nat
    BY <1>8, OpsFinite, FS_AddElement
  <2>2. inflight'[b] = Cardinality(OpsOn(b)') + IF Sweeping(b)' THEN 1 ELSE 0
    BY <1>1, <1>9, <2>1 DEF IInv, TypeOK, WorkTypeOK, WorkIsCounted
  <2>3. \A a \in Bots \ {b} :
          inflight'[a] = Cardinality(OpsOn(a)') + IF Sweeping(a)' THEN 1 ELSE 0
    BY <1>1, <1>8, <1>9 DEF IInv, TypeOK, WorkTypeOK, WorkIsCounted
  <2> QED
    BY <1>1, <1>9, <2>2, <2>3 DEF IInv, WorkIsCounted
<1>11. WorkHasInstance'
  BY <1>1, <1>3, <1>8, <1>9 DEF IInv, WorkHasInstance, Working, managed
<1>12. NewestWorks'
  BY <1>1, <1>2, <1>5, <1>6, <1>9 DEF IInv, NewestWorks, Busy, managed
<1>13. WorkTypeOK'
  BY <1>1, <1>4, <1>7, OtherTypes DEF IInv, TypeOK, WorkTypeOK
<1> QED
  BY <1>1, <1>6, <1>10, <1>11, <1>12, <1>13, OtherTypes DEF IInv, TypeOK

LEMMA ChangeStateKeeps ==
  ASSUME IInv, NEW c \in Clients, ChangeState(c)
  PROVE  IInv'
<1>1. /\ RescheduleSoon(op[c].bot) /\ op[c].bot \in Bots
      /\ UNCHANGED << registry, thread, managed, inflight, fatalPending, job, op, database,
                      recovering, streak >>
  BY Typing DEF IInv, ChangeState
<1>2. SchedTypeOK'
  BY <1>1, RescheduleType DEF IInv, TypeOK
<1>3. ManagedTypeOK' /\ WorkIsCounted' /\ WorkHasInstance' /\ NewestWorks'
  BY <1>1, WorkFrame DEF thread
<1>4. WorkTypeOK'
  BY <1>1, OtherTypes DEF IInv, TypeOK, WorkTypeOK
<1> QED
  BY <1>1, <1>2, <1>3, <1>4, OtherTypes DEF IInv, TypeOK

LEMMA ReleasedIs ==
  ASSUME NEW f \in [Bots -> Nat], NEW b \in Bots
  PROVE  /\ Released(f, b) \in [Bots -> Nat]
         /\ Released(f, b)[b] = IF f[b] > 0 THEN f[b] - 1 ELSE 0
         /\ \A a \in Bots \ {b} : Released(f, b)[a] = f[a]
<1>1. Released(f, b) = [f EXCEPT ![b] = IF f[b] > 0 THEN f[b] - 1 ELSE 0]
  BY DEF Released
<1> QED
  BY <1>1

LEMMA ReleaseKeeps ==
  ASSUME IInv, NEW c \in Clients, Release(c)
  PROVE  IInv'
<1>0. PICK b \in Bots : b = op[c].bot
  BY Typing DEF IInv
<1>1. /\ Busy(c)
      /\ inflight' = Released(inflight, b)
      /\ op' = [op EXCEPT ![c] = NoOp]
      /\ UNCHANGED << schedVars, managed, fatalPending, job, database, recovering, streak >>
  BY <1>0 DEF Release
<1>2. /\ op' \in [Clients -> Op]
      /\ \A d \in Clients : op'[d] = IF d = c THEN NoOp ELSE op[d]
  BY <1>1, NullRecords DEF IInv, TypeOK, WorkTypeOK
<1>3. SchedTypeOK' /\ UNCHANGED << step, item >>
  BY <1>1, SchedSame
<1>4. /\ OpsOn(b)' = OpsOn(b) \ {c} /\ c \in OpsOn(b)
      /\ \A a \in Bots \ {b} : OpsOn(a)' = OpsOn(a)
  BY <1>0, <1>1, <1>2, NullRecords DEF OpsOn, Busy
<1>5. \A a : Sweeping(a)' = Sweeping(a) /\ Recording(a)' = Recording(a)
  BY <1>3 DEF Sweeping, Recording
<1>6. /\ inflight' \in [Bots -> Nat]
      /\ inflight'[b] = IF inflight[b] > 0 THEN inflight[b] - 1 ELSE 0
      /\ \A a \in Bots \ {b} : inflight'[a] = inflight[a]
  BY <1>1, ReleasedIs DEF IInv, TypeOK, WorkTypeOK
<1>7. WorkIsCounted'
  <2>1. /\ Cardinality(OpsOn(b)') = Cardinality(OpsOn(b)) - 1
        /\ Cardinality(OpsOn(b)) \in Nat \ {0}
    <3> DEFINE S == OpsOn(b)
    <3>1. IsFiniteSet(S) /\ Cardinality(S) \in Nat /\ (Cardinality(S) = 0 => S = {})
      BY OpsFinite
    <3>2. c \in S /\ OpsOn(b)' = S \ {c}
      BY <1>4
    <3> HIDE DEF S
    <3>3. Cardinality(S \ {c}) = Cardinality(S) - 1
      BY ONLY <3>1, <3>2, FS_RemoveElement
    <3>4. Cardinality(S) # 0
      BY ONLY <3>1, <3>2
    <3>5. Cardinality(OpsOn(b)') = Cardinality(S) - 1
      BY <3>2, <3>3
    <3> QED
      BY <3>1, <3>4, <3>5 DEF S
  <2>2. inflight'[b] = Cardinality(OpsOn(b)') + IF Sweeping(b)' THEN 1 ELSE 0
    BY <1>5, <1>6, <2>1 DEF IInv, WorkIsCounted
  <2>3. \A a \in Bots \ {b} :
          inflight'[a] = Cardinality(OpsOn(a)') + IF Sweeping(a)' THEN 1 ELSE 0
    BY <1>4, <1>5, <1>6 DEF IInv, WorkIsCounted
  <2> QED
    BY <1>1, <1>5, <2>2, <2>3 DEF IInv, WorkIsCounted
<1>8. WorkHasInstance'
  BY <1>1, <1>4, <1>5 DEF IInv, WorkHasInstance, Working, managed
<1>9. NewestWorks'
  BY <1>1, <1>2, <1>3, <1>5, NullRecords DEF IInv, NewestWorks, Busy, managed
<1>10. WorkTypeOK'
  BY <1>1, <1>2, <1>6, OtherTypes DEF IInv, TypeOK, WorkTypeOK
<1> QED
  BY <1>1, <1>3, <1>7, <1>8, <1>9, <1>10, OtherTypes DEF IInv, TypeOK

-----------------------------------------------------------------------------
(***************************************************************************)
(* The scheduler's thread.                                                 *)
(***************************************************************************)
LEMMA UnadmittedKeeps ==
  ASSUME IInv, SweepUnadmitted
  PROVE  IInv'
<1>1. SchedTypeOK'
  BY UnadmittedType DEF IInv, TypeOK
<1>2. UNCHANGED << managed, inflight, fatalPending, job, op, database, recovering, streak >>
  BY DEF SweepUnadmitted
<1>3. \A s \in {"sweeping", "recording", "committing", "releasing"} : step # s /\ step' # s
  BY DEF SweepUnadmitted, FireDue, NextItem, Refused, CountSuccess, DropFailure, CountFailure,
         Requeue, RemoveFailing, Finished
<1>4. \A a : /\ ~ Sweeping(a) /\ ~ Sweeping(a)' /\ ~ Recording(a) /\ ~ Recording(a)'
            /\ OpsOn(a)' = OpsOn(a)
  BY <1>2, <1>3 DEF Sweeping, Recording, OpsOn, Busy
<1>5. WorkIsCounted'
  BY <1>2, <1>4 DEF IInv, WorkIsCounted
<1>6. WorkHasInstance'
  BY <1>2, <1>4 DEF IInv, WorkHasInstance, Working, managed
<1>7. NewestWorks'
  BY <1>2, <1>4 DEF IInv, NewestWorks, Busy, managed
<1>8. WorkTypeOK'
  BY <1>2, OtherTypes DEF IInv, TypeOK, WorkTypeOK
<1> QED
  BY <1>1, <1>2, <1>5, <1>6, <1>7, <1>8, OtherTypes DEF IInv, TypeOK

LEMMA EnterKeeps ==
  ASSUME IInv, Enter
  PROVE  IInv'
<1>0. PICK b \in Bots : b = item.bot
  BY Typing DEF IInv
<1>1. /\ step = "admitting" /\ UNCHANGED << registry, heap, due, item, delay, cooldown >>
      /\ UNCHANGED << managed, fatalPending, job, op, database, recovering, streak >>
  BY DEF Enter, EnterSweep
<1>2. \A a : /\ ~ Sweeping(a) /\ ~ Recording(a) /\ ~ Recording(a)'
            /\ OpsOn(a)' = OpsOn(a)
  BY <1>1 DEF Enter, EnterSweep, Sweeping, Recording, OpsOn, Busy
<1>3. SchedTypeOK'
  <2>1. step' \in Steps
    BY DEF Enter, EnterSweep, Steps
  <2> QED
    BY <1>1, <2>1 DEF IInv, TypeOK, SchedTypeOK, registry
<1>4. CASE AdmitsSweep(item)
  <2>1. /\ \A a : Sweeping(a)' <=> a = b
        /\ inflight' = [inflight EXCEPT ![b] = @ + 1]
    BY <1>0, <1>1, <1>4 DEF Enter, EnterSweep, Sweeping
  <2>2. bots[b] # None /\ item.instance = generations[b]
    BY <1>0, <1>4 DEF AdmitsSweep, Admits, IInv, TypeOK, ManagedTypeOK
  <2>3. inflight' \in [Bots -> Nat]
    BY <2>1 DEF IInv, TypeOK, WorkTypeOK
  <2>4. WorkIsCounted'
    <3>1. \A a \in Bots : inflight[a] = Cardinality(OpsOn(a)) /\ inflight[a] \in Nat
      BY <1>2, OpsFinite DEF IInv, WorkIsCounted
    <3>2. \A a \in Bots : inflight'[a] = inflight[a] + IF a = b THEN 1 ELSE 0
      BY <2>1, <3>1 DEF IInv, TypeOK, WorkTypeOK
    <3>4. \A a \in Bots : inflight'[a] = Cardinality(OpsOn(a)') + IF Sweeping(a)' THEN 1 ELSE 0
      BY <1>2, <2>1, <3>1, <3>2
    <3>3. \A a \in Bots : fatalPending'[a] = IF Recording(a)' THEN 1 ELSE 0
      BY <1>1, <1>2 DEF IInv, WorkIsCounted
    <3> QED
      BY <3>3, <3>4 DEF WorkIsCounted
  <2>5. WorkHasInstance'
    BY <1>1, <1>2, <2>1, <2>2 DEF IInv, WorkHasInstance, Working, managed
  <2>6. NewestWorks'
    BY <1>1, <2>1, <2>2 DEF IInv, NewestWorks, Busy, managed
  <2>7. WorkTypeOK'
    BY <1>1, <2>3, OtherTypes DEF IInv, TypeOK, WorkTypeOK
  <2> QED
    BY <1>1, <1>3, <2>4, <2>5, <2>6, <2>7, OtherTypes DEF IInv, TypeOK
<1>5. CASE ~ AdmitsSweep(item)
  <2>1. /\ \A a : ~ Sweeping(a)'
        /\ UNCHANGED inflight
    BY <1>5 DEF Enter, EnterSweep, Sweeping
  <2>2. WorkIsCounted'
    BY <1>1, <1>2, <2>1 DEF IInv, WorkIsCounted
  <2>3. WorkHasInstance'
    BY <1>1, <1>2, <2>1 DEF IInv, WorkHasInstance, Working, managed
  <2>4. NewestWorks'
    BY <1>1, <2>1 DEF IInv, NewestWorks, Busy, managed
  <2>5. WorkTypeOK'
    BY <1>1, <2>1, OtherTypes DEF IInv, TypeOK, WorkTypeOK
  <2> QED
    BY <1>1, <1>3, <2>2, <2>3, <2>4, <2>5, OtherTypes DEF IInv, TypeOK
<1> QED
  BY <1>4, <1>5

LEMMA SweepKeeps ==
  ASSUME IInv, Sweep
  PROVE  IInv'
<1>0. PICK b \in Bots : b = item.bot
  BY Typing DEF IInv
<1>1. /\ step = "sweeping" /\ step' \in {"succeeded", "failed"}
      /\ UNCHANGED << registry, heap, due, item, cooldown >>
      /\ inflight' = Released(inflight, b)
      /\ UNCHANGED << managed, fatalPending, job, op, database, recovering >>
  BY <1>0 DEF Sweep, SweepSucceeds, SweepFails
<1>2. \A a : /\ Sweeping(a) <=> a = b
            /\ ~ Sweeping(a)' /\ ~ Recording(a) /\ ~ Recording(a)'
            /\ OpsOn(a)' = OpsOn(a)
  BY <1>0, <1>1 DEF Sweeping, Recording, OpsOn, Busy
<1>3. SchedTypeOK'
  <2>1. step' \in Steps
    BY <1>1 DEF Steps
  <2>2. delay' \in Nat
    <3>1. CASE SweepSucceeds
      BY <3>1 DEF SweepSucceeds
    <3>2. CASE SweepFails
      BY <3>2 DEF SweepFails, IInv, TypeOK, SchedTypeOK
    <3> QED
      BY <3>1, <3>2 DEF Sweep
  <2> QED
    BY <1>1, <2>1, <2>2 DEF IInv, TypeOK, SchedTypeOK, registry
<1>4. /\ inflight' \in [Bots -> Nat]
      /\ inflight'[b] = IF inflight[b] > 0 THEN inflight[b] - 1 ELSE 0
      /\ \A a \in Bots \ {b} : inflight'[a] = inflight[a]
  BY <1>1, ReleasedIs DEF IInv, TypeOK, WorkTypeOK
<1>5. WorkIsCounted'
  <2>1. \A a \in Bots : /\ inflight[a] = Cardinality(OpsOn(a)) + IF a = b THEN 1 ELSE 0
                        /\ Cardinality(OpsOn(a)) \in Nat
    BY <1>2, OpsFinite DEF IInv, WorkIsCounted
  <2>2. \A a \in Bots : inflight'[a] = Cardinality(OpsOn(a))
    BY <1>4, <2>1
  <2> QED
    BY <1>1, <1>2, <2>1, <2>2 DEF IInv, WorkIsCounted
<1>6. WorkHasInstance'
  BY <1>1, <1>2 DEF IInv, WorkHasInstance, Working, managed
<1>7. NewestWorks'
  BY <1>1, <1>2 DEF IInv, NewestWorks, Busy, managed
<1>8. WorkTypeOK'
  <2>1. streak' \in [Bots -> 0..MaxFailures]
    <3>1. streak \in [Bots -> 0..MaxFailures] /\ MaxFailures \in Nat
      BY DEF IInv, TypeOK, WorkTypeOK
    <3>2. \/ streak' = [streak EXCEPT ![b] = 0]
          \/ streak' = [streak EXCEPT ![b] = IF @ < MaxFailures THEN @ + 1 ELSE @]
      BY <1>0 DEF Sweep
    <3> QED
      BY <3>1, <3>2
  <2> QED
    BY <1>1, <1>4, <2>1, OtherTypes DEF IInv, TypeOK, WorkTypeOK
<1> QED
  BY <1>1, <1>3, <1>5, <1>6, <1>7, <1>8, OtherTypes DEF IInv, TypeOK

LEMMA OnFatalErrorKeeps ==
  ASSUME IInv, OnFatalError
  PROVE  IInv'
<1>0. PICK b \in Bots : b = item.bot
  BY Typing DEF IInv
<1>1. /\ step = "fatal"
      /\ UNCHANGED << registry, heap, cooldown, staged, retiring, generations, inflight, job, op,
                      database, recovering, streak >>
  BY DEF OnFatalError
<1>2. \A a : /\ ~ Sweeping(a) /\ ~ Recording(a) /\ OpsOn(a)' = OpsOn(a)
  BY <1>1 DEF Sweeping, Recording, OpsOn, Busy
<1>3. CASE /\ staged[b] # item.mgrGen /\ generations[b] = item.mgrGen /\ bots[b] # None
           /\ bots' = [bots EXCEPT ![b] = None]
           /\ failed' = [failed EXCEPT ![b] = bots[b]]
           /\ fatalPending' = [fatalPending EXCEPT ![b] = @ + 1]
           /\ step' = "recording" /\ UNCHANGED << due, item, delay >>
  <2>1. SchedTypeOK'
    BY <1>1, <1>3 DEF IInv, TypeOK, SchedTypeOK, registry, Steps
  <2>2. ManagedTypeOK'
    BY <1>1, <1>3 DEF IInv, TypeOK, ManagedTypeOK, None
  <2>3. \A a : ~ Sweeping(a)' /\ (Recording(a)' <=> a = b)
    BY <1>0, <1>3 DEF Sweeping, Recording
  <2>4. fatalPending' \in [Bots -> Nat] /\ \A a \in Bots : fatalPending'[a] = IF a = b THEN 1 ELSE 0
    BY <1>2, <1>3 DEF IInv, TypeOK, WorkTypeOK, WorkIsCounted
  <2>5. WorkIsCounted'
    BY <1>1, <1>2, <2>3, <2>4 DEF IInv, WorkIsCounted
  <2>6. WorkHasInstance'
    BY <1>2, <1>3, <2>3 DEF IInv, TypeOK, ManagedTypeOK, WorkHasInstance, Working
  <2>7. NewestWorks'
    BY <1>1, <2>3 DEF IInv, NewestWorks, Busy
  <2>8. SoleOwner'
    BY <1>1 DEF IInv, SoleOwner
  <2>9. NothingLives'
    <3>1. ASSUME NEW s \in Admins, job[s].kind # "none", job[s].at \in Loading
          PROVE  bots'[job[s].bot] = None /\ failed'[job[s].bot] = None
      <4>1. job[s].bot \in Bots /\ bots[job[s].bot] = None /\ failed[job[s].bot] = None
        BY <3>1, Typing DEF IInv, NothingLives
      <4> QED
        BY <1>3, <4>1 DEF IInv, TypeOK, ManagedTypeOK
    <3> QED
      BY <1>1, <3>1 DEF NothingLives
  <2>10. WorkTypeOK'
    BY <1>1, <2>4 DEF IInv, TypeOK, WorkTypeOK, database
  <2> QED
    BY <2>1, <2>2, <2>5, <2>6, <2>7, <2>8, <2>9, <2>10 DEF IInv, TypeOK
<1>4. CASE Finished /\ UNCHANGED << bots, failed, fatalPending >>
  <2>1. SchedTypeOK'
    BY <1>1, <1>4, NoItemType DEF IInv, TypeOK, SchedTypeOK, registry, Finished, Steps
  <2>2. UNCHANGED << managed, job, database, recovering >>
    BY <1>1, <1>4 DEF managed
  <2>3. \A a : ~ Sweeping(a)' /\ ~ Recording(a)'
    BY <1>4 DEF Sweeping, Recording, Finished
  <2>4. WorkIsCounted'
    BY <1>1, <1>2, <1>4, <2>3 DEF IInv, WorkIsCounted
  <2>5. WorkHasInstance'
    BY <1>2, <2>2, <2>3 DEF IInv, WorkHasInstance, Working, managed
  <2>6. NewestWorks'
    BY <1>1, <2>3 DEF IInv, NewestWorks, Busy
  <2>7. WorkTypeOK'
    BY <1>1, <1>4, <2>2, OtherTypes DEF IInv, TypeOK, WorkTypeOK
  <2> QED
    BY <2>1, <2>2, <2>4, <2>5, <2>6, <2>7, OtherTypes DEF IInv, TypeOK
<1> QED
  BY <1>0, <1>3, <1>4 DEF OnFatalError

LEMMA RecordKeeps ==
  ASSUME IInv, CheckOurs \/ CommitError \/ ReleaseFatal
  PROVE  IInv'
<1>0. PICK b \in Bots : b = item.bot
  BY Typing DEF IInv
<1>1. /\ step \in {"recording", "committing", "releasing"}
      /\ UNCHANGED << registry, heap, due, cooldown, managed, inflight, job, op, startFailures,
                      recovering, streak >>
  BY DEF CheckOurs, CommitError, ReleaseFatal, Finished, database
<1>2. \A a : /\ ~ Sweeping(a) /\ (Recording(a) <=> a = b) /\ OpsOn(a)' = OpsOn(a)
  BY <1>0, <1>1 DEF Sweeping, Recording, OpsOn, Busy
<1>3. ManagedTypeOK' /\ SoleOwner' /\ NothingLives'
  <2>1. ManagedTypeOK'
    BY <1>1 DEF IInv, TypeOK, ManagedTypeOK, managed
  <2>2. SoleOwner' /\ NothingLives'
    BY <1>1 DEF IInv, SoleOwner, NothingLives, managed
  <2> QED
    BY <2>1, <2>2
<1>4. row' \in [Bots -> Statuses]
  <2>1. \/ UNCHANGED row
        \/ row' = [row EXCEPT ![b] = "error"]
    BY <1>0 DEF CheckOurs, CommitError, ReleaseFatal, database
  <2> QED
    BY <2>1 DEF IInv, TypeOK, WorkTypeOK, Statuses
<1>5. CASE step' \in {"committing", "releasing"} /\ UNCHANGED << item, delay, fatalPending >>
  <2>1. SchedTypeOK'
    BY <1>1, <1>5 DEF IInv, TypeOK, SchedTypeOK, registry, Steps
  <2>2. \A a : ~ Sweeping(a)' /\ (Recording(a)' <=> a = b)
    BY <1>0, <1>5 DEF Sweeping, Recording
  <2>3. WorkIsCounted'
    BY <1>1, <1>2, <1>5, <2>2 DEF IInv, WorkIsCounted
  <2>4. WorkHasInstance'
    BY <1>1, <1>2, <2>2 DEF IInv, WorkHasInstance, Working, managed
  <2>5. NewestWorks'
    BY <1>1, <2>2 DEF IInv, NewestWorks, Busy, managed
  <2>6. WorkTypeOK'
    BY <1>1, <1>4, <1>5 DEF IInv, TypeOK, WorkTypeOK
  <2> QED
    BY <1>3, <2>1, <2>3, <2>4, <2>5, <2>6 DEF IInv, TypeOK
<1>6. CASE ReleaseFatal
  <2>1. SchedTypeOK'
    BY <1>1, <1>6, NoItemType DEF IInv, TypeOK, SchedTypeOK, registry, ReleaseFatal, Finished, Steps
  <2>2. \A a : ~ Sweeping(a)' /\ ~ Recording(a)'
    BY <1>6 DEF Sweeping, Recording, ReleaseFatal, Finished
  <2>3. /\ fatalPending' \in [Bots -> Nat]
        /\ \A a \in Bots : fatalPending'[a] = 0
    <3>1. \A a \in Bots : fatalPending[a] = IF a = b THEN 1 ELSE 0
      BY <1>2 DEF IInv, WorkIsCounted
    <3>2. fatalPending' = Released(fatalPending, b)
      BY <1>0, <1>6 DEF ReleaseFatal
    <3>3. fatalPending \in [Bots -> Nat]
      BY DEF IInv, TypeOK, WorkTypeOK
    <3>4. /\ fatalPending' \in [Bots -> Nat]
          /\ fatalPending'[b] = 0
          /\ \A a \in Bots \ {b} : fatalPending'[a] = fatalPending[a]
      BY <3>1, <3>2, <3>3, ReleasedIs
    <3> QED
      BY <3>1, <3>4
  <2>4. WorkIsCounted'
    BY <1>1, <1>2, <2>2, <2>3 DEF IInv, WorkIsCounted
  <2>5. WorkHasInstance'
    BY <1>1, <1>2, <2>2 DEF IInv, WorkHasInstance, Working, managed
  <2>6. NewestWorks'
    BY <1>1, <2>2 DEF IInv, NewestWorks, Busy, managed
  <2>7. WorkTypeOK'
    BY <1>1, <1>4, <2>3 DEF IInv, TypeOK, WorkTypeOK
  <2> QED
    BY <1>3, <2>1, <2>4, <2>5, <2>6, <2>7 DEF IInv, TypeOK
<1>7. CASE CheckOurs \/ CommitError
  BY <1>5, <1>7 DEF CheckOurs, CommitError
<1> QED
  BY <1>6, <1>7

LEMMA TimePassesKeeps ==
  ASSUME IInv, TimePasses
  PROVE  IInv'
<1>1. SchedTypeOK'
  BY TickType DEF IInv, TypeOK, TimePasses
<1>2. UNCHANGED << step, item, managed, inflight, fatalPending, job, op, database, recovering,
                   streak >>
  BY DEF TimePasses, Tick, thread
<1>3. ManagedTypeOK' /\ WorkIsCounted' /\ WorkHasInstance' /\ NewestWorks'
  BY <1>2, WorkFrame
<1>4. WorkTypeOK'
  BY <1>2, OtherTypes DEF IInv, TypeOK, WorkTypeOK
<1> QED
  BY <1>1, <1>2, <1>3, <1>4, OtherTypes DEF IInv, TypeOK

-----------------------------------------------------------------------------
(***************************************************************************)
(* The theorems.                                                           *)
(***************************************************************************)
LEMMA InitIInv == Init => IInv
<1> SUFFICES ASSUME Init PROVE IInv
  OBVIOUS
<1>1. SchedTypeOK
  <2>1. IsBag(EmptyBag, Entry) /\ IsBag(EmptyBag, Item)
    BY DEF IsBag, EmptyBag, SetToBag
  <2> QED
    BY <2>1, NoItemType DEF Init, SchedInit, SchedTypeOK, Steps, None
<1>2. ManagedTypeOK
  BY DEF Init, ManagedTypeOK, None
<1>3. WorkTypeOK
  BY NullRecords DEF Init, WorkTypeOK
<1>4. /\ \A a : ~ Sweeping(a) /\ ~ Recording(a) /\ OpsOn(a) = {}
      /\ \A c \in Clients : ~ Busy(c)
  BY NullRecords DEF Init, SchedInit, Sweeping, Recording, OpsOn, Busy
<1>5. WorkIsCounted
  BY <1>4, FS_EmptySet, SMTT(30) DEF Init, WorkIsCounted
<1>6. WorkHasInstance /\ NewestWorks
  BY <1>4 DEF WorkHasInstance, Working, NewestWorks
<1>7. SoleOwner /\ NothingLives
  BY NullRecords DEF Init, SoleOwner, NothingLives
<1> QED
  BY <1>1, <1>2, <1>3, <1>5, <1>6, <1>7 DEF IInv, TypeOK

LEMMA NextIInv ==
  ASSUME IInv, [Next]_vars
  PROVE  IInv'
<1>1. ASSUME NEW t \in Admins, Handle(t)
      PROVE  IInv'
  BY <1>1, StartKeeps, RegistrationKeeps, EndKeeps, PublishKeeps, OpenRetireKeeps, FinalizeKeeps
  DEF Handle
<1>2. ASSUME NEW t \in Admins, NEW verb \in Requests \cup {"recover"}, NEW b \in Bots,
             Begin(t, verb, b)
      PROVE  IInv'
  BY <1>2, BeginKeeps
<1>3. ASSUME NEW c \in Clients, NEW b \in Bots, NEW reads \in BOOLEAN, Admit(c, b, reads)
      PROVE  IInv'
  BY <1>3, AdmitKeeps
<1>4. ASSUME NEW c \in Clients, ChangeState(c) \/ Release(c)
      PROVE  IInv'
  BY <1>4, ChangeStateKeeps, ReleaseKeeps
<1>5. CASE Sweeper
  BY <1>5, UnadmittedKeeps, EnterKeeps, SweepKeeps, OnFatalErrorKeeps, RecordKeeps DEF Sweeper
<1>6. CASE TimePasses
  BY <1>6, TimePassesKeeps
<1>7. CASE UNCHANGED vars
  <2>1. UNCHANGED << step, item, managed, inflight, fatalPending, job, op, database, recovering,
                     streak, schedVars >>
    BY <1>7 DEF vars, schedVars, thread
  <2>2. ManagedTypeOK' /\ WorkIsCounted' /\ WorkHasInstance' /\ NewestWorks'
    BY <2>1, WorkFrame
  <2>3. WorkTypeOK'
    BY <2>1, OtherTypes DEF IInv, TypeOK, WorkTypeOK
  <2> QED
    BY <2>1, <2>2, <2>3, OtherTypes, SchedSame DEF IInv, TypeOK
<1> QED
  BY <1>1, <1>2, <1>3, <1>4, <1>5, <1>6, <1>7 DEF Next

LEMMA Invariance == Spec => []IInv
<1>1. IInv /\ [Next]_vars => IInv'
  BY NextIInv
<1> QED
  BY InitIInv, <1>1, PTL DEF Spec

\* Every reachable state is well typed, with at most one generation of a bot
\* in the registry (manager.py:150-190).
THEOREM TypeCorrect == Spec => []TypeOK
<1>1. IInv => TypeOK
  BY DEF IInv
<1> QED
  BY Invariance, <1>1, PTL

\* The counters a drain waits for count exactly what is at work
\* (manager.py:285-308, 543-591).
THEOREM CountersExact == Spec => []WorkIsCounted
<1>1. IInv => WorkIsCounted
  BY DEF IInv
<1> QED
  BY Invariance, <1>1, PTL

\* Saved state has one user at a time, and what is at work belongs to the
\* newest generation (manager.py:169-206, 385-391, 631-655).
THEOREM OneUserOfSavedState == Spec => []OneGenerationWorks
<1>1. IInv => OneGenerationWorks
  BY IInvOneGeneration
<1> QED
  BY Invariance, <1>1, PTL

\* Both together: a drain that saw its counters fall to zero leaves nobody
\* behind that could still write the saved state (manager.py:631-655).
THEOREM SavedStateIsOwned == Spec => []SavedStateHasOneUser
BY CountersExact, OneUserOfSavedState, PTL DEF SavedStateHasOneUser
-----------------------------------------------------------------------------
(***************************************************************************)
(* A bot that serves is registered for sweeps, a registered bot is never   *)
(* forgotten, and an instance is set aside as failed only after its own    *)
(* failures: how the scheduler's registry, the heap, the popped entries    *)
(* and the manager's registry stay together although no lock is held over  *)
(* two of them.  IInv, proved above, is taken as known.                    *)
(***************************************************************************)

\* A heap entry belongs to the current registration or to an earlier one.
EntriesSound ==
  \A e \in DOMAIN heap :
    /\ e.gen <= gens[e.bot]
    /\ Current(e) => registered[e.bot] # None

\* What was popped is current exactly as long as the registration it was
\* captured from lasts.
ItemSound(i) ==
  /\ i.gen <= gens[i.bot] /\ i.mgrGen <= newest[i.bot]
  /\ Current(i) => /\ registered[i.bot] # None
                   /\ i.mgrGen = newest[i.bot] /\ i.instance = registered[i.bot]
  /\ registered[i.bot] # None /\ i.mgrGen = newest[i.bot] => Current(i)

ItemsSound ==
  /\ \A i \in DOMAIN due : ItemSound(i)
  /\ step # "idle" => ItemSound(item)

\* Only the live instance is registered.
RegisteredLives ==
  \A b \in Bots :
    /\ newest[b] <= generations[b]
    /\ registered[b] # None => registered[b] = newest[b] /\ bots[b] = registered[b]

\* A start registers a generation once, after it was published; a stop keeps
\* the generation it set out to retire.
JobSound(j) ==
  j.kind # "none" =>
    /\ j.at \in {"commit", "register", "open"} =>
         staged[j.bot] = generations[j.bot] /\ generations[j.bot] # 0
    /\ j.at \in {"commit", "register"} =>
         newest[j.bot] < generations[j.bot] /\ registered[j.bot] = None
    /\ j.at = "open" => registered[j.bot] = generations[j.bot]
    /\ j.at \in {"unschedule", "drain"} =>
         j.gen = generations[j.bot] /\ j.gen # 0 /\ j.bot \in retiring
    /\ j.at = "drain" => registered[j.bot] = None

JobsSound == \A t \in Admins : JobSound(job[t])

\* The thread at work on the newest generation works on an instance that was
\* let in, and is fatal to it only after MaxFailures failures.
ThreadSound ==
  LET b == item.bot IN
  /\ step \in {"sweeping", "failed", "removing", "fatal"} /\ item.mgrGen = generations[b] =>
       staged[b] # generations[b]
  /\ step = "sweeping" => item.mgrGen = generations[b] /\ bots[b] # None
  /\ step \in {"fatal", "recording", "committing", "releasing"} => ~ Current(item)
  /\ step \in {"removing", "fatal"} /\ item.mgrGen = generations[b] =>
       streak[b] = MaxFailures

\* The registration of a bot that serves is missing only between its removal
\* by the thread and the fatal handler.
Served(b) == bots[b] # None /\ ~ Starting(b) /\ b \notin retiring

ServedSound ==
  \A b \in Bots : Served(b) =>
    \/ registered[b] = bots[b]
    \/ step = "fatal" /\ item.bot = b /\ item.mgrGen = generations[b]

\* The count of the scheduler never runs ahead of the sweeps that failed.
Accounting(b) ==
  item.bot = b /\ Current(item) /\ step \in {"succeeded", "removing"}

CountSound ==
  \A b \in Bots : registered[b] # None =>
    \/ Accounting(b)
    \/ IF step = "failed" /\ item.bot = b /\ Current(item)
       THEN failures[b] < streak[b] \/ streak[b] = MaxFailures
       ELSE failures[b] <= streak[b]

RInv ==
  /\ EntriesSound /\ ItemsSound
  /\ RegisteredLives /\ JobsSound
  /\ ThreadSound /\ ServedSound
  /\ NeverForgotten
  /\ CountSound /\ FatalEarned

-----------------------------------------------------------------------------
(***************************************************************************)
(* Preliminaries.                                                          *)
(***************************************************************************)
LEMMA Types ==
  ASSUME IInv
  PROVE  /\ registered \in [Bots -> Nat] /\ newest \in [Bots -> Nat]
         /\ gens \in [Bots -> Nat] /\ failures \in [Bots -> Nat]
         /\ bots \in [Bots -> Nat] /\ failed \in [Bots -> Nat] /\ staged \in [Bots -> Nat]
         /\ generations \in [Bots -> Nat] /\ streak \in [Bots -> 0..MaxFailures]
         /\ job \in [Admins -> Job]
         /\ \A t \in Admins : job[t].bot \in Bots
         /\ item \in Item
         /\ item.bot \in Bots /\ item.gen \in Nat /\ item.mgrGen \in Nat /\ item.instance \in Nat
         /\ \A e \in DOMAIN heap : e \in Entry /\ e.bot \in Bots /\ e.gen \in Nat
         /\ \A i \in DOMAIN due : i \in Item /\ i.bot \in Bots /\ i.gen \in Nat
<1>1. /\ \A e \in DOMAIN heap : e \in Entry
      /\ \A i \in DOMAIN due : i \in Item
  BY DEF IInv, TypeOK, SchedTypeOK, IsBag
<1>2. \A e \in DOMAIN heap : e.bot \in Bots /\ e.gen \in Nat
  BY <1>1 DEF Entry
<1>3. \A i \in DOMAIN due : i.bot \in Bots /\ i.gen \in Nat
  BY <1>1 DEF Item
<1>4. item.bot \in Bots /\ item.gen \in Nat /\ item.mgrGen \in Nat /\ item.instance \in Nat
  BY DEF IInv, TypeOK, SchedTypeOK, Item
<1>5. \A t \in Admins : job[t].bot \in Bots
  BY Typing DEF IInv
<1> QED
  BY <1>1, <1>2, <1>3, <1>4, <1>5 DEF IInv, TypeOK, SchedTypeOK, ManagedTypeOK, WorkTypeOK

LEMMA PushDomain ==
  ASSUME NEW b, NEW gen, NEW d, Push(b, gen, d)
  PROVE  DOMAIN heap' = DOMAIN heap \cup {[bot |-> b, gen |-> gen, wait |-> d]}
BY DEF Push, (+), SetToBag

LEMMA NoneDue == DOMAIN EmptyBag = {}
BY DEF EmptyBag, SetToBag

\* What concerns the registry and the instances, when they do not change.
LEMMA JobsFrame ==
  ASSUME IInv, RInv, UNCHANGED << job, staged, generations, newest, registered, retiring >>
  PROVE  JobsSound'
BY DEF RInv, JobsSound, JobSound

\* One thread's request becomes j, and only its bot b is concerned.
LEMMA OwnerFrame ==
  ASSUME IInv, RInv, NEW t \in Admins, NEW j, NEW b \in Bots,
         b = job[t].bot, job[t].kind # "none",
         job' = [job EXCEPT ![t] = j],
         JobSound(j)',
         \A a \in Bots \ {b} :
           /\ staged'[a] = staged[a] /\ generations'[a] = generations[a]
           /\ newest'[a] = newest[a] /\ registered'[a] = registered[a]
           /\ a \in retiring => a \in retiring'
  PROVE  JobsSound'
<1>1. \A s \in Admins : job'[s] = IF s = t THEN j ELSE job[s]
  BY Types
<1>2. ASSUME NEW s \in Admins, s # t, job[s].kind # "none"
      PROVE  JobSound(job[s])'
  <2>1. job[s].bot \in Bots \ {b} /\ JobSound(job[s]) /\ job'[s] = job[s]
    BY <1>1, <1>2, Types DEF IInv, SoleOwner, RInv, JobsSound
  <2> QED
    BY <2>1 DEF JobSound
<1>3. ASSUME NEW s \in Admins
      PROVE  JobSound(job[s])'
  <2>1. CASE s = t
    BY <1>1, <2>1 DEF JobSound
  <2>2. CASE s # t /\ job[s].kind # "none"
    BY <1>2, <2>2
  <2>3. CASE s # t /\ job[s].kind = "none"
    BY <1>1, <2>3 DEF JobSound
  <2> QED
    BY <2>1, <2>2, <2>3
<1> QED
  BY <1>3 DEF JobsSound

LEMMA RestFrame ==
  ASSUME IInv, RInv, JobsSound',
         UNCHANGED << registry, heap, due, step, item, bots, failed, staged, retiring,
                      generations, streak >>
  PROVE  RInv'
<1>1. EntriesSound' /\ ItemsSound' /\ RegisteredLives'
  BY DEF RInv, EntriesSound, ItemsSound, ItemSound, RegisteredLives, Current, registry
<1>2. ThreadSound' /\ FatalEarned'
  BY DEF RInv, ThreadSound, FatalEarned, Current, registry
<1>3. ServedSound' /\ CountSound'
  BY DEF RInv, ServedSound, Served, Starting, CountSound, Accounting, Current, registry
<1>4. NeverForgotten'
  BY DEF RInv, NeverForgotten, Current, registry
<1> QED
  BY <1>1, <1>2, <1>3, <1>4 DEF RInv

-----------------------------------------------------------------------------
(***************************************************************************)
(* Requests that leave the registrations and the instances alone.          *)
(***************************************************************************)
Watched == {"commit", "register", "open", "unschedule", "drain"}

rest == << registry, heap, due, step, item, bots, failed, staged, retiring, generations, streak >>

LEMMA FreeFrame ==
  ASSUME IInv, RInv, NEW t \in Admins, NEW j,
         job' = [job EXCEPT ![t] = j],
         j.kind = "none" \/ j.at \notin Watched,
         UNCHANGED rest
  PROVE  RInv'
<1>1. UNCHANGED << registry, heap, due, step, item, bots, failed, staged, retiring,
                   generations, streak >>
  BY DEF rest
<1>2. \A s \in Admins : job'[s] = IF s = t THEN j ELSE job[s]
  BY Types
<1>3. JobsSound'
  <2>1. ASSUME NEW s \in Admins
        PROVE  JobSound(job[s])'
    <3>1. CASE s = t
      BY <1>2, <3>1 DEF JobSound, Watched
    <3>2. CASE s # t
      BY <1>1, <1>2, <3>2 DEF RInv, JobsSound, JobSound, registry
    <3> QED
      BY <3>1, <3>2
  <2> QED
    BY <2>1 DEF JobsSound
<1> QED
  BY <1>1, <1>3, RestFrame

LEMMA GoFree ==
  ASSUME IInv, RInv, NEW t \in Admins, NEW place \in Places \ Watched, Go(t, place),
         job[t].kind # "none", UNCHANGED rest
  PROVE  RInv'
BY GoIs, FreeFrame

LEMMA LeaveFree ==
  ASSUME IInv, RInv, NEW t \in Admins, Leave(t), UNCHANGED rest
  PROVE  RInv'
BY LeaveIs, NullRecords, FreeFrame

LEMMA ResetFree ==
  ASSUME IInv, RInv, NEW t \in Admins,
         job' = [job EXCEPT ![t].kind = "reset", ![t].at = "retire"],
         UNCHANGED rest
  PROVE  RInv'
<1> DEFINE j == [job[t] EXCEPT !.kind = "reset", !.at = "retire"]
<1>1. job[t] \in Job
  BY Types
<1>2. j.at = "retire" /\ job' = [job EXCEPT ![t] = j]
  BY <1>1 DEF Job
<1> HIDE DEF j
<1> QED
  BY <1>2, FreeFrame DEF Watched

LEMMA BeginServed ==
  ASSUME IInv, RInv, NEW t \in Admins, NEW verb, NEW b, Begin(t, verb, b)
  PROVE  RInv'
<1> DEFINE j == [kind |-> verb, bot |-> b, gen |-> 0,
                 at |-> CASE verb \in {"start", "recover"} -> "begin"
                          [] verb = "edit" -> "edit"
                          [] OTHER -> "retire"]
<1>1. j.at \notin Watched
  BY DEF Watched
<1>2. job' = [job EXCEPT ![t] = j] /\ UNCHANGED rest
  BY DEF Begin, rest, managed, schedVars, thread
<1> HIDE DEF j
<1> QED
  BY <1>1, <1>2, FreeFrame

LEMMA QuietServed ==
  ASSUME IInv, RInv, NEW t \in Admins,
         \/ CheckStart(t) \/ Construct(t) \/ ConstructFails(t) \/ GiveUp(t)
         \/ CommitStopped(t) \/ CheckEdit(t) \/ WriteEdit(t)
  PROVE  RInv'
<1>1. job[t].kind # "none" /\ UNCHANGED rest
  BY DEF CheckStart, Construct, ConstructFails, GiveUp, CommitStopped, CheckEdit, WriteEdit, At,
         rest, managed, schedVars, thread
<1>2. {"construct", "publish", "begin", "write"} \subseteq Places \ Watched
  BY DEF Places, Watched
<1>3. \/ \E place \in {"construct", "publish", "begin", "write"} : Go(t, place)
      \/ Leave(t)
      \/ job' = [job EXCEPT ![t].kind = "reset", ![t].at = "retire"]
  BY DEF CheckStart, Construct, ConstructFails, GiveUp, CommitStopped, CheckEdit, WriteEdit
<1> QED
  BY <1>1, <1>2, <1>3, GoFree, LeaveFree, ResetFree

LEMMA CommitServed ==
  ASSUME IInv, RInv, NEW t \in Admins, CommitRunning(t)
  PROVE  RInv'
<1>1. job[t].kind # "none" /\ job[t].at = "commit" /\ UNCHANGED rest
  BY DEF CommitRunning, At, rest, managed, schedVars, thread
<1>2. CASE job' = [job EXCEPT ![t].kind = "reset", ![t].at = "retire"]
  BY <1>1, <1>2, ResetFree
<1>3. CASE Go(t, "register")
  <2>1. "register" \in Places
    BY DEF Places
  <2>2. PICK j \in Job :
          /\ job' = [job EXCEPT ![t] = j]
          /\ j.at = "register" /\ j.kind = job[t].kind /\ j.bot = job[t].bot
    BY <1>1, <1>3, <2>1, GoIs
  <2>3. PICK b \in Bots : b = job[t].bot
    BY Types
  <2>4. JobSound(j)'
    <3>1. /\ staged[b] = generations[b] /\ generations[b] # 0
          /\ newest[b] < generations[b] /\ registered[b] = None
      BY <1>1, <2>3 DEF RInv, JobsSound, JobSound
    <3> QED
      BY <1>1, <2>2, <2>3, <3>1 DEF JobSound, rest, registry
  <2>5. \A a \in Bots \ {b} :
          /\ staged'[a] = staged[a] /\ generations'[a] = generations[a]
          /\ newest'[a] = newest[a] /\ registered'[a] = registered[a]
          /\ a \in retiring => a \in retiring'
    BY <1>1 DEF rest, registry
  <2>6. JobsSound'
    BY <1>1, <2>2, <2>3, <2>4, <2>5, OwnerFrame
  <2> QED
    BY <1>1, <2>6, RestFrame DEF rest
<1> QED
  BY <1>2, <1>3 DEF CommitRunning

-----------------------------------------------------------------------------
(***************************************************************************)
(* Requests and commands that change the registrations or the instances.   *)
(***************************************************************************)
InHeap(b) == \E e \in DOMAIN heap : e.bot = b /\ Current(e)
InDue(b) == \E i \in DOMAIN due : i.bot = b /\ Current(i)
ItemInHand(b) == step # "idle" /\ item.bot = b /\ Current(item)

LEMMA NeverForgottenIs ==
  NeverForgotten <=> \A b \in Bots : registered[b] # None => InHeap(b) \/ InDue(b) \/ ItemInHand(b)
BY DEF NeverForgotten, InHeap, InDue, ItemInHand

LEMMA StillRemembered ==
  ASSUME NeverForgotten,
         \A a \in Bots : registered'[a] # None => registered[a] # None \/ InHeap(a)',
         \A a : InHeap(a) => InHeap(a)',
         \A a : InDue(a)' = InDue(a) /\ ItemInHand(a)' = ItemInHand(a)
  PROVE  NeverForgotten'
<1>1. NeverForgotten' <=> \A a \in Bots : registered'[a] # None => InHeap(a)' \/ InDue(a)' \/ ItemInHand(a)'
  BY DEF NeverForgotten, InHeap, InDue, ItemInHand
<1>2. QED
  BY ONLY <1>1, NeverForgottenIs, NeverForgotten,
          \A a \in Bots : registered'[a] # None => registered[a] # None \/ InHeap(a)',
          \A a : InHeap(a) => InHeap(a)',
          \A a : InDue(a)' = InDue(a) /\ ItemInHand(a)' = ItemInHand(a)

LEMMA Pushed ==
  ASSUME IInv, RInv, NEW b \in Bots, NEW d, registered[b] # None, Push(b, gens[b], d),
         UNCHANGED << registered, gens >>
  PROVE  /\ EntriesSound'
         /\ \A a : InHeap(a) => InHeap(a)'
         /\ InHeap(b)'
<1> DEFINE e == [bot |-> b, gen |-> gens[b], wait |-> d]
<1>1. DOMAIN heap' = DOMAIN heap \cup {e}
  BY PushDomain
<1>2. e.bot = b /\ e.gen = gens[b] /\ gens[b] \in Nat
  BY Types
<1> HIDE DEF e
<1>3. EntriesSound'
  BY <1>1, <1>2 DEF RInv, EntriesSound, Current
<1>4. \A a : InHeap(a) => InHeap(a)'
  BY <1>1 DEF InHeap, Current
<1>5. InHeap(b)'
  BY <1>1, <1>2 DEF InHeap, Current
<1> QED
  BY <1>3, <1>4, <1>5

LEMMA RescheduleServed ==
  ASSUME IInv, RInv, NEW b \in Bots, RescheduleSoon(b), JobsSound',
         UNCHANGED << registry, due, step, item, bots, failed, staged, retiring, generations,
                      streak >>
  PROVE  RInv'
<1>1. CASE UNCHANGED heap
  BY <1>1, RestFrame
<1>2. CASE registered[b] # None /\ Push(b, gens[b], MinInterval)
  <2>0. NeverForgotten /\ \A a \in Bots : registered'[a] # None => registered[a] # None \/ InHeap(a)'
    BY DEF RInv, registry
  <2>1. EntriesSound' /\ \A a : InHeap(a) => InHeap(a)'
    BY <1>2, Pushed DEF registry
  <2>2. \A a : InDue(a)' = InDue(a) /\ ItemInHand(a)' = ItemInHand(a)
    BY DEF InDue, ItemInHand, Current, registry
  <2>3. NeverForgotten'
    BY ONLY <2>1, <2>2, <2>0, StillRemembered
  <2>4. ItemsSound' /\ RegisteredLives'
    BY DEF RInv, ItemsSound, ItemSound, RegisteredLives, Current, registry
  <2>5. ThreadSound' /\ FatalEarned'
    BY DEF RInv, ThreadSound, FatalEarned, Current, registry
  <2>6. ServedSound' /\ CountSound'
    BY DEF RInv, ServedSound, Served, Starting, CountSound, Accounting, Current, registry
  <2> QED
    BY <2>1, <2>3, <2>4, <2>5, <2>6 DEF RInv
<1> QED
  BY <1>1, <1>2 DEF RescheduleSoon

LEMMA NudgeServed ==
  ASSUME IInv, RInv, NEW t \in Admins, Nudge(t)
  PROVE  RInv'
<1>1. /\ RescheduleSoon(job[t].bot) /\ job[t].bot \in Bots
      /\ UNCHANGED << registry, due, step, item, bots, failed, staged, retiring, generations,
                      streak >>
  BY Types DEF Nudge, thread, managed
<1>2. job' = [job EXCEPT ![t] = NoJob]
  BY LeaveIs DEF Nudge
<1>3. \A s \in Admins : job'[s] = IF s = t THEN NoJob ELSE job[s]
  BY <1>2, Types
<1>4. JobsSound'
  <2>1. ASSUME NEW s \in Admins
        PROVE  JobSound(job[s])'
    <3>1. CASE s = t
      BY <1>3, <3>1, NullRecords DEF JobSound
    <3>2. CASE s # t
      BY <1>1, <1>3, <3>2 DEF RInv, JobsSound, JobSound, registry
    <3> QED
      BY <3>1, <3>2
  <2> QED
    BY <2>1 DEF JobsSound
<1> QED
  BY <1>1, <1>4, RescheduleServed

LEMMA ClientServed ==
  ASSUME IInv, RInv, NEW c \in Clients,
         \/ \E b \in Bots, reads \in BOOLEAN : Admit(c, b, reads)
         \/ ChangeState(c) \/ Release(c)
  PROVE  RInv'
<1>1. JobsSound'
  BY JobsFrame DEF Admit, ChangeState, Release, schedVars, registry, managed
<1>2. CASE ChangeState(c)
  <2>1. op[c].bot \in Bots
    BY Typing DEF IInv
  <2> QED
    BY <1>1, <1>2, <2>1, RescheduleServed DEF ChangeState, thread, managed
<1>3. CASE \/ \E b \in Bots, reads \in BOOLEAN : Admit(c, b, reads)
           \/ Release(c)
  BY <1>1, <1>3, RestFrame DEF Admit, Release, schedVars, thread, managed
<1> QED
  BY <1>2, <1>3

\* A generation is registered once: what is under way is older.
LEMMA RegisterServed ==
  ASSUME IInv, RInv, NEW t \in Admins, Register(t)
  PROVE  RInv'
<1>0. PICK b \in Bots : b = job[t].bot
  BY Types
<1>1. /\ job[t].kind # "none" /\ job[t].at = "register"
      /\ Add(b, generations[b], 0) /\ Go(t, "open")
      /\ UNCHANGED << due, step, item, bots, failed, staged, retiring, generations, streak >>
  BY <1>0 DEF Register, At, thread, managed
<1>2. /\ staged[b] = generations[b] /\ generations[b] # 0
      /\ newest[b] < generations[b] /\ registered[b] = None
      /\ bots[b] = generations[b]
  <2>1. JobSound(job[t])
    BY DEF RInv, JobsSound
  <2> QED
    BY <1>0, <1>1, <2>1 DEF JobSound, IInv, TypeOK, ManagedTypeOK, None
<1>3. /\ newest' = [newest EXCEPT ![b] = generations[b]]
      /\ registered' = [registered EXCEPT ![b] = generations[b]]
      /\ failures' = [failures EXCEPT ![b] = 0]
      /\ Push(b, gens[b], 0) /\ UNCHANGED gens
  BY <1>1, <1>2, Types DEF Add
<1>4. /\ newest'[b] = generations[b] /\ registered'[b] = generations[b] /\ failures'[b] = 0
      /\ generations[b] \in Nat \ {None} /\ newest[b] \in Nat
      /\ \A a \in Bots \ {b} : /\ newest'[a] = newest[a] /\ registered'[a] = registered[a]
                              /\ failures'[a] = failures[a]
  BY <1>2, <1>3, Types DEF None
<1> DEFINE e == [bot |-> b, gen |-> gens[b], wait |-> 0]
<1>5. DOMAIN heap' = DOMAIN heap \cup {e} /\ e.bot = b /\ e.gen = gens[b]
  BY <1>3, PushDomain
<1> HIDE DEF e
<1>6. \A x : Current(x)' = Current(x)
  BY <1>3 DEF Current
<1>7. EntriesSound'
  BY <1>3, <1>4, <1>5, <1>6, Types DEF RInv, EntriesSound, Current
<1>8. ASSUME NEW i \in Item, ItemSound(i)
      PROVE  ItemSound(i)'
  <2>0. i.bot \in Bots /\ i.mgrGen \in Nat
    BY DEF Item
  <2>1. CASE i.bot = b
    <3>1. ~ Current(i) /\ i.gen <= gens[b] /\ i.mgrGen <= newest[b]
      BY <1>2, <1>8, <2>1 DEF ItemSound
    <3>2. i.mgrGen <= newest'[b] /\ i.mgrGen # newest'[b]
      BY <1>2, <1>4, <2>0, <3>1
    <3> QED
      BY <1>3, <1>6, <2>1, <3>1, <3>2 DEF ItemSound
  <2>2. CASE i.bot # b
    BY <1>3, <1>4, <1>6, <1>8, <2>0, <2>2 DEF ItemSound
  <2> QED
    BY <2>1, <2>2
<1>9. ItemsSound'
  BY <1>1, <1>8, Types DEF RInv, ItemsSound
<1>10. RegisteredLives'
  BY <1>1, <1>2, <1>4, Types DEF RInv, RegisteredLives
<1>11. JobsSound'
  <2>1. "open" \in Places
    BY DEF Places
  <2>2. PICK j \in Job :
          /\ job' = [job EXCEPT ![t] = j]
          /\ j.at = "open" /\ j.kind = job[t].kind /\ j.bot = job[t].bot
    BY <1>1, <2>1, GoIs
  <2>3. JobSound(j)'
    BY <1>0, <1>1, <1>2, <1>4, <2>2 DEF JobSound
  <2> QED
    BY <1>0, <1>1, <1>4, <2>2, <2>3, OwnerFrame, ZenonT(40)
<1>12. ThreadSound' /\ FatalEarned'
  BY <1>1, <1>6 DEF RInv, ThreadSound, FatalEarned
<1>13. ServedSound'
  BY <1>1, <1>2, <1>4 DEF RInv, ServedSound, Served, Starting
<1>14. NeverForgotten'
  <2>1. InHeap(b)'
    BY <1>3, <1>5 DEF InHeap, Current
  <2>0. NeverForgotten /\ \A a \in Bots : registered'[a] # None => registered[a] # None \/ InHeap(a)'
    BY <1>4, <2>1 DEF RInv
  <2>2. \A a : (InHeap(a) => InHeap(a)') /\ InDue(a)' = InDue(a) /\ ItemInHand(a)' = ItemInHand(a)
    BY <1>1, <1>5, <1>6 DEF InHeap, InDue, ItemInHand
  <2> QED
    BY ONLY <2>1, <2>2, <2>0, StillRemembered
<1>15. CountSound'
  <2>1. ~ (item.bot = b /\ Current(item) /\ step # "idle")
    BY <1>2 DEF RInv, ItemsSound, ItemSound
  <2>2. streak'[b] \in Nat /\ failures'[b] <= streak'[b]
    BY <1>1, <1>4, Types
  <2>3. ASSUME NEW a \in Bots, registered'[a] # None
        PROVE  \/ Accounting(a)'
               \/ IF step' = "failed" /\ item'.bot = a /\ Current(item)'
                  THEN failures'[a] < streak'[a] \/ streak'[a] = MaxFailures
                  ELSE failures'[a] <= streak'[a]
    <3>1. CASE a = b
      BY <1>1, <1>6, <2>1, <2>2, <3>1
    <3>2. CASE a # b
      BY <1>1, <1>4, <1>6, <2>3, <3>2 DEF RInv, CountSound, Accounting
    <3> QED
      BY <3>1, <3>2
  <2> QED
    BY <2>3 DEF CountSound
<1> QED
  BY <1>7, <1>9, <1>10, <1>11, <1>12, <1>13, <1>14, <1>15 DEF RInv

LEMMA PublishServed ==
  ASSUME IInv, RInv, NEW t \in Admins, Publish(t)
  PROVE  RInv'
<1>0. PICK b \in Bots : b = job[t].bot
  BY Types
<1> DEFINE g == generations[b] + 1
<1>1. /\ job[t].kind # "none" /\ job[t].at = "publish"
      /\ bots' = [bots EXCEPT ![b] = g]
      /\ generations' = [generations EXCEPT ![b] = g]
      /\ staged' = [staged EXCEPT ![b] = g]
      /\ streak' = [streak EXCEPT ![b] = 0]
      /\ Go(t, "commit")
      /\ UNCHANGED << registry, heap, due, step, item, failed, retiring >>
  BY <1>0 DEF Publish, At, schedVars, thread
<1>2. bots[b] = None /\ failed[b] = None /\ ~ Working(b)
  BY <1>0, <1>1 DEF IInv, NothingLives, Loading, WorkHasInstance
<1>3. /\ generations[b] \in Nat /\ g \in Nat /\ g # None /\ generations[b] < g
      /\ newest[b] \in Nat /\ newest[b] <= generations[b] /\ newest[b] < g
  BY Types DEF None, RInv, RegisteredLives
<1>4. /\ generations'[b] = g /\ bots'[b] = g /\ staged'[b] = g
      /\ \A a \in Bots \ {b} : /\ generations'[a] = generations[a] /\ bots'[a] = bots[a]
                              /\ staged'[a] = staged[a] /\ streak'[a] = streak[a]
  BY <1>1, <1>3, Types
<1>5. registered[b] = None
  BY <1>2 DEF RInv, RegisteredLives
<1> HIDE DEF g
<1>6. \A x : Current(x)' = Current(x)
  BY <1>1 DEF Current, registry
<1>7. EntriesSound' /\ ItemsSound'
  BY <1>1, <1>6 DEF RInv, EntriesSound, ItemsSound, ItemSound, registry
<1>8. RegisteredLives'
  BY <1>1, <1>3, <1>4, <1>5 DEF RInv, RegisteredLives, registry
<1>9. JobsSound'
  <2>1. "commit" \in Places
    BY DEF Places
  <2>2. PICK j \in Job :
          /\ job' = [job EXCEPT ![t] = j]
          /\ j.at = "commit" /\ j.kind = job[t].kind /\ j.bot = job[t].bot
    BY <1>1, <2>1, GoIs
  <2>3. JobSound(j)'
    BY <1>0, <1>1, <1>3, <1>4, <1>5, <2>2 DEF JobSound, registry, None
  <2>4. \A a \in Bots \ {b} :
          /\ staged'[a] = staged[a] /\ generations'[a] = generations[a]
          /\ newest'[a] = newest[a] /\ registered'[a] = registered[a]
          /\ a \in retiring => a \in retiring'
    BY <1>1, <1>4 DEF registry
  <2> QED
    BY <1>0, <1>1, <2>2, <2>3, <2>4, OwnerFrame
<1>10. ThreadSound'
  <2>1. CASE item.bot # b
    BY <1>1, <1>4, <1>6, <2>1, Types DEF RInv, ThreadSound
  <2>2. CASE item.bot = b
    <3>1. step # "sweeping"
      BY <1>2, <2>2 DEF Working, Sweeping
    <3>2. step # "idle" => item.mgrGen # g
      BY <1>3, <2>2, Types DEF RInv, ItemsSound, ItemSound
    <3> QED
      BY <1>1, <1>4, <1>6, <2>2, <3>1, <3>2 DEF RInv, ThreadSound
  <2> QED
    BY <2>1, <2>2
<1>11. ServedSound'
  BY <1>1, <1>4 DEF RInv, ServedSound, Served, Starting, registry
<1>12. NeverForgotten'
  BY <1>1, <1>6 DEF RInv, NeverForgotten, registry
<1>13. CountSound'
  BY <1>1, <1>4, <1>5, <1>6 DEF RInv, CountSound, Accounting, registry
<1>14. FatalEarned'
  BY <1>1, <1>2, <1>4 DEF RInv, FatalEarned
<1> QED
  BY <1>7, <1>8, <1>9, <1>10, <1>11, <1>12, <1>13, <1>14 DEF RInv

LEMMA OpenServed ==
  ASSUME IInv, RInv, NEW t \in Admins, Open(t)
  PROVE  RInv'
<1>0. PICK b \in Bots : b = job[t].bot
  BY Types
<1>1. /\ job[t].kind # "none" /\ job[t].at = "open"
      /\ staged' = [staged EXCEPT ![b] = None] /\ Go(t, "nudge")
      /\ UNCHANGED << registry, heap, due, step, item, bots, failed, retiring, generations,
                      streak >>
  BY <1>0 DEF Open, At, schedVars, thread
<1>2. /\ staged[b] = generations[b] /\ generations[b] # 0 /\ registered[b] = generations[b]
      /\ bots[b] = generations[b]
  <2>1. JobSound(job[t])
    BY DEF RInv, JobsSound
  <2> QED
    BY <1>0, <1>1, <2>1 DEF JobSound, IInv, TypeOK, ManagedTypeOK, None
<1>3. /\ staged'[b] = None
      /\ \A a \in Bots \ {b} : staged'[a] = staged[a]
  BY <1>1, Types
<1>4. EntriesSound' /\ ItemsSound' /\ RegisteredLives'
  BY <1>1 DEF RInv, EntriesSound, ItemsSound, ItemSound, RegisteredLives, Current, registry
<1>5. JobsSound'
  <2>1. "nudge" \in Places
    BY DEF Places
  <2>2. PICK j \in Job : job' = [job EXCEPT ![t] = j] /\ j.at = "nudge"
    BY <1>1, <2>1, GoIs
  <2>3. JobSound(j)'
    BY <2>2 DEF JobSound
  <2>4. \A a \in Bots \ {b} :
          /\ staged'[a] = staged[a] /\ generations'[a] = generations[a]
          /\ newest'[a] = newest[a] /\ registered'[a] = registered[a]
          /\ a \in retiring => a \in retiring'
    BY <1>1, <1>3 DEF registry
  <2> QED
    BY <1>0, <1>1, <2>2, <2>3, <2>4, OwnerFrame
<1>6. ThreadSound'
  <2>1. CASE item.bot # b
    BY <1>1, <1>3, <2>1, Types DEF RInv, ThreadSound, Current, registry
  <2>2. CASE item.bot = b
    BY <1>1, <1>2, <1>3, <2>2 DEF RInv, ThreadSound, Current, registry, None
  <2> QED
    BY <2>1, <2>2
<1>7. ServedSound'
  BY <1>1, <1>2, <1>3 DEF RInv, ServedSound, Served, Starting, registry
<1>8. NeverForgotten' /\ CountSound' /\ FatalEarned'
  BY <1>1 DEF RInv, NeverForgotten, CountSound, Accounting, FatalEarned, Current, registry
<1> QED
  BY <1>4, <1>5, <1>6, <1>7, <1>8 DEF RInv

LEMMA RetireServed ==
  ASSUME IInv, RInv, NEW t \in Admins, Retire(t)
  PROVE  RInv'
<1>0. PICK b \in Bots : b = job[t].bot
  BY Types
<1>1. /\ job[t].kind # "none"
      /\ UNCHANGED << registry, heap, due, step, item, bots, failed, staged, generations, streak >>
  BY DEF Retire, At, schedVars, thread, managed
<1>2. CASE Go(t, "stopped") /\ UNCHANGED managed
  <2>1. "stopped" \in Places \ Watched /\ UNCHANGED rest
    BY <1>1, <1>2 DEF Places, Watched, rest, managed
  <2> QED
    BY <1>1, <1>2, <2>1, GoFree
<1>3. CASE /\ bots[b] # None \/ failed[b] # None
           /\ retiring' = retiring \cup {b}
           /\ job' = [job EXCEPT ![t].gen = generations[b], ![t].at = "unschedule"]
  <2>1. PICK j : /\ j.gen = generations[b] /\ j.at = "unschedule" /\ j.bot = b
                 /\ job' = [job EXCEPT ![t] = j]
    <3> DEFINE k == [job[t] EXCEPT !.gen = generations[b], !.at = "unschedule"]
    <3>1. k.gen = generations[b] /\ k.at = "unschedule" /\ k.bot = b
      BY <1>0, Types DEF Job
    <3>2. job' = [job EXCEPT ![t] = k]
      BY <1>3
    <3> QED
      BY <3>1, <3>2
  <2>2. \A a \in Bots \ {b} :
          /\ staged'[a] = staged[a] /\ generations'[a] = generations[a]
          /\ newest'[a] = newest[a] /\ registered'[a] = registered[a]
          /\ a \in retiring => a \in retiring'
    BY <1>1, <1>3 DEF registry
  <2>3. JobSound(j)'
    <3>1. generations[b] # 0
      BY <1>3 DEF IInv, TypeOK, ManagedTypeOK, None
    <3> QED
      BY <1>1, <1>3, <2>1, <3>1 DEF JobSound
  <2>4. JobsSound'
    BY <1>0, <1>1, <2>1, <2>2, <2>3, OwnerFrame
  <2>5. EntriesSound' /\ ItemsSound' /\ RegisteredLives'
    BY <1>1 DEF RInv, EntriesSound, ItemsSound, ItemSound, RegisteredLives, Current, registry
  <2>6. ThreadSound' /\ FatalEarned'
    BY <1>1 DEF RInv, ThreadSound, FatalEarned, Current, registry
  <2>7. ServedSound'
    BY <1>1, <1>3 DEF RInv, ServedSound, Served, Starting, registry
  <2>8. NeverForgotten' /\ CountSound'
    BY <1>1 DEF RInv, NeverForgotten, CountSound, Accounting, Current, registry
  <2> QED
    BY <2>4, <2>5, <2>6, <2>7, <2>8 DEF RInv
<1> QED
  BY <1>0, <1>2, <1>3 DEF Retire

\* What a removal does to the registrations, whoever makes it.
LEMMA Removed ==
  ASSUME IInv, RInv, NEW b \in Bots, NEW g, RemoveEntry(b, g), newest[b] = g,
         UNCHANGED heap
  PROVE  /\ registered'[b] = None /\ newest' = newest /\ gens'[b] = gens[b] + 1
         /\ \A a \in Bots \ {b} : /\ registered'[a] = registered[a] /\ gens'[a] = gens[a]
                                 /\ failures'[a] = failures[a]
         /\ EntriesSound'
         /\ \A i \in Item : ItemSound(i) => ItemSound(i)'
         /\ \A x : x.bot \in Bots \ {b} => Current(x)' = Current(x)
<1>1. /\ registered'[b] = None /\ newest' = newest /\ gens'[b] = gens[b] + 1
      /\ \A a \in Bots \ {b} : /\ registered'[a] = registered[a] /\ gens'[a] = gens[a]
                              /\ failures'[a] = failures[a]
  BY Types DEF RemoveEntry
<1>2. \A x : x.bot \in Bots \ {b} => Current(x)' = Current(x)
  BY <1>1 DEF Current
<1>3. gens[b] \in Nat
  BY Types
<1>4. EntriesSound'
  <2>1. ASSUME NEW e \in DOMAIN heap
        PROVE  e.gen <= gens'[e.bot] /\ (Current(e)' => registered'[e.bot] # None)
    <3>1. e.bot \in Bots /\ e.gen \in Nat /\ e.gen <= gens[e.bot]
          /\ (Current(e) => registered[e.bot] # None)
      BY Types DEF RInv, EntriesSound
    <3>2. CASE e.bot = b
      BY <1>1, <1>3, <3>1, <3>2 DEF Current
    <3>3. CASE e.bot # b
      BY <1>1, <1>2, <3>1, <3>3
    <3> QED
      BY <3>2, <3>3
  <2> QED
    BY <2>1 DEF EntriesSound
<1>5. ASSUME NEW i \in Item, ItemSound(i)
      PROVE  ItemSound(i)'
  <2>1. i.bot \in Bots /\ i.gen \in Nat
    BY DEF Item
  <2>2. CASE i.bot = b
    BY <1>1, <1>3, <1>5, <2>1, <2>2 DEF ItemSound, Current
  <2>3. CASE i.bot # b
    BY <1>1, <1>2, <1>5, <2>1, <2>3 DEF ItemSound
  <2> QED
    BY <2>2, <2>3
<1> QED
  BY <1>1, <1>2, <1>4, <1>5

LEMMA UnscheduleServed ==
  ASSUME IInv, RInv, NEW t \in Admins, Unschedule(t)
  PROVE  RInv'
<1>0. PICK b \in Bots : b = job[t].bot
  BY Types
<1>1. /\ job[t].kind # "none" /\ job[t].at = "unschedule"
      /\ RemoveEntry(b, job[t].gen) /\ Go(t, "drain")
      /\ UNCHANGED << heap, due, step, item, bots, failed, staged, retiring, generations, streak >>
  BY <1>0 DEF Unschedule, At, thread, managed
<1>2. job[t].gen = generations[b] /\ job[t].gen # 0 /\ b \in retiring
  BY <1>0, <1>1 DEF RInv, JobsSound, JobSound
<1>3. PICK j \in Job :
        /\ job' = [job EXCEPT ![t] = j]
        /\ j.at = "drain" /\ j.kind = job[t].kind /\ j.bot = job[t].bot /\ j.gen = job[t].gen
  <2>1. "drain" \in Places
    BY DEF Places
  <2> QED
    BY <1>1, <2>1, GoIs
<1>4. CASE newest[b] # job[t].gen
  <2>1. UNCHANGED registry
    BY <1>1, <1>4 DEF RemoveEntry
  <2>2. registered[b] = None
    BY <1>2, <1>4 DEF RInv, RegisteredLives, IInv, TypeOK, ManagedTypeOK
  <2>3. JobSound(j)'
    BY <1>0, <1>1, <1>2, <1>3, <2>1, <2>2 DEF JobSound, registry
  <2>4. \A a \in Bots \ {b} :
          /\ staged'[a] = staged[a] /\ generations'[a] = generations[a]
          /\ newest'[a] = newest[a] /\ registered'[a] = registered[a]
          /\ a \in retiring => a \in retiring'
    BY <1>1, <2>1 DEF registry
  <2>5. JobsSound'
    BY <1>0, <1>1, <1>3, <2>3, <2>4, OwnerFrame
  <2> QED
    BY <1>1, <2>1, <2>5, RestFrame
<1>5. CASE newest[b] = job[t].gen
  <2>1. /\ registered'[b] = None /\ newest' = newest /\ gens'[b] = gens[b] + 1
        /\ \A a \in Bots \ {b} : /\ registered'[a] = registered[a] /\ gens'[a] = gens[a]
                                /\ failures'[a] = failures[a]
        /\ EntriesSound'
        /\ \A i \in Item : ItemSound(i) => ItemSound(i)'
        /\ \A x : x.bot \in Bots \ {b} => Current(x)' = Current(x)
    BY <1>1, <1>5, Removed
  <2>2. ItemsSound'
    BY <1>1, <2>1, Types DEF RInv, ItemsSound
  <2>3. RegisteredLives'
    BY <1>1, <2>1 DEF RInv, RegisteredLives
  <2>4. JobsSound'
    <3>1. JobSound(j)'
      BY <1>0, <1>1, <1>2, <1>3, <2>1 DEF JobSound
    <3>2. \A a \in Bots \ {b} :
            /\ staged'[a] = staged[a] /\ generations'[a] = generations[a]
            /\ newest'[a] = newest[a] /\ registered'[a] = registered[a]
            /\ a \in retiring => a \in retiring'
      BY <1>1, <2>1
    <3> QED
      BY <1>0, <1>1, <1>3, <3>1, <3>2, OwnerFrame
  <2>5. ThreadSound'
    <3>1. step \in {"fatal", "recording", "committing", "releasing"} => ~ Current(item)'
      <4>1. CASE item.bot = b
        <5>1. step # "idle" => item.gen <= gens[b]
          BY <4>1 DEF RInv, ItemsSound, ItemSound
        <5> QED
          BY <1>1, <2>1, <4>1, <5>1, Types DEF Current
      <4>2. CASE item.bot # b
        BY <1>1, <2>1, <4>2, Types DEF RInv, ThreadSound, Current
      <4> QED
        BY <4>1, <4>2
    <3> QED
      BY <1>1, <3>1 DEF RInv, ThreadSound
  <2>6. ServedSound'
    BY <1>1, <1>2, <2>1 DEF RInv, ServedSound, Served, Starting
  <2>7. NeverForgotten'
    <3>1. ASSUME NEW a \in Bots \ {b}
          PROVE  InHeap(a)' = InHeap(a) /\ InDue(a)' = InDue(a) /\ ItemInHand(a)' = ItemInHand(a)
      BY <1>1, <2>1 DEF InHeap, InDue, ItemInHand
    <3> QED
      BY <2>1, <3>1, NeverForgottenIs DEF RInv, NeverForgotten, InHeap, InDue, ItemInHand
  <2>8. CountSound'
    BY <1>1, <2>1 DEF RInv, CountSound, Accounting
  <2>9. FatalEarned'
    BY <1>1 DEF RInv, FatalEarned
  <2> QED
    BY <2>1, <2>2, <2>3, <2>4, <2>5, <2>6, <2>7, <2>8, <2>9 DEF RInv
<1> QED
  BY <1>4, <1>5

LEMMA FinalizeServed ==
  ASSUME IInv, RInv, NEW t \in Admins, Finalize(t)
  PROVE  RInv'
<1>0. PICK b \in Bots : b = job[t].bot
  BY Types
<1>1. /\ job[t].kind # "none" /\ job[t].at = "drain" /\ inflight[b] = 0
      /\ Go(t, "stopped")
      /\ UNCHANGED << registry, heap, due, step, item, generations, streak >>
  BY <1>0 DEF Finalize, At, Drained, schedVars, thread
<1>2. job[t].gen = generations[b] /\ generations[b] # None /\ registered[b] = None
  BY <1>0, <1>1 DEF None, RInv, JobsSound, JobSound
<1>3. /\ bots' = [bots EXCEPT ![b] = None]
      /\ failed' = [failed EXCEPT ![b] = None]
      /\ staged' = [staged EXCEPT ![b] = None]
      /\ retiring' = retiring \ {b}
  BY <1>0, <1>2 DEF Finalize
<1>4. /\ bots'[b] = None /\ failed'[b] = None /\ staged'[b] = None
      /\ \A a \in Bots \ {b} : /\ bots'[a] = bots[a] /\ failed'[a] = failed[a]
                              /\ staged'[a] = staged[a]
  BY <1>3, Types
<1>5. step # "sweeping" \/ item.bot # b
  BY <1>1, DrainedIsIdle DEF Working, Sweeping
<1>6. EntriesSound' /\ ItemsSound'
  BY <1>1 DEF RInv, EntriesSound, ItemsSound, ItemSound, Current, registry
<1>7. RegisteredLives'
  BY <1>1, <1>2, <1>4 DEF RInv, RegisteredLives, registry
<1>8. JobsSound'
  <2>1. "stopped" \in Places
    BY DEF Places
  <2>2. PICK j \in Job : job' = [job EXCEPT ![t] = j] /\ j.at = "stopped"
    BY <1>1, <2>1, GoIs
  <2>3. JobSound(j)'
    BY <2>2 DEF JobSound
  <2>4. \A a \in Bots \ {b} :
          /\ staged'[a] = staged[a] /\ generations'[a] = generations[a]
          /\ newest'[a] = newest[a] /\ registered'[a] = registered[a]
          /\ a \in retiring => a \in retiring'
    BY <1>1, <1>3, <1>4 DEF registry
  <2> QED
    BY <1>0, <1>1, <2>2, <2>3, <2>4, OwnerFrame
<1>9. ThreadSound'
  <2>1. CASE item.bot # b
    BY <1>1, <1>4, <2>1, Types DEF RInv, ThreadSound, Current, registry
  <2>2. CASE item.bot = b
    BY <1>1, <1>2, <1>4, <1>5, <2>2 DEF RInv, ThreadSound, Current, registry
  <2> QED
    BY <2>1, <2>2
<1>10. ServedSound'
  BY <1>1, <1>3, <1>4 DEF RInv, ServedSound, Served, Starting, registry
<1>11. NeverForgotten' /\ CountSound'
  BY <1>1 DEF RInv, NeverForgotten, CountSound, Accounting, Current, registry
<1>12. FatalEarned'
  BY <1>1, <1>4 DEF RInv, FatalEarned
<1> QED
  BY <1>6, <1>7, <1>8, <1>9, <1>10, <1>11, <1>12 DEF RInv

-----------------------------------------------------------------------------
(***************************************************************************)
(* The scheduler's thread.                                                 *)
(***************************************************************************)
LEMMA FireDueServed ==
  ASSUME IInv, RInv, SweepUnadmitted, FireDue
  PROVE  RInv'
<1>1. /\ step = "idle" /\ due = EmptyBag
      /\ UNCHANGED << registry, step, item, bots, failed, staged, retiring, generations, streak,
                      job >>
  BY DEF FireDue, SweepUnadmitted, managed
<1>2. \A x : Current(x)' = Current(x)
  BY <1>1 DEF Current, registry
<1>3. DOMAIN heap' = DOMAIN heap \ DueEntries
  BY DEF FireDue
<1>4. DOMAIN due' = {Captured(e) : e \in {x \in DueEntries : Current(x)}}
  BY DEF FireDue
<1>5. EntriesSound'
  BY <1>1, <1>2, <1>3 DEF RInv, EntriesSound, registry
<1>6. ItemsSound'
  <2>1. ASSUME NEW e \in DueEntries, Current(e)
        PROVE  ItemSound(Captured(e))
    <3>1. e \in DOMAIN heap /\ e.gen <= gens[e.bot] /\ registered[e.bot] # None
      BY <2>1 DEF DueEntries, RInv, EntriesSound
    <3>2. newest[e.bot] \in Nat
      BY <3>1, Types
    <3> QED
      BY <2>1, <3>1, <3>2 DEF Captured, ItemSound, Current
  <2>2. ASSUME NEW i \in DOMAIN due'
        PROVE  ItemSound(i)'
    <3>1. ItemSound(i)
      BY <1>4, <2>1
    <3> QED
      BY <1>1, <1>2, <3>1 DEF ItemSound, registry
  <2> QED
    BY <1>1, <2>2 DEF ItemsSound
<1>7. NeverForgotten'
  <2>1. ASSUME NEW b \in Bots, InHeap(b)
        PROVE  InHeap(b)' \/ InDue(b)'
    <3>1. PICK e \in DOMAIN heap : e.bot = b /\ Current(e)
      BY <2>1 DEF InHeap
    <3>2. CASE e \in DueEntries
      <4>1. Captured(e) \in DOMAIN due' /\ Captured(e).bot = b /\ Captured(e).gen = e.gen
        BY <1>4, <3>1, <3>2 DEF Captured
      <4>2. \A i \in DOMAIN due' : i.bot = b /\ i.gen = e.gen => InDue(b)'
        BY <1>1, <3>1 DEF InDue, Current, registry
      <4> QED
        BY <4>1, <4>2
    <3>3. CASE e \notin DueEntries
      BY <1>2, <1>3, <3>1, <3>3 DEF InHeap
    <3> QED
      BY <3>2, <3>3
  <2>2. \A b \in Bots : ~ InDue(b) /\ ~ ItemInHand(b)
    BY <1>1, NoneDue DEF InDue, ItemInHand
  <2> QED
    BY <1>1, <2>1, <2>2, NeverForgottenIs DEF RInv, NeverForgotten, InHeap, InDue, ItemInHand, registry
<1>8. JobsSound'
  BY <1>1, JobsFrame DEF registry
<1>9. RegisteredLives' /\ ThreadSound' /\ FatalEarned'
  BY <1>1 DEF RInv, RegisteredLives, ThreadSound, FatalEarned, Current, registry
<1>10. ServedSound' /\ CountSound'
  BY <1>1 DEF RInv, ServedSound, Served, Starting, CountSound, Accounting, Current, registry
<1> QED
  BY <1>5, <1>6, <1>7, <1>8, <1>9, <1>10 DEF RInv

LEMMA NextItemServed ==
  ASSUME IInv, RInv, SweepUnadmitted, NextItem
  PROVE  RInv'
<1>0. PICK i \in DOMAIN due :
        /\ due' = due (-) SetToBag({i}) /\ item' = i
        /\ step' \in {"admitting", "refused"}
  BY DEF NextItem
<1>1. /\ step = "idle"
      /\ UNCHANGED << registry, heap, bots, failed, staged, retiring, generations, streak, job >>
  BY DEF NextItem, SweepUnadmitted, managed
<1>2. \A x : Current(x)' = Current(x)
  BY <1>1 DEF Current, registry
<1>3. DOMAIN due' \subseteq DOMAIN due /\ DOMAIN due \subseteq DOMAIN due' \cup {i}
  <2>1. IsBag(due, Item)
    BY DEF IInv, TypeOK, SchedTypeOK
  <2> QED
    BY <1>0, <2>1 DEF IsBag, (-), SetToBag
<1>4. EntriesSound' /\ RegisteredLives' /\ FatalEarned'
  BY <1>1 DEF RInv, EntriesSound, RegisteredLives, FatalEarned, Current, registry
<1>5. ItemsSound'
  BY <1>0, <1>1, <1>2, <1>3 DEF RInv, ItemsSound, ItemSound, registry
<1>6. JobsSound'
  BY <1>1, JobsFrame DEF registry
<1>7. ThreadSound' /\ ServedSound'
  BY <1>0, <1>1 DEF RInv, ThreadSound, ServedSound, Served, Starting, registry
<1>8. NeverForgotten'
  <2>1. ASSUME NEW b \in Bots
        PROVE  /\ InHeap(b)' = InHeap(b)
               /\ InDue(b) => InDue(b)' \/ ItemInHand(b)'
               /\ ~ ItemInHand(b)
    BY <1>0, <1>1, <1>2, <1>3 DEF InHeap, InDue, ItemInHand
  <2> QED
    BY <1>1, <2>1, NeverForgottenIs DEF RInv, NeverForgotten, InHeap, InDue, ItemInHand, registry
<1>9. CountSound'
  BY <1>0, <1>1 DEF RInv, CountSound, Accounting, registry
<1> QED
  BY <1>4, <1>5, <1>6, <1>7, <1>8, <1>9 DEF RInv

\* The thread puts its entry back, if it is still current, and is done.
LEMMA PutBackServed ==
  ASSUME IInv, RInv, NEW d, PushItem(d), Finished, step \in {"refused", "requeue"},
         UNCHANGED << registry, job, bots, failed, staged, retiring, generations, streak >>
  PROVE  RInv'
<1>0. PICK b \in Bots : b = item.bot
  BY Types
<1>1. step' = "idle" /\ UNCHANGED due
  BY DEF Finished
<1>2. EntriesSound' /\ (\A a : InHeap(a) => InHeap(a)') /\ (ItemInHand(b) => InHeap(b)')
  <2>1. CASE Current(item)
    <3>1. registered[b] # None /\ item.gen = gens[b] /\ Push(b, gens[b], d)
      BY <1>0, <2>1 DEF RInv, ItemsSound, ItemSound, Current, PushItem
    <3> QED
      BY <3>1, Pushed DEF registry
  <2>2. CASE ~ Current(item)
    <3>1. UNCHANGED heap
      BY <2>2 DEF PushItem
    <3> QED
      BY <2>2, <3>1 DEF RInv, EntriesSound, InHeap, ItemInHand, Current, registry
  <2> QED
    BY <2>1, <2>2
<1>3. NeverForgotten'
  <2>1. \A a : InDue(a)' = InDue(a)
    BY <1>1 DEF InDue, Current, registry
  <2>2. \A a \in Bots \ {b} : ~ ItemInHand(a)
    BY <1>0 DEF ItemInHand
  <2> QED
    BY <1>2, <2>1, <2>2, NeverForgottenIs, SMTT(30)
    DEF RInv, NeverForgotten, InHeap, InDue, ItemInHand, registry
<1>4. JobsSound'
  BY JobsFrame DEF registry
<1>5. ItemsSound' /\ RegisteredLives' /\ FatalEarned'
  BY <1>1 DEF RInv, ItemsSound, ItemSound, RegisteredLives, FatalEarned, Current, registry
<1>6. ThreadSound' /\ ServedSound'
  BY <1>1 DEF RInv, ThreadSound, ServedSound, Served, Starting, registry
<1>7. CountSound'
  BY <1>1 DEF RInv, CountSound, Accounting, registry
<1> QED
  BY <1>2, <1>3, <1>4, <1>5, <1>6, <1>7 DEF RInv

LEMMA CountSuccessServed ==
  ASSUME IInv, RInv, SweepUnadmitted, CountSuccess
  PROVE  RInv'
<1>0. PICK b \in Bots : b = item.bot
  BY Types
<1>1. /\ step = "succeeded" /\ step' = "requeue"
      /\ UNCHANGED << registered, newest, gens, heap, due, item, bots, failed, staged, retiring,
                      generations, streak, job >>
  BY DEF CountSuccess, SweepUnadmitted, managed
<1>2. EntriesSound' /\ ItemsSound' /\ RegisteredLives' /\ FatalEarned'
  BY <1>1 DEF RInv, EntriesSound, ItemsSound, ItemSound, RegisteredLives, FatalEarned, Current
<1>3. JobsSound'
  BY <1>1, JobsFrame
<1>4. ThreadSound' /\ ServedSound'
  BY <1>1 DEF RInv, ThreadSound, ServedSound, Served, Starting
<1>5. NeverForgotten'
  BY <1>1 DEF RInv, NeverForgotten, Current
<1>6. CountSound'
  <2>1. /\ \A a \in Bots \ {b} : failures'[a] = failures[a]
        /\ IF Current(item) THEN failures'[b] = 0 ELSE failures'[b] = failures[b]
    BY <1>0, Types DEF CountSuccess
  <2>2. \A a \in Bots : streak[a] \in Nat
    BY Types
  <2> QED
    BY <1>0, <1>1, <2>1, <2>2 DEF RInv, CountSound, Accounting, Current
<1> QED
  BY <1>2, <1>3, <1>4, <1>5, <1>6 DEF RInv

LEMMA DropFailureServed ==
  ASSUME IInv, RInv, SweepUnadmitted, DropFailure
  PROVE  RInv'
<1>1. /\ step = "failed" /\ ~ Current(item) /\ step' = "idle"
      /\ UNCHANGED << registry, heap, due, bots, failed, staged, retiring, generations, streak, job >>
  BY DEF DropFailure, Finished, SweepUnadmitted, managed
<1>2. EntriesSound' /\ ItemsSound' /\ RegisteredLives' /\ FatalEarned'
  BY <1>1 DEF RInv, EntriesSound, ItemsSound, ItemSound, RegisteredLives, FatalEarned, Current,
              registry
<1>3. JobsSound'
  BY <1>1, JobsFrame DEF registry
<1>4. ThreadSound' /\ ServedSound'
  BY <1>1 DEF RInv, ThreadSound, ServedSound, Served, Starting, registry
<1>5. NeverForgotten'
  BY <1>1 DEF RInv, NeverForgotten, Current, registry
<1>6. CountSound'
  BY <1>1 DEF RInv, CountSound, Accounting, Current, registry
<1> QED
  BY <1>2, <1>3, <1>4, <1>5, <1>6 DEF RInv

LEMMA CountFailureServed ==
  ASSUME IInv, RInv, SweepUnadmitted, CountFailure
  PROVE  RInv'
<1>0. PICK b \in Bots : b = item.bot
  BY Types
<1>1. /\ step = "failed" /\ Current(item)
      /\ failures' = [failures EXCEPT ![b] = @ + 1]
      /\ step' = IF failures'[b] >= MaxFailures THEN "removing" ELSE "requeue"
      /\ UNCHANGED << registered, newest, gens, heap, due, item, bots, failed, staged, retiring,
                      generations, streak, job >>
  BY <1>0 DEF CountFailure, SweepUnadmitted, managed
<1>2. EntriesSound' /\ ItemsSound' /\ RegisteredLives' /\ FatalEarned'
  BY <1>1 DEF RInv, EntriesSound, ItemsSound, ItemSound, RegisteredLives, FatalEarned, Current
<1>3. JobsSound'
  BY <1>1, JobsFrame
<1>4. /\ failures'[b] = failures[b] + 1 /\ failures[b] \in Nat
      /\ \A a \in Bots \ {b} : failures'[a] = failures[a]
      /\ streak[b] \in 0..MaxFailures /\ MaxFailures \in Nat \ {0}
  BY <1>1, Types, BotSchedulerAssumption
<1>5. registered[b] # None
  BY <1>0, <1>1 DEF RInv, ItemsSound, ItemSound
<1>6. failures[b] < streak[b] \/ streak[b] = MaxFailures
  BY <1>0, <1>1, <1>5 DEF RInv, CountSound, Accounting
<1>7. ThreadSound'
  <2>1. step' = "removing" => streak[b] = MaxFailures
    BY <1>1, <1>4, <1>6
  <2> QED
    BY <1>0, <1>1, <2>1 DEF RInv, ThreadSound, Current
<1>8. ServedSound'
  BY <1>1 DEF RInv, ServedSound, Served, Starting
<1>9. NeverForgotten'
  BY <1>1 DEF RInv, NeverForgotten, Current
<1>10. CountSound'
  <2>1. step' = "requeue" => failures'[b] <= streak[b]
    BY <1>1, <1>4, <1>6
  <2>2. Accounting(b)' \/ step' = "requeue"
    BY <1>0, <1>1 DEF Accounting, Current
  <2> QED
    BY <1>0, <1>1, <1>4, <2>1, <2>2 DEF RInv, CountSound, Accounting, Current
<1> QED
  BY <1>2, <1>3, <1>7, <1>8, <1>9, <1>10 DEF RInv

\* The thread removes the registration its entry was captured from, or none.
LEMMA RemoveFailingServed ==
  ASSUME IInv, RInv, SweepUnadmitted, RemoveFailing
  PROVE  RInv'
<1>0. PICK b \in Bots : b = item.bot
  BY Types
<1>1. /\ step = "removing" /\ step' = "fatal" /\ RemoveEntry(b, item.mgrGen)
      /\ UNCHANGED << heap, due, item, bots, failed, staged, retiring, generations, streak, job >>
  BY <1>0 DEF RemoveFailing, SweepUnadmitted, managed
<1>2. CASE newest[b] # item.mgrGen
  <2>1. UNCHANGED registry
    BY <1>1, <1>2 DEF RemoveEntry
  <2>2. ~ Current(item)
    BY <1>0, <1>1, <1>2 DEF RInv, ItemsSound, ItemSound
  <2>3. EntriesSound' /\ ItemsSound' /\ RegisteredLives' /\ FatalEarned'
    BY <1>1, <2>1
    DEF RInv, EntriesSound, ItemsSound, ItemSound, RegisteredLives, FatalEarned, Current, registry
  <2>4. JobsSound'
    BY <1>1, <2>1, JobsFrame DEF registry
  <2>5. ThreadSound'
    BY <1>1, <2>1, <2>2 DEF RInv, ThreadSound, Current, registry
  <2>6. ServedSound' /\ NeverForgotten'
    BY <1>1, <2>1 DEF RInv, ServedSound, Served, Starting, NeverForgotten, Current, registry
  <2>7. CountSound'
    BY <1>1, <2>1, <2>2 DEF RInv, CountSound, Accounting, Current, registry
  <2> QED
    BY <2>3, <2>4, <2>5, <2>6, <2>7 DEF RInv
<1>3. CASE newest[b] = item.mgrGen
  <2>1. /\ registered'[b] = None /\ newest' = newest /\ gens'[b] = gens[b] + 1
        /\ \A a \in Bots \ {b} : /\ registered'[a] = registered[a] /\ gens'[a] = gens[a]
                                /\ failures'[a] = failures[a]
        /\ EntriesSound'
        /\ \A i \in Item : ItemSound(i) => ItemSound(i)'
        /\ \A x : x.bot \in Bots \ {b} => Current(x)' = Current(x)
    BY <1>1, <1>3, Removed
  <2>2. ItemsSound'
    BY <1>1, <2>1, Types DEF RInv, ItemsSound
  <2>3. RegisteredLives'
    BY <1>1, <2>1 DEF RInv, RegisteredLives
  <2>4. JobsSound'
    <3>1. ASSUME NEW s \in Admins, job[s].bot = b, job[s].kind # "none", job[s].at = "open"
          PROVE  FALSE
      <4>1. staged[b] = generations[b] /\ registered[b] = generations[b] /\ generations[b] # None
        BY <3>1 DEF RInv, JobsSound, JobSound, None
      <4>2. item.mgrGen = generations[b]
        BY <1>3, <4>1 DEF RInv, RegisteredLives
      <4> QED
        BY <1>0, <1>1, <4>1, <4>2 DEF RInv, ThreadSound
    <3>2. ASSUME NEW s \in Admins
          PROVE  JobSound(job[s])'
      <4>1. CASE job[s].bot = b
        BY <1>1, <2>1, <3>1, <4>1 DEF RInv, JobsSound, JobSound
      <4>2. CASE job[s].bot # b
        BY <1>1, <2>1, <4>2, Types DEF RInv, JobsSound, JobSound
      <4> QED
        BY <4>1, <4>2
    <3> QED
      BY <3>2 DEF JobsSound
  <2>5. ThreadSound'
    <3>1. item.gen <= gens[b] /\ item.gen \in Nat /\ gens[b] \in Nat
      BY <1>0, <1>1, Types DEF RInv, ItemsSound, ItemSound
    <3>2. ~ Current(item)'
      BY <1>0, <1>1, <2>1, <3>1 DEF Current
    <3> QED
      BY <1>1, <3>2 DEF RInv, ThreadSound
  <2>6. ServedSound'
    <3>1. ASSUME NEW a \in Bots, Served(a)'
          PROVE  \/ registered'[a] = bots'[a]
                 \/ step' = "fatal" /\ item'.bot = a /\ item'.mgrGen = generations'[a]
      <4>1. Served(a) /\ registered[a] = bots[a] /\ bots[a] # None
        BY <1>1, <3>1 DEF RInv, ServedSound, Served, Starting
      <4>2. CASE a = b
        <5>1. bots[b] = generations[b]
          BY <4>1, <4>2 DEF IInv, TypeOK, ManagedTypeOK
        <5>2. item.mgrGen = generations[b]
          BY <1>3, <4>1, <4>2, <5>1 DEF RInv, RegisteredLives
        <5> QED
          BY <1>0, <1>1, <4>2, <5>2
      <4>3. CASE a # b
        BY <1>1, <2>1, <4>1, <4>3
      <4> QED
        BY <4>2, <4>3
    <3> QED
      BY <3>1 DEF ServedSound
  <2>7. NeverForgotten'
    <3>1. ASSUME NEW a \in Bots \ {b}
          PROVE  InHeap(a)' = InHeap(a) /\ InDue(a)' = InDue(a) /\ ~ ItemInHand(a)
      BY <1>0, <1>1, <2>1 DEF InHeap, InDue, ItemInHand
    <3> QED
      BY <2>1, <3>1, NeverForgottenIs DEF RInv, NeverForgotten, InHeap, InDue, ItemInHand
  <2>8. CountSound'
    BY <1>0, <1>1, <2>1 DEF RInv, CountSound, Accounting
  <2>9. FatalEarned'
    BY <1>1 DEF RInv, FatalEarned
  <2> QED
    BY <2>1, <2>2, <2>3, <2>4, <2>5, <2>6, <2>7, <2>8, <2>9 DEF RInv
<1> QED
  BY <1>2, <1>3

\* An admitted sweep is one of the newest generation; if that is registered,
\* the entry is current.
LEMMA EnterServed ==
  ASSUME IInv, RInv, Enter
  PROVE  RInv'
<1>0. PICK b \in Bots : b = item.bot
  BY Types
<1>1. /\ step = "admitting" /\ step' \in {"sweeping", "refused"}
      /\ step' = "sweeping" => AdmitsSweep(item)
      /\ UNCHANGED << registry, heap, due, item, bots, failed, staged, retiring, generations,
                      streak, job >>
  BY DEF Enter, EnterSweep, managed
<1>2. EntriesSound' /\ ItemsSound' /\ RegisteredLives' /\ FatalEarned'
  BY <1>1 DEF RInv, EntriesSound, ItemsSound, ItemSound, RegisteredLives, FatalEarned, Current,
              registry
<1>3. JobsSound'
  BY <1>1, JobsFrame DEF registry
<1>4. ThreadSound'
  BY <1>0, <1>1 DEF ThreadSound, AdmitsSweep, Admits, Starting, registry
<1>5. ServedSound' /\ NeverForgotten'
  BY <1>1 DEF RInv, ServedSound, Served, Starting, NeverForgotten, Current, registry
<1>6. CountSound'
  BY <1>1 DEF RInv, CountSound, Accounting, Current, registry
<1> QED
  BY <1>2, <1>3, <1>4, <1>5, <1>6 DEF RInv

LEMMA SweepServed ==
  ASSUME IInv, RInv, Sweep
  PROVE  RInv'
<1>0. PICK b \in Bots : b = item.bot
  BY Types
<1>1. /\ step = "sweeping"
      /\ UNCHANGED << registry, heap, due, item, bots, failed, staged, retiring, generations, job >>
      /\ \/ step' = "succeeded" /\ streak' = [streak EXCEPT ![b] = 0]
         \/ step' = "failed" /\ streak' = [streak EXCEPT ![b] =
                                              IF @ < MaxFailures THEN @ + 1 ELSE @]
  BY <1>0 DEF Sweep, SweepSucceeds, SweepFails, managed
<1>2. /\ item.mgrGen = generations[b] /\ bots[b] # None /\ staged[b] # generations[b]
      /\ failed[b] = None
  BY <1>0, <1>1 DEF RInv, ThreadSound, IInv, TypeOK, ManagedTypeOK
<1>3. registered[b] # None => Current(item)
  <2>1. ItemSound(item)
    BY <1>1 DEF RInv, ItemsSound
  <2>2. registered[b] # None => newest[b] = generations[b]
    BY <1>2 DEF RInv, RegisteredLives, IInv, TypeOK, ManagedTypeOK
  <2> QED
    BY <1>0, <1>2, <2>1, <2>2 DEF ItemSound
<1>4. /\ \A a \in Bots \ {b} : streak'[a] = streak[a]
      /\ step' = "failed" =>
           streak'[b] = IF streak[b] < MaxFailures THEN streak[b] + 1 ELSE streak[b]
      /\ streak[b] \in 0..MaxFailures /\ MaxFailures \in Nat \ {0} /\ failures[b] \in Nat
  BY <1>1, Types, BotSchedulerAssumption
<1>5. EntriesSound' /\ ItemsSound' /\ RegisteredLives'
  BY <1>1 DEF RInv, EntriesSound, ItemsSound, ItemSound, RegisteredLives, Current, registry
<1>6. JobsSound'
  BY <1>1, JobsFrame DEF registry
<1>7. ThreadSound'
  BY <1>0, <1>1, <1>2 DEF ThreadSound
<1>8. ServedSound' /\ NeverForgotten'
  BY <1>1 DEF RInv, ServedSound, Served, Starting, NeverForgotten, Current, registry
<1>9. CountSound'
  <2>1. ASSUME registered[b] # None, step' = "failed"
        PROVE  failures[b] < streak'[b] \/ streak'[b] = MaxFailures
    <3>1. failures[b] <= streak[b]
      BY <1>0, <1>1, <2>1 DEF RInv, CountSound, Accounting
    <3> QED
      BY <1>4, <2>1, <3>1
  <2>2. ASSUME registered[b] # None, step' = "succeeded"
        PROVE  Accounting(b)'
    BY <1>0, <1>1, <1>3, <2>2 DEF Accounting, Current, registry
  <2>3. ASSUME NEW a \in Bots \ {b}, registered[a] # None
        PROVE  failures[a] <= streak'[a]
    BY <1>0, <1>1, <1>4, <2>3 DEF RInv, CountSound, Accounting
  <2> QED
    BY <1>0, <1>1, <1>3, <2>1, <2>2, <2>3 DEF CountSound, Accounting, Current, registry
<1>10. FatalEarned'
  BY <1>1, <1>2, <1>4 DEF RInv, FatalEarned
<1> QED
  BY <1>5, <1>6, <1>7, <1>8, <1>9, <1>10 DEF RInv

LEMMA OnFatalErrorServed ==
  ASSUME IInv, RInv, OnFatalError
  PROVE  RInv'
<1>0. PICK b \in Bots : b = item.bot
  BY Types
<1>1. /\ step = "fatal"
      /\ UNCHANGED << registry, heap, due, staged, retiring, generations, streak, job >>
  BY DEF OnFatalError, Finished
<1>2. ~ Current(item)
  BY <1>1 DEF RInv, ThreadSound
<1>3. \A x : Current(x)' = Current(x)
  BY <1>1 DEF Current, registry
<1>4. JobsSound' /\ EntriesSound'
  BY <1>1, <1>3, JobsFrame DEF RInv, EntriesSound, registry
<1>5. CASE /\ generations[b] = item.mgrGen /\ staged[b] # item.mgrGen /\ bots[b] # None
           /\ bots' = [bots EXCEPT ![b] = None]
           /\ failed' = [failed EXCEPT ![b] = bots[b]]
           /\ step' = "recording" /\ UNCHANGED item
  <2>1. registered[b] = None
    <3>1. ItemSound(item)
      BY <1>1 DEF RInv, ItemsSound
    <3>2. registered[b] # None => newest[b] = generations[b]
      BY <1>5 DEF RInv, RegisteredLives, IInv, TypeOK, ManagedTypeOK
    <3> QED
      BY <1>0, <1>2, <1>5, <3>1, <3>2 DEF ItemSound
  <2>2. /\ bots'[b] = None
        /\ \A a \in Bots \ {b} : bots'[a] = bots[a] /\ failed'[a] = failed[a]
    BY <1>5, Types
  <2>3. ItemsSound'
    BY <1>1, <1>3, <1>5 DEF RInv, ItemsSound, ItemSound, registry
  <2>4. RegisteredLives'
    BY <1>1, <2>1, <2>2 DEF RInv, RegisteredLives, registry
  <2>5. ThreadSound'
    BY <1>2, <1>3, <1>5 DEF ThreadSound
  <2>6. ServedSound'
    BY <1>0, <1>1, <2>2 DEF RInv, ServedSound, Served, Starting, registry
  <2>7. NeverForgotten'
    BY <1>1, <1>2, <1>3, <1>5 DEF RInv, NeverForgotten, registry
  <2>8. CountSound'
    BY <1>1, <1>2, <1>3, <1>5 DEF RInv, CountSound, Accounting, registry
  <2>9. FatalEarned'
    <3>1. streak[b] = MaxFailures
      BY <1>0, <1>1, <1>5 DEF RInv, ThreadSound
    <3> QED
      BY <1>1, <2>2, <3>1 DEF RInv, FatalEarned
  <2> QED
    BY <1>4, <2>3, <2>4, <2>5, <2>6, <2>7, <2>8, <2>9 DEF RInv
<1>6. CASE /\ ~ (generations[b] = item.mgrGen /\ staged[b] # item.mgrGen /\ bots[b] # None)
           /\ Finished /\ UNCHANGED << bots, failed, fatalPending >>
  <2>1. step' = "idle"
    BY <1>6 DEF Finished
  <2>2. ItemsSound' /\ RegisteredLives' /\ FatalEarned'
    BY <1>1, <1>3, <1>6, <2>1
    DEF RInv, ItemsSound, ItemSound, RegisteredLives, FatalEarned, registry
  <2>3. ThreadSound'
    BY <2>1 DEF ThreadSound
  <2>4. ServedSound'
    <3>1. ~ (Served(b) /\ item.mgrGen = generations[b])
      BY <1>6 DEF Served, Starting
    <3> QED
      BY <1>0, <1>1, <1>6, <3>1 DEF RInv, ServedSound, Served, Starting, registry
  <2>5. NeverForgotten'
    BY <1>1, <1>2, <1>3 DEF RInv, NeverForgotten, registry
  <2>6. CountSound'
    BY <1>1, <1>2, <1>3, <2>1 DEF RInv, CountSound, Accounting, registry
  <2> QED
    BY <1>4, <2>2, <2>3, <2>4, <2>5, <2>6 DEF RInv
<1> QED
  BY <1>0, <1>5, <1>6 DEF OnFatalError

LEMMA RecordServed ==
  ASSUME IInv, RInv, CheckOurs \/ CommitError \/ ReleaseFatal
  PROVE  RInv'
<1>1. /\ step \in {"recording", "committing", "releasing"}
      /\ \/ step' \in {"committing", "releasing"} /\ UNCHANGED item
         \/ step' = "idle"
      /\ UNCHANGED << registry, heap, due, bots, failed, staged, retiring, generations, streak, job >>
  BY DEF CheckOurs, CommitError, ReleaseFatal, Finished, managed
<1>2. ~ Current(item)
  BY <1>1 DEF RInv, ThreadSound
<1>3. \A x : Current(x)' = Current(x)
  BY <1>1 DEF Current, registry
<1>4. JobsSound' /\ EntriesSound' /\ RegisteredLives' /\ FatalEarned'
  BY <1>1, <1>3, JobsFrame DEF RInv, EntriesSound, RegisteredLives, FatalEarned, registry
<1>5. ItemsSound' /\ ThreadSound'
  BY <1>1, <1>2, <1>3 DEF RInv, ItemsSound, ItemSound, ThreadSound, registry
<1>6. ServedSound'
  BY <1>1 DEF RInv, ServedSound, Served, Starting, registry
<1>7. NeverForgotten' /\ CountSound'
  BY <1>1, <1>2, <1>3 DEF RInv, NeverForgotten, CountSound, Accounting, registry
<1> QED
  BY <1>4, <1>5, <1>6, <1>7 DEF RInv

LEMMA TickServed ==
  ASSUME IInv, RInv, TimePasses
  PROVE  RInv'
<1>1. UNCHANGED << registry, due, step, item, bots, failed, staged, retiring, generations, streak,
                   job >>
  BY DEF TimePasses, Tick, thread, managed
<1>2. DOMAIN heap' = {Aged(x) : x \in DOMAIN heap}
  BY DEF TimePasses, Tick
<1>3. \A x \in DOMAIN heap : Aged(x).bot = x.bot /\ Aged(x).gen = x.gen
  <2>1. \A x \in DOMAIN heap : x \in Entry
    BY Types
  <2> QED
    BY <2>1 DEF Aged, Entry
<1>4. \A x : Current(x)' = Current(x)
  BY <1>1 DEF Current, registry
<1>5. EntriesSound'
  BY <1>1, <1>2, <1>3, <1>4 DEF RInv, EntriesSound, Current, registry
<1>6. NeverForgotten'
  <2>0. NeverForgotten /\ \A a \in Bots : registered'[a] # None => registered[a] # None \/ InHeap(a)'
    BY <1>1 DEF RInv, registry
  <2>1. ASSUME NEW b, InHeap(b)
        PROVE  InHeap(b)'
    <3>1. PICK x \in DOMAIN heap : x.bot = b /\ Current(x)
      BY <2>1 DEF InHeap
    <3>2. Aged(x) \in DOMAIN heap' /\ Aged(x).bot = b /\ Current(Aged(x))
      BY <1>2, <1>3, <3>1 DEF Current
    <3>3. \A y \in DOMAIN heap' : y.bot = b /\ Current(y) => InHeap(b)'
      BY <1>4 DEF InHeap
    <3> QED
      BY <3>2, <3>3
  <2>2. \A b : InDue(b)' = InDue(b) /\ ItemInHand(b)' = ItemInHand(b)
    BY <1>1, <1>4 DEF InDue, ItemInHand
  <2> QED
    BY ONLY <2>1, <2>2, <2>0, StillRemembered
<1>7. JobsSound'
  BY <1>1, JobsFrame DEF registry
<1>8. ItemsSound' /\ RegisteredLives' /\ FatalEarned'
  BY <1>1 DEF RInv, ItemsSound, ItemSound, RegisteredLives, FatalEarned, Current, registry
<1>9. ThreadSound' /\ ServedSound'
  BY <1>1 DEF RInv, ThreadSound, ServedSound, Served, Starting, Current, registry
<1>10. CountSound'
  BY <1>1 DEF RInv, CountSound, Accounting, Current, registry
<1> QED
  BY <1>5, <1>6, <1>7, <1>8, <1>9, <1>10 DEF RInv

LEMMA SweeperServed ==
  ASSUME IInv, RInv, Sweeper
  PROVE  RInv'
<1>1. CASE SweepUnadmitted
  <2>1. UNCHANGED << job, bots, failed, staged, retiring, generations, streak >>
    BY <1>1 DEF SweepUnadmitted, managed
  <2>2. CASE Refused
    BY <2>1, <2>2, PutBackServed DEF Refused
  <2>3. CASE Requeue
    BY <2>1, <2>3, PutBackServed DEF Requeue
  <2> QED
    BY <1>1, <2>2, <2>3, FireDueServed, NextItemServed, CountSuccessServed, DropFailureServed,
       CountFailureServed, RemoveFailingServed DEF SweepUnadmitted
<1> QED
  BY <1>1, EnterServed, SweepServed, OnFatalErrorServed, RecordServed DEF Sweeper

-----------------------------------------------------------------------------
(***************************************************************************)
(* The theorems.                                                           *)
(***************************************************************************)
LEMMA InitServed == Init => RInv
<1> SUFFICES ASSUME Init PROVE RInv
  OBVIOUS
<1>1. EntriesSound /\ ItemsSound
  BY NoneDue DEF Init, SchedInit, EntriesSound, ItemsSound
<1>2. RegisteredLives /\ ServedSound /\ NeverForgotten /\ CountSound /\ FatalEarned
  BY DEF Init, SchedInit, RegisteredLives, ServedSound, Served, NeverForgotten, CountSound,
         FatalEarned, None
<1>3. JobsSound
  BY NullRecords DEF Init, JobsSound, JobSound
<1>4. ThreadSound
  BY DEF Init, SchedInit, ThreadSound
<1> QED
  BY <1>1, <1>2, <1>3, <1>4 DEF RInv

LEMMA NextServed ==
  ASSUME IInv, RInv, [Next]_vars
  PROVE  RInv'
<1>1. ASSUME NEW t \in Admins, Handle(t)
      PROVE  RInv'
  BY <1>1, QuietServed, CommitServed, RegisterServed, NudgeServed, UnscheduleServed,
     PublishServed, OpenServed, RetireServed, FinalizeServed DEF Handle
<1>2. ASSUME NEW t \in Admins, NEW verb \in Requests \cup {"recover"}, NEW b \in Bots,
             Begin(t, verb, b)
      PROVE  RInv'
  BY <1>2, BeginServed
<1>3. ASSUME NEW c \in Clients,
             \/ \E b \in Bots, reads \in BOOLEAN : Admit(c, b, reads)
             \/ ChangeState(c) \/ Release(c)
      PROVE  RInv'
  BY <1>3, ClientServed
<1>4. CASE Sweeper
  BY <1>4, SweeperServed
<1>5. CASE TimePasses
  BY <1>5, TickServed
<1>6. CASE UNCHANGED vars
  <2>1. UNCHANGED << registry, heap, due, step, item, bots, failed, staged, retiring, generations,
                     streak, job >>
    BY <1>6 DEF vars, schedVars, thread, managed
  <2> QED
    BY <2>1, JobsFrame, RestFrame DEF registry
<1> QED
  BY <1>1, <1>2, <1>3, <1>4, <1>5, <1>6 DEF Next

LEMMA ServedInvariance == Spec => []RInv
<1>1. IInv /\ RInv /\ [Next]_vars => RInv'
  BY NextServed
<1> QED
  BY Invariance, InitServed, <1>1, PTL DEF Spec

\* The instance that serves is the registered one, unless the thread is about
\* to set it aside as failed (manager.py:440-471).
THEOREM ServingIsSwept == Spec => []ServedIsRegistered
<1>1. RInv => ServedIsRegistered
  BY DEF RInv, ServedSound, Served, ServedIsRegistered, FailingFatally
<1> QED
  BY ServedInvariance, <1>1, PTL

\* However registrations, removals and nudges come in between the steps of the
\* thread, a registered bot has a valid entry (scheduler.py:249-330).
THEOREM RegisteredIsRemembered == Spec => []NeverForgotten
<1>1. RInv => NeverForgotten
  BY DEF RInv
<1> QED
  BY ServedInvariance, <1>1, PTL

\* Failures are charged to the instance that failed (scheduler.py:275-314,
\* manager.py:519-546).
THEOREM FatalIsEarned == Spec => []FatalEarned
<1>1. RInv => FatalEarned
  BY DEF RInv
<1> QED
  BY ServedInvariance, <1>1, PTL

\* The three together: as long as an instance serves it is swept, and only its
\* own failures end that (scheduler.py:249-330, manager.py:440-546).
THEOREM ServiceIsSwept == Spec => []SweepsFollowService
BY ServingIsSwept, RegisteredIsRemembered, FatalIsEarned, PTL DEF SweepsFollowService
-----------------------------------------------------------------------------
(***************************************************************************)
(* The row tells the truth, if nothing but a start, a recovery or the      *)
(* record of a fatal error fails to commit it and no request raises what   *)
(* its route does not expect.  IInv and RInv are taken as known.           *)
(***************************************************************************)
Enders == {"stop", "delete", "update", "restart", "reset"}

Faithful == ~ StrayErrors /\ CommitFaults \cap {"stop", "delete", "update", "reset"} = {}

Alive(b) == bots[b] # None \/ failed[b] # None

Truth(b) ==
  CASE row[b] = "running" -> Alive(b)
    [] row[b] = "error" -> bots[b] = None
    [] OTHER -> ~ Alive(b)

\* A fatal error is recorded of a failed instance, only an instance is being
\* retired, and nothing works for one that is not open yet.
WorkSound ==
  \A b \in Bots :
    /\ Recording(b) => failed[b] # None
    /\ b \in retiring => Alive(b)
    /\ staged[b] # None => ~ Working(b)

\* What a request may rely on when it writes the row or leaves it.
RequestTrue(j) ==
  j.kind # "none" =>
    /\ j.at = "begin" => IF j.kind = "start" THEN Truth(j.bot) ELSE MayStart(j.bot)
    /\ j.at \in {"construct", "publish", "stopped"} => MayStart(j.bot)
    /\ j.at = "construct" /\ j.kind = "start" => row[j.bot] # "running"
    /\ j.at \in {"register", "open"} => row[j.bot] = "running"
    /\ j.at \in {"retire", "unschedule", "drain"} =>
         IF j.kind = "reset" THEN MayStart(j.bot) \/ staged[j.bot] # None ELSE Truth(j.bot)
    /\ j.at \in {"retire", "unschedule", "drain", "stopped"} => j.kind \in Enders
    /\ j.at \in {"edit", "write", "nudge"} => Truth(j.bot)

\* A bot nobody owns has a true row, unless it is still to be recovered.
RestTrue(b) ==
  ~ Owned(b) => IF b \in recovering THEN MayStart(b) ELSE Truth(b)

RowInv ==
  /\ WorkSound
  /\ \A t \in Admins : RequestTrue(job[t])
  /\ \A b \in Bots : RestTrue(b)

\* What the row is about, when it stays.
BotSame(b) ==
  /\ bots'[b] = bots[b] /\ failed'[b] = failed[b] /\ staged'[b] = staged[b]
  /\ row'[b] = row[b] /\ fatalPending'[b] = fatalPending[b]
  /\ b \in retiring' <=> b \in retiring

LEMMA SameTruth ==
  ASSUME NEW b, BotSame(b)
  PROVE  Truth(b)' = Truth(b) /\ MayStart(b)' = MayStart(b) /\ Alive(b)' = Alive(b)
BY DEF BotSame, Truth, MayStart, Alive

LEMMA SameRequest ==
  ASSUME NEW j, j.kind # "none" => BotSame(j.bot), RequestTrue(j)
  PROVE  RequestTrue(j)'
<1>1. CASE j.kind = "none"
  BY <1>1 DEF RequestTrue
<1>2. CASE j.kind # "none"
  <2>1. Truth(j.bot)' = Truth(j.bot) /\ MayStart(j.bot)' = MayStart(j.bot)
    BY <1>2, SameTruth
  <2>2. row'[j.bot] = row[j.bot] /\ staged'[j.bot] = staged[j.bot]
    BY <1>2 DEF BotSame
  <2>3. QED BY <2>1, <2>2 DEF RequestTrue
<1>3. QED BY <1>1, <1>2

\* The facts about a state that the steps below start from.
LEMMA RowFacts ==
  ASSUME IInv, RowInv, NEW b \in Bots
  PROVE  /\ bots[b] \in Nat /\ failed[b] \in Nat /\ staged[b] \in Nat
         /\ staged[b] # None => staged[b] = bots[b] /\ bots[b] = generations[b] /\ failed[b] = None
         /\ bots[b] = None \/ failed[b] = None
         /\ fatalPending[b] = IF Recording(b) THEN 1 ELSE 0
         /\ ~ Alive(b) => MayStart(b) /\ ~ Recording(b) /\ b \notin retiring
         /\ MayStart(b) => ~ Alive(b) /\ fatalPending[b] = 0 /\ b \notin retiring /\ staged[b] = None
<1>1. /\ bots[b] \in Nat /\ failed[b] \in Nat /\ staged[b] \in Nat
      /\ staged[b] # None => staged[b] = bots[b] /\ bots[b] = generations[b]
      /\ bots[b] = None \/ failed[b] = None
      /\ staged[b] \in {None, bots[b]}
  BY DEF IInv, TypeOK, ManagedTypeOK
<1>2. fatalPending[b] = IF Recording(b) THEN 1 ELSE 0
  BY DEF IInv, WorkIsCounted
<1>3. (Recording(b) => failed[b] # None) /\ (b \in retiring => Alive(b))
  BY DEF RowInv, WorkSound
<1>4. ~ Alive(b) => MayStart(b) /\ ~ Recording(b) /\ b \notin retiring
  BY <1>2, <1>3 DEF Alive, MayStart
<1>5. MayStart(b) => ~ Alive(b) /\ fatalPending[b] = 0 /\ b \notin retiring /\ staged[b] = None
  BY <1>1 DEF Alive, MayStart
<1>6. QED BY <1>1, <1>2, <1>4, <1>5

\* A step of the request of thread t, which goes on as j or ends.
LEMMA RequestFrame ==
  ASSUME IInv, RowInv, WorkSound', NEW t \in Admins, NEW j, NEW b \in Bots,
         b = job[t].bot, job[t].kind # "none",
         job' = [job EXCEPT ![t] = j],
         \A a \in Bots \ {b} : BotSame(a),
         IF j.kind = "none"
         THEN recovering' = recovering \ {b} /\ Truth(b)'
         ELSE recovering' = recovering /\ j.bot = b /\ RequestTrue(j)'
  PROVE  RowInv'
<1>1. \A s \in Admins : job'[s] = IF s = t THEN j ELSE job[s]
  BY Types
<1>2. ASSUME NEW s \in Admins, NEW r, r = job'[s] PROVE RequestTrue(r)'
  <2>1. CASE s = t
    BY <1>1, <1>2, <2>1 DEF RequestTrue
  <2>2. CASE s # t
    <3>1. r = job[s] /\ RequestTrue(r) /\ r.bot \in Bots
      BY <1>1, <1>2, <2>2, Types DEF RowInv
    <3>2. r.kind # "none" => r.bot # b
      BY <2>2, <3>1 DEF IInv, SoleOwner
    <3>3. r.kind # "none" => BotSame(r.bot)
      BY <3>1, <3>2
    <3>4. QED BY <3>1, <3>3, SameRequest
  <2>3. QED BY <2>1, <2>2
<1>3. \A s \in Admins : RequestTrue(job[s])'
  BY <1>2 DEF RequestTrue
<1>4. ASSUME NEW a \in Bots PROVE RestTrue(a)'
  <2>1. CASE a # b
    <3>1. Owned(a)' <=> Owned(a)
      <4>1. \A s \in Admins : (job'[s].kind # "none" /\ job'[s].bot = a) <=>
                               (job[s].kind # "none" /\ job[s].bot = a)
        BY <1>1, <2>1
      <4>2. QED BY <4>1 DEF Owned
    <3>2. BotSame(a) /\ (a \in recovering' <=> a \in recovering)
      BY <2>1
    <3>3. RestTrue(a) /\ Truth(a)' = Truth(a) /\ MayStart(a)' = MayStart(a)
      BY <3>2, SameTruth DEF RowInv
    <3>4. QED BY <3>1, <3>2, <3>3 DEF RestTrue
  <2>2. CASE a = b /\ j.kind # "none"
    <3>1. Owned(a)'
      BY <1>1, <2>2 DEF Owned
    <3>2. QED BY <3>1 DEF RestTrue
  <2>3. CASE a = b /\ j.kind = "none"
    <3>1. a \notin recovering' /\ Truth(a)'
      BY <2>3
    <3>2. QED BY <3>1 DEF RestTrue
  <2>4. QED BY <2>1, <2>2, <2>3
<1>5. QED BY <1>3, <1>4 DEF RowInv

\* A step of the thread or of a client: the requests stay.
LEMMA WorkerFrame ==
  ASSUME IInv, RInv, RowInv, WorkSound', UNCHANGED << job, recovering, staged >>,
         \A a \in Bots : /\ Truth(a) => Truth(a)'
                         /\ MayStart(a) => MayStart(a)' /\ row'[a] = row[a]
                         /\ staged[a] # None => row'[a] = row[a]
  PROVE  RowInv'
<1>1. ASSUME NEW t \in Admins PROVE RequestTrue(job[t])'
  <2>1. job[t].bot \in Bots /\ RequestTrue(job[t]) /\ JobSound(job[t])
    BY Types DEF RowInv, RInv, JobsSound
  <2>2. \A j : j = job[t] => j.bot \in Bots /\ RequestTrue(j) /\ JobSound(j)
    BY <2>1
  <2>3. SUFFICES ASSUME NEW j, j = job[t] PROVE RequestTrue(j)'
    OBVIOUS
  <2>4. j.bot \in Bots /\ RequestTrue(j) /\ JobSound(j)
    BY <2>2, <2>3
  <2>5. /\ Truth(j.bot) => Truth(j.bot)'
        /\ MayStart(j.bot) => MayStart(j.bot)' /\ row'[j.bot] = row[j.bot]
        /\ staged[j.bot] # None => row'[j.bot] = row[j.bot]
        /\ staged' = staged
    BY <2>4
  <2>6. j.kind # "none" /\ j.at \in {"register", "open"} => staged[j.bot] # None
    BY <2>4 DEF JobSound, None
  <2>7. QED BY <2>4, <2>5, <2>6 DEF RequestTrue
<1>2. ASSUME NEW a \in Bots PROVE RestTrue(a)'
  BY DEF RowInv, RestTrue, Owned
<1>3. QED BY <1>1, <1>2 DEF RowInv

LEMMA SameWork ==
  ASSUME WorkSound, UNCHANGED << step, item, op, bots, failed, staged, retiring >>
  PROVE  WorkSound'
BY DEF WorkSound, Recording, Alive, Working, Sweeping, OpsOn, Busy

\* A request that changes its row at most ...
Quiet(t, b) ==
  /\ b = job[t].bot /\ job[t].kind # "none"
  /\ UNCHANGED << step, item, op, managed, fatalPending >>
  /\ \A a \in Bots \ {b} : row'[a] = row[a]

LEMMA QuietSame ==
  ASSUME RowInv, NEW t \in Admins, NEW b \in Bots, Quiet(t, b)
  PROVE  WorkSound' /\ \A a \in Bots \ {b} : BotSame(a)
<1>1. WorkSound'
  BY SameWork DEF Quiet, RowInv, managed
<1>2. \A a \in Bots \ {b} : BotSame(a)
  BY DEF Quiet, BotSame, managed
<1>3. QED BY <1>1, <1>2

\* ... goes on,
LEMMA MovesOn ==
  ASSUME IInv, RowInv, NEW t \in Admins, NEW b \in Bots, Quiet(t, b),
         NEW place, Go(t, place), place \in Places, recovering' = recovering,
         \A j : j.kind = job[t].kind /\ j.bot = b /\ j.at = place => RequestTrue(j)'
  PROVE  RowInv'
<1>1. PICK j \in Job :
        /\ job' = [job EXCEPT ![t] = j]
        /\ j.at = place /\ j.kind = job[t].kind /\ j.bot = job[t].bot
  BY GoIs DEF Quiet
<1>2. job[t].kind # "none" /\ j.bot = b /\ b = job[t].bot
  BY <1>1 DEF Quiet
<1>3. RequestTrue(j)' /\ j.kind # "none"
  BY <1>1, <1>2
<1>4. QED BY <1>1, <1>2, <1>3, QuietSame, RequestFrame

\* ... turns into a reset,
LEMMA TurnsToReset ==
  ASSUME IInv, RowInv, NEW t \in Admins, NEW b \in Bots, Quiet(t, b),
         job' = [job EXCEPT ![t].kind = "reset", ![t].at = "retire"], recovering' = recovering,
         MayStart(b)' \/ staged'[b] # None
  PROVE  RowInv'
<1>1. PICK k \in Job : k = job[t]
  BY Types
<1> DEFINE j == [k EXCEPT !.kind = "reset", !.at = "retire"]
<1>2. job' = [job EXCEPT ![t] = j]
  BY <1>1
<1>3. j.kind = "reset" /\ j.at = "retire" /\ j.bot = b
  BY <1>1 DEF Job, Quiet
<1> HIDE DEF j
<1>4. SUFFICES ASSUME NEW r, r = j PROVE RowInv'
  OBVIOUS
<1>5. r.kind = "reset" /\ r.at = "retire" /\ r.bot = b /\ job' = [job EXCEPT ![t] = r]
  BY <1>2, <1>3, <1>4
<1>6. RequestTrue(r)'
  BY <1>5 DEF RequestTrue, Enders
<1>7. b = job[t].bot /\ job[t].kind # "none"
  BY DEF Quiet
<1>8. QED BY <1>5, <1>6, <1>7, QuietSame, RequestFrame

\* ... or ends.
LEMMA Leaves ==
  ASSUME IInv, RowInv, NEW t \in Admins, NEW b \in Bots, Quiet(t, b), Leave(t), Truth(b)'
  PROVE  RowInv'
<1>1. b = job[t].bot /\ job[t].kind # "none"
  BY DEF Quiet
<1>2. job' = [job EXCEPT ![t] = NoJob] /\ recovering' = recovering \ {b} /\ NoJob.kind = "none"
  BY <1>1, NullRecords DEF Leave
<1>3. QED BY <1>1, <1>2, QuietSame, RequestFrame

LEMMA OwnerIs ==
  ASSUME IInv, RInv, RowInv, NEW t \in Admins, job[t].kind # "none"
  PROVE  \E b \in Bots : /\ b = job[t].bot
                         /\ \E j \in Job : j = job[t] /\ RequestTrue(j) /\ JobSound(j)
<1>1. job[t].bot \in Bots /\ RequestTrue(job[t]) /\ JobSound(job[t]) /\ job[t] \in Job
  BY Types DEF RowInv, RInv, JobsSound
<1>2. QED BY <1>1

LEMMA CheckStartTrue ==
  ASSUME IInv, RInv, RowInv, NEW t \in Admins, CheckStart(t)
  PROVE  RowInv'
<1>1. job[t].kind # "none" /\ job[t].at = "begin"
  BY DEF CheckStart, At
<1>2. PICK b \in Bots : /\ b = job[t].bot
                        /\ \E j \in Job : j = job[t] /\ RequestTrue(j) /\ JobSound(j)
  BY <1>1, OwnerIs
<1>3. IF job[t].kind = "start" THEN Truth(b) ELSE MayStart(b)
  BY <1>1, <1>2 DEF RequestTrue
<1>4. /\ UNCHANGED << step, item, op, managed, fatalPending, row >>
      /\ Truth(b)' = Truth(b) /\ MayStart(b)' = MayStart(b)
  BY DEF CheckStart, schedVars, thread, managed, database, Truth, MayStart, Alive
<1>5. CASE MayStart(b) /\ Go(t, "construct") /\ recovering' = recovering
  <2>1. job[t].kind = "start" => row[b] # "running"
    BY <1>3, <1>5 DEF Truth, Alive, MayStart
  <2>2. ASSUME NEW j, j.kind = job[t].kind, j.bot = b, j.at = "construct" PROVE RequestTrue(j)'
    BY <1>4, <1>5, <2>1, <2>2 DEF RequestTrue
  <2>3. "construct" \in Places
    BY DEF Places
  <2>4. QED BY <1>1, <1>2, <1>4, <1>5, <2>2, <2>3, MovesOn DEF Quiet
<1>6. CASE ~ MayStart(b) /\ Leave(t)
  <2>1. Truth(b)'
    BY <1>3, <1>4, <1>6
  <2>2. QED BY <1>1, <1>2, <1>4, <1>6, <2>1, Leaves DEF Quiet
<1>7. QED BY <1>2, <1>5, <1>6 DEF CheckStart

LEMMA ConstructTrue ==
  ASSUME IInv, RInv, RowInv, NEW t \in Admins, Construct(t)
  PROVE  RowInv'
<1>1. job[t].kind # "none" /\ job[t].at = "construct" /\ Go(t, "publish") /\ recovering' = recovering
  BY DEF Construct, At
<1>2. PICK b \in Bots : /\ b = job[t].bot
                        /\ \E j \in Job : j = job[t] /\ RequestTrue(j) /\ JobSound(j)
  BY <1>1, OwnerIs
<1>3. MayStart(b)
  BY <1>1, <1>2 DEF RequestTrue
<1>4. /\ UNCHANGED << step, item, op, managed, fatalPending, row >>
      /\ MayStart(b)' = MayStart(b)
  BY DEF Construct, schedVars, thread, managed, database, MayStart
<1>5. ASSUME NEW j, j.kind = job[t].kind, j.bot = b, j.at = "publish" PROVE RequestTrue(j)'
  BY <1>3, <1>4, <1>5 DEF RequestTrue
<1>6. "publish" \in Places
  BY DEF Places
<1>7. QED BY <1>1, <1>2, <1>4, <1>5, <1>6, MovesOn DEF Quiet

LEMMA ConstructFailsTrue ==
  ASSUME Faithful, IInv, RInv, RowInv, NEW t \in Admins, ConstructFails(t)
  PROVE  RowInv'
<1>1. job[t].kind # "none" /\ job[t].at = "construct"
  BY DEF ConstructFails, At
<1>2. PICK b \in Bots : /\ b = job[t].bot
                        /\ \E j \in Job : j = job[t] /\ RequestTrue(j) /\ JobSound(j)
  BY <1>1, OwnerIs
<1>3. MayStart(b) /\ (job[t].kind = "start" => row[b] # "running")
  BY <1>1, <1>2 DEF RequestTrue
<1>4. /\ UNCHANGED << step, item, op, managed, fatalPending >> /\ row \in [Bots -> Statuses]
      /\ MayStart(b)' = MayStart(b) /\ (bots[b] = None /\ failed[b] = None)
      /\ bots' = bots /\ failed' = failed
  BY <1>3 DEF ConstructFails, schedVars, thread, managed, MayStart, IInv, TypeOK, WorkTypeOK
<1>5. CASE job[t].kind = "start" /\ Leave(t)
           /\ (row' = row \/ row' = [row EXCEPT ![b] = "error"])
  <2>1. (\A a \in Bots \ {b} : row'[a] = row[a]) /\ row'[b] # "running"
    BY <1>3, <1>4, <1>5
  <2>2. Truth(b)'
    BY <1>4, <2>1 DEF Truth, Alive
  <2>3. QED BY <1>1, <1>2, <1>4, <1>5, <2>1, <2>2, Leaves DEF Quiet
<1>6. CASE /\ job' = [job EXCEPT ![t].kind = "reset", ![t].at = "retire"]
           /\ UNCHANGED << database, recovering >>
  <2>1. \A a \in Bots \ {b} : row'[a] = row[a]
    BY <1>6 DEF database
  <2>2. MayStart(b)'
    BY <1>3, <1>4
  <2>3. QED BY <1>1, <1>2, <1>4, <1>6, <2>1, <2>2, TurnsToReset DEF Quiet
<1>7. QED BY <1>2, <1>5, <1>6 DEF ConstructFails, Faithful

LEMMA PublishTrue ==
  ASSUME IInv, RInv, RowInv, NEW t \in Admins, Publish(t)
  PROVE  RowInv'
<1>1. job[t].kind # "none" /\ job[t].at = "publish" /\ Go(t, "commit") /\ recovering' = recovering
  BY DEF Publish, At
<1>2. PICK b \in Bots : /\ b = job[t].bot
                        /\ \E j \in Job : j = job[t] /\ RequestTrue(j) /\ JobSound(j)
  BY <1>1, OwnerIs
<1>3. MayStart(b)
  BY <1>1, <1>2 DEF RequestTrue
<1>4. /\ bots' = [bots EXCEPT ![b] = generations[b] + 1]
      /\ staged' = [staged EXCEPT ![b] = generations[b] + 1]
      /\ UNCHANGED << step, item, op, failed, retiring, fatalPending, row >>
      /\ generations[b] \in Nat
  BY <1>2, Types DEF Publish, schedVars, thread, database
<1>5. \A a \in Bots \ {b} : BotSame(a) /\ bots'[a] = bots[a] /\ staged'[a] = staged[a]
  BY <1>4, Types DEF BotSame
<1>6. ~ Working(b) /\ ~ Recording(b)
  BY <1>3, RowFacts DEF IInv, WorkHasInstance, Alive
<1>7. \A a \in Bots : Working(a)' = Working(a) /\ Recording(a)' = Recording(a)
  BY <1>4 DEF Working, Sweeping, OpsOn, Busy, Recording
<1>8. bots'[b] # None
  BY <1>4, Types DEF None
<1>9. WorkSound'
  <2>1. ASSUME NEW a \in Bots
        PROVE  /\ (Recording(a) => failed[a] # None)'
               /\ (a \in retiring => Alive(a))'
               /\ (staged[a] # None => ~ Working(a))'
    <3>1. CASE a = b
      BY <1>4, <1>6, <1>7, <1>8, <3>1 DEF Alive
    <3>2. CASE a # b
      BY <1>4, <1>5, <1>7, <3>2 DEF RowInv, WorkSound, Alive
    <3>3. QED BY <3>1, <3>2
  <2>2. QED BY <2>1 DEF WorkSound
<1>10. PICK j \in Job :
          /\ job' = [job EXCEPT ![t] = j]
          /\ j.at = "commit" /\ j.kind = job[t].kind /\ j.bot = job[t].bot
  <2>1. "commit" \in Places
    BY DEF Places
  <2>2. QED BY <1>1, <2>1, GoIs
<1>11. RequestTrue(j)'
  BY <1>10 DEF RequestTrue
<1>12. QED BY <1>1, <1>2, <1>5, <1>9, <1>10, <1>11, RequestFrame

LEMMA CommitRunningTrue ==
  ASSUME IInv, RInv, RowInv, NEW t \in Admins, CommitRunning(t)
  PROVE  RowInv'
<1>1. job[t].kind # "none" /\ job[t].at = "commit"
  BY DEF CommitRunning, At
<1>2. PICK b \in Bots : /\ b = job[t].bot
                        /\ \E j \in Job : j = job[t] /\ RequestTrue(j) /\ JobSound(j)
  BY <1>1, OwnerIs
<1>3. staged[b] # None
  BY <1>1, <1>2 DEF JobSound, None
<1>4. /\ UNCHANGED << step, item, op, managed, fatalPending, recovering >> /\ row \in [Bots -> Statuses]
      /\ staged' = staged
  BY DEF CommitRunning, schedVars, thread, managed, IInv, TypeOK, WorkTypeOK
<1>5. CASE row' = [row EXCEPT ![b] = "running"] /\ Go(t, "register")
  <2>1. (\A a \in Bots \ {b} : row'[a] = row[a]) /\ row'[b] = "running"
    BY <1>4, <1>5
  <2>2. ASSUME NEW j, j.kind = job[t].kind, j.bot = b, j.at = "register" PROVE RequestTrue(j)'
    BY <2>1, <2>2 DEF RequestTrue
  <2>3. "register" \in Places
    BY DEF Places
  <2>4. QED BY <1>1, <1>2, <1>4, <1>5, <2>1, <2>2, <2>3, MovesOn DEF Quiet
<1>6. CASE /\ job' = [job EXCEPT ![t].kind = "reset", ![t].at = "retire"]
           /\ UNCHANGED database
  <2>1. \A a \in Bots \ {b} : row'[a] = row[a]
    BY <1>6 DEF database
  <2>2. staged'[b] # None
    BY <1>3, <1>4
  <2>3. QED BY <1>1, <1>2, <1>4, <1>6, <2>1, <2>2, TurnsToReset DEF Quiet
<1>7. QED BY <1>2, <1>5, <1>6 DEF CommitRunning

LEMMA RegisterTrue ==
  ASSUME IInv, RInv, RowInv, NEW t \in Admins, Register(t)
  PROVE  RowInv'
<1>1. job[t].kind # "none" /\ job[t].at = "register" /\ Go(t, "open") /\ recovering' = recovering
  BY DEF Register, At
<1>2. PICK b \in Bots : /\ b = job[t].bot
                        /\ \E j \in Job : j = job[t] /\ RequestTrue(j) /\ JobSound(j)
  BY <1>1, OwnerIs
<1>3. row[b] = "running"
  BY <1>1, <1>2 DEF RequestTrue
<1>4. UNCHANGED << step, item, op, managed, fatalPending, row >>
  BY DEF Register, thread, database
<1>5. ASSUME NEW j, j.kind = job[t].kind, j.bot = b, j.at = "open" PROVE RequestTrue(j)'
  BY <1>3, <1>4, <1>5 DEF RequestTrue
<1>6. "open" \in Places
  BY DEF Places
<1>7. QED BY <1>1, <1>2, <1>4, <1>5, <1>6, MovesOn DEF Quiet

LEMMA OpenTrue ==
  ASSUME IInv, RInv, RowInv, NEW t \in Admins, Open(t)
  PROVE  RowInv'
<1>1. job[t].kind # "none" /\ job[t].at = "open" /\ Go(t, "nudge") /\ recovering' = recovering
  BY DEF Open, At
<1>2. PICK b \in Bots : /\ b = job[t].bot
                        /\ \E j \in Job : j = job[t] /\ RequestTrue(j) /\ JobSound(j)
  BY <1>1, OwnerIs
<1>3. row[b] = "running" /\ staged[b] # None
  BY <1>1, <1>2 DEF RequestTrue, JobSound, None
<1>4. /\ staged' = [staged EXCEPT ![b] = None]
      /\ UNCHANGED << step, item, op, bots, failed, retiring, fatalPending, row >>
  BY <1>2 DEF Open, schedVars, thread, database
<1>5. \A a \in Bots \ {b} : BotSame(a)
  BY <1>4, Types DEF BotSame
<1>6. Truth(b)'
  <2>1. bots[b] # None
    BY <1>3, RowFacts
  <2>2. QED BY <1>3, <1>4, <2>1 DEF Truth, Alive
<1>7. WorkSound'
  <2>1. \A a \in Bots : staged'[a] # None => staged[a] # None
    BY <1>4, Types
  <2>2. \A a : Working(a)' = Working(a) /\ Recording(a)' = Recording(a) /\ Alive(a)' = Alive(a)
    BY <1>4 DEF Working, Sweeping, OpsOn, Busy, Recording, Alive
  <2>3. QED BY <1>4, <2>1, <2>2 DEF RowInv, WorkSound
<1>8. PICK j \in Job :
          /\ job' = [job EXCEPT ![t] = j]
          /\ j.at = "nudge" /\ j.kind = job[t].kind /\ j.bot = job[t].bot
  <2>1. "nudge" \in Places
    BY DEF Places
  <2>2. QED BY <1>1, <2>1, GoIs
<1>9. RequestTrue(j)'
  BY <1>2, <1>6, <1>8 DEF RequestTrue
<1>10. QED BY <1>1, <1>2, <1>5, <1>7, <1>8, <1>9, RequestFrame

\* The requests that end where the row is true already.
LEMMA EndTrue ==
  ASSUME IInv, RInv, RowInv, NEW t \in Admins, Nudge(t) \/ CheckEdit(t) \/ WriteEdit(t)
  PROVE  RowInv'
<1>1. job[t].kind # "none" /\ job[t].at \in {"nudge", "edit", "write"}
  BY DEF Nudge, CheckEdit, WriteEdit, At
<1>2. PICK b \in Bots : /\ b = job[t].bot
                        /\ \E j \in Job : j = job[t] /\ RequestTrue(j) /\ JobSound(j)
  BY <1>1, OwnerIs
<1>3. Truth(b)
  BY <1>1, <1>2 DEF RequestTrue
<1>4. /\ UNCHANGED << step, item, op, managed, fatalPending, row >>
      /\ Truth(b)' = Truth(b)
  BY DEF Nudge, CheckEdit, WriteEdit, schedVars, thread, managed, database, Truth, Alive
<1>5. CASE Leave(t)
  BY <1>1, <1>2, <1>3, <1>4, <1>5, Leaves DEF Quiet
<1>6. CASE Go(t, "write") /\ recovering' = recovering
  <2>1. ASSUME NEW j, j.kind = job[t].kind, j.bot = b, j.at = "write" PROVE RequestTrue(j)'
    BY <1>3, <1>4, <2>1 DEF RequestTrue
  <2>2. "write" \in Places
    BY DEF Places
  <2>3. QED BY <1>1, <1>2, <1>4, <1>6, <2>1, <2>2, MovesOn DEF Quiet
<1>7. QED BY <1>5, <1>6 DEF Nudge, CheckEdit, WriteEdit

LEMMA RetireTrue ==
  ASSUME IInv, RInv, RowInv, NEW t \in Admins, Retire(t)
  PROVE  RowInv'
<1>1. job[t].kind # "none" /\ job[t].at = "retire"
  BY DEF Retire, At
<1>2. PICK b \in Bots : /\ b = job[t].bot
                        /\ \E j \in Job : j = job[t] /\ RequestTrue(j) /\ JobSound(j)
  BY <1>1, OwnerIs
<1>3. /\ job[t].kind \in Enders
      /\ IF job[t].kind = "reset" THEN MayStart(b) \/ staged[b] # None ELSE Truth(b)
  BY <1>1, <1>2 DEF RequestTrue
<1>4. UNCHANGED << step, item, op, fatalPending, row, recovering >>
  BY DEF Retire, schedVars, thread, database
<1>5. CASE ~ Alive(b) /\ Go(t, "stopped") /\ UNCHANGED managed
  <2>1. MayStart(b)'
    BY <1>4, <1>5, RowFacts DEF MayStart, managed
  <2>2. ASSUME NEW j, j.kind = job[t].kind, j.bot = b, j.at = "stopped" PROVE RequestTrue(j)'
    BY <1>3, <2>1, <2>2 DEF RequestTrue
  <2>3. "stopped" \in Places
    BY DEF Places
  <2>4. QED BY <1>1, <1>2, <1>4, <1>5, <2>2, <2>3, MovesOn DEF Quiet
<1>6. CASE /\ Alive(b) /\ retiring' = retiring \cup {b}
           /\ job' = [job EXCEPT ![t].gen = generations[b], ![t].at = "unschedule"]
           /\ UNCHANGED << bots, failed, staged, generations >>
  <2>1. PICK k \in Job : k = job[t]
    BY Types
  <2> DEFINE j == [k EXCEPT !.gen = generations[b], !.at = "unschedule"]
  <2>2. /\ j.kind = job[t].kind /\ j.at = "unschedule" /\ j.bot = b
        /\ job' = [job EXCEPT ![t] = j]
    <3>1. job' = [job EXCEPT ![t] = j]
      BY <1>6, <2>1
    <3>2. j.kind = job[t].kind /\ j.at = "unschedule" /\ j.bot = b
      BY <1>2, <2>1 DEF Job
    <3>3. QED BY <3>1, <3>2
  <2> HIDE DEF j
  <2>3. SUFFICES ASSUME NEW r, r = j PROVE RowInv'
    OBVIOUS
  <2>4. r.kind = job[t].kind /\ r.at = "unschedule" /\ r.bot = b /\ job' = [job EXCEPT ![t] = r]
    BY <2>2, <2>3
  <2>5. Truth(b)' = Truth(b) /\ staged' = staged
    BY <1>4, <1>6 DEF Truth, Alive
  <2>6. ~ MayStart(b)
    BY <1>6 DEF MayStart, Alive
  <2>7. RequestTrue(r)'
    BY <1>3, <2>4, <2>5, <2>6 DEF RequestTrue
  <2>8. \A a \in Bots \ {b} : BotSame(a)
    BY <1>4, <1>6 DEF BotSame
  <2>9. WorkSound'
    <3>1. \A a : Working(a)' = Working(a) /\ Recording(a)' = Recording(a) /\ Alive(a)' = Alive(a)
      BY <1>4, <1>6 DEF Working, Sweeping, OpsOn, Busy, Recording, Alive
    <3>2. QED BY <1>6, <3>1 DEF RowInv, WorkSound
  <2>10. QED BY <1>1, <1>2, <1>4, <2>4, <2>7, <2>8, <2>9, RequestFrame
<1>7. QED BY <1>2, <1>5, <1>6 DEF Retire, Alive

LEMMA UnscheduleTrue ==
  ASSUME IInv, RInv, RowInv, NEW t \in Admins, Unschedule(t)
  PROVE  RowInv'
<1>1. job[t].kind # "none" /\ job[t].at = "unschedule" /\ Go(t, "drain") /\ recovering' = recovering
  BY DEF Unschedule, At
<1>2. PICK b \in Bots : /\ b = job[t].bot
                        /\ \E j \in Job : j = job[t] /\ RequestTrue(j) /\ JobSound(j)
  BY <1>1, OwnerIs
<1>3. /\ job[t].kind \in Enders
      /\ IF job[t].kind = "reset" THEN MayStart(b) \/ staged[b] # None ELSE Truth(b)
  BY <1>1, <1>2 DEF RequestTrue
<1>4. /\ UNCHANGED << step, item, op, managed, fatalPending, row >>
      /\ Truth(b)' = Truth(b) /\ MayStart(b)' = MayStart(b) /\ staged' = staged
  BY DEF Unschedule, thread, database, managed, Truth, Alive, MayStart
<1>5. ASSUME NEW j, j.kind = job[t].kind, j.bot = b, j.at = "drain" PROVE RequestTrue(j)'
  BY <1>3, <1>4, <1>5 DEF RequestTrue
<1>6. "drain" \in Places
  BY DEF Places
<1>7. QED BY <1>1, <1>2, <1>4, <1>5, <1>6, MovesOn DEF Quiet

LEMMA FinalizeTrue ==
  ASSUME IInv, RInv, RowInv, NEW t \in Admins, Finalize(t)
  PROVE  RowInv'
<1>1. job[t].kind # "none" /\ job[t].at = "drain" /\ Go(t, "stopped") /\ recovering' = recovering
  BY DEF Finalize, At
<1>2. PICK b \in Bots : /\ b = job[t].bot
                        /\ \E j \in Job : j = job[t] /\ RequestTrue(j) /\ JobSound(j)
  BY <1>1, OwnerIs
<1>3. job[t].kind \in Enders /\ job[t].gen = generations[b]
  BY <1>1, <1>2 DEF RequestTrue, JobSound
<1>4. /\ bots' = [bots EXCEPT ![b] = None] /\ failed' = [failed EXCEPT ![b] = None]
      /\ staged' = [staged EXCEPT ![b] = None] /\ retiring' = retiring \ {b}
      /\ UNCHANGED << step, item, op, fatalPending, row >>
      /\ fatalPending[b] = 0
  BY <1>2, <1>3 DEF Finalize, Drained, schedVars, thread, database
<1>5. \A a \in Bots \ {b} : BotSame(a)
  BY <1>4, Types DEF BotSame
<1>6. bots'[b] = None /\ failed'[b] = None /\ staged'[b] = None
  BY <1>4, Types
<1>7. MayStart(b)'
  BY <1>4, <1>6 DEF MayStart
<1>8. WorkSound'
  <2>1. \A a : Working(a)' = Working(a) /\ Recording(a)' = Recording(a)
    BY <1>4 DEF Working, Sweeping, OpsOn, Busy, Recording
  <2>2. ASSUME NEW a \in Bots
        PROVE  /\ (Recording(a) => failed[a] # None)'
               /\ (a \in retiring => Alive(a))'
               /\ (staged[a] # None => ~ Working(a))'
    <3>1. CASE a = b
      <4>1. ~ Recording(b)
        BY <1>4, RowFacts
      <4>2. QED BY <1>4, <1>6, <2>1, <3>1, <4>1
    <3>2. CASE a # b
      BY <1>5, <2>1, <3>2 DEF RowInv, WorkSound, Alive, BotSame
    <3>3. QED BY <3>1, <3>2
  <2>3. QED BY <2>2 DEF WorkSound
<1>9. PICK j \in Job :
          /\ job' = [job EXCEPT ![t] = j]
          /\ j.at = "stopped" /\ j.kind = job[t].kind /\ j.bot = job[t].bot
  <2>1. "stopped" \in Places
    BY DEF Places
  <2>2. QED BY <1>1, <2>1, GoIs
<1>10. RequestTrue(j)'
  BY <1>2, <1>3, <1>7, <1>9 DEF RequestTrue
<1>11. QED BY <1>1, <1>2, <1>5, <1>8, <1>9, <1>10, RequestFrame

\* A reset never gives up: nothing works for what was not opened.
LEMMA GiveUpTrue ==
  ASSUME IInv, RInv, RowInv, NEW t \in Admins, GiveUp(t)
  PROVE  RowInv'
<1>1. job[t].kind # "none" /\ job[t].at = "drain" /\ Leave(t)
  BY DEF GiveUp, At
<1>2. PICK b \in Bots : /\ b = job[t].bot
                        /\ \E j \in Job : j = job[t] /\ RequestTrue(j) /\ JobSound(j)
  BY <1>1, OwnerIs
<1>3. /\ b \in retiring
      /\ IF job[t].kind = "reset" THEN MayStart(b) \/ staged[b] # None ELSE Truth(b)
  BY <1>1, <1>2 DEF RequestTrue, JobSound
<1>4. /\ UNCHANGED << step, item, op, managed, fatalPending, row >>
      /\ Truth(b)' = Truth(b)
  BY DEF GiveUp, schedVars, thread, managed, database, Truth, Alive
<1>5. Truth(b)
  <2>1. SUFFICES ASSUME job[t].kind = "reset" PROVE FALSE
    BY <1>3
  <2>2. staged[b] # None
    BY <1>3, <2>1 DEF MayStart
  <2>3. ~ Working(b) /\ failed[b] = None /\ ~ Recording(b)
    BY <2>2, RowFacts DEF RowInv, WorkSound
  <2>4. inflight[b] = 0 /\ fatalPending[b] = 0
    <3>1. OpsOn(b) = {} /\ ~ Sweeping(b)
      BY <2>3 DEF Working
    <3>2. Cardinality(OpsOn(b)) = 0
      BY <3>1, FS_EmptySet
    <3>3. inflight[b] = Cardinality(OpsOn(b)) + 0 /\ fatalPending[b] = 0
      BY <2>3, <3>1 DEF IInv, WorkIsCounted
    <3>4. QED BY <3>2, <3>3
  <2>5. QED BY <1>2, <2>4 DEF GiveUp, Drained
<1>6. QED BY <1>1, <1>2, <1>4, <1>5, Leaves DEF Quiet

LEMMA CommitStoppedTrue ==
  ASSUME Faithful, IInv, RInv, RowInv, NEW t \in Admins, CommitStopped(t)
  PROVE  RowInv'
<1>1. job[t].kind # "none" /\ job[t].at = "stopped"
  BY DEF CommitStopped, At
<1>2. PICK b \in Bots : /\ b = job[t].bot
                        /\ \E j \in Job : j = job[t] /\ RequestTrue(j) /\ JobSound(j)
  BY <1>1, OwnerIs
<1>3. MayStart(b) /\ job[t].kind \in Enders
  BY <1>1, <1>2 DEF RequestTrue
<1>4. /\ UNCHANGED << step, item, op, managed, fatalPending >> /\ row \in [Bots -> Statuses]
      /\ MayStart(b)' = MayStart(b) /\ ~ Alive(b)'
  BY <1>3 DEF CommitStopped, schedVars, thread, managed, MayStart, Alive, IInv, TypeOK, WorkTypeOK
<1>5. CASE /\ row' = [row EXCEPT ![b] = IF job[t].kind = "delete" THEN "deleted" ELSE "stopped"]
           /\ Leave(t)
  <2>1. (\A a \in Bots \ {b} : row'[a] = row[a]) /\ row'[b] \in {"deleted", "stopped"}
    BY <1>4, <1>5
  <2>2. Truth(b)'
    BY <1>4, <2>1 DEF Truth
  <2>3. QED BY <1>1, <1>2, <1>4, <1>5, <2>1, <2>2, Leaves DEF Quiet
<1>6. CASE job[t].kind = "restart" /\ Go(t, "begin") /\ UNCHANGED << database, recovering >>
  <2>1. ASSUME NEW j, j.kind = job[t].kind, j.bot = b, j.at = "begin" PROVE RequestTrue(j)'
    BY <1>3, <1>4, <1>6, <2>1 DEF RequestTrue
  <2>2. "begin" \in Places /\ \A a \in Bots \ {b} : row'[a] = row[a]
    BY <1>6 DEF Places, database
  <2>3. QED BY <1>1, <1>2, <1>4, <1>6, <2>1, <2>2, MovesOn DEF Quiet
<1>7. ~ (job[t].kind \in CommitFaults /\ job[t].kind # "restart")
  BY <1>3 DEF Faithful, Enders
<1>8. QED BY <1>2, <1>5, <1>6, <1>7 DEF CommitStopped, Faithful

LEMMA BeginTrue ==
  ASSUME IInv, RInv, RowInv, NEW t \in Admins, NEW verb \in Requests \cup {"recover"}, NEW b \in Bots,
         Begin(t, verb, b)
  PROVE  RowInv'
<1> DEFINE j == [kind |-> verb, bot |-> b, gen |-> 0,
                 at |-> CASE verb \in {"start", "recover"} -> "begin"
                          [] verb = "edit" -> "edit"
                          [] OTHER -> "retire"]
<1>1. /\ j.bot = b /\ j.kind = verb
      /\ j.at = CASE verb \in {"start", "recover"} -> "begin"
                  [] verb = "edit" -> "edit"
                  [] OTHER -> "retire"
      /\ job' = [job EXCEPT ![t] = j]
  BY DEF Begin
<1> HIDE DEF j
<1>2. SUFFICES ASSUME NEW r, r = j PROVE RowInv'
  OBVIOUS
<1>3. /\ UNCHANGED << step, item, op, bots, failed, staged, retiring, fatalPending, row, recovering >>
      /\ ~ Owned(b) /\ job[t] = NoJob
  BY DEF Begin, schedVars, thread, managed, database
<1>4. \A a : BotSame(a)
  BY <1>3 DEF BotSame
<1>5. RequestTrue(r)'
  <2>1. Truth(b)' = Truth(b) /\ MayStart(b)' = MayStart(b)
    BY <1>4, SameTruth
  <2>2. IF b \in recovering THEN MayStart(b) ELSE Truth(b)
    BY <1>3 DEF RowInv, RestTrue
  <2>3. CASE verb = "recover"
    <3>1. b \in recovering
      BY <2>3 DEF Begin, Eligible, MayRecover
    <3>2. QED BY <1>1, <1>2, <2>1, <2>2, <2>3, <3>1 DEF RequestTrue
  <2>4. CASE verb # "recover"
    <3>1. recovering = {}
      BY <2>4 DEF Begin, Eligible
    <3>2. Truth(b)'
      BY <2>1, <2>2, <3>1
    <3>3. verb \in {"start", "stop", "restart", "delete", "update", "edit"}
      BY <2>4 DEF Kinds
    <3>4. QED BY <1>1, <1>2, <3>2, <3>3 DEF RequestTrue, Enders
  <2>5. QED BY <2>3, <2>4
<1>6. \A s \in Admins : job'[s] = IF s = t THEN r ELSE job[s]
  BY <1>1, <1>2, Types
<1>7. ASSUME NEW s \in Admins, NEW k, k = job'[s] PROVE RequestTrue(k)'
  <2>1. CASE s = t
    BY <1>5, <1>6, <1>7, <2>1
  <2>2. CASE s # t
    <3>1. RequestTrue(k)
      BY <1>6, <1>7, <2>2 DEF RowInv
    <3>2. QED BY <1>4, <3>1, SameRequest
  <2>3. QED BY <2>1, <2>2
<1>8. \A s \in Admins : RequestTrue(job[s])'
  BY <1>7 DEF RequestTrue
<1>9. ASSUME NEW a \in Bots PROVE RestTrue(a)'
  <2>1. job[t].kind = "none"
    BY <1>3, NullRecords
  <2>2. ~ Owned(a)' => ~ Owned(a)
    BY <1>6, <2>1 DEF Owned
  <2>3. RestTrue(a) /\ Truth(a)' = Truth(a) /\ MayStart(a)' = MayStart(a)
    BY <1>4, SameTruth DEF RowInv
  <2>4. QED BY <1>3, <2>2, <2>3 DEF RestTrue
<1>10. WorkSound'
  BY <1>3, SameWork DEF RowInv
<1>11. QED BY <1>8, <1>9, <1>10 DEF RowInv

\* What clients and the thread do before an error is fatal.
LEMMA ClientTrue ==
  ASSUME IInv, RInv, RowInv, NEW c \in Clients,
         \/ \E b \in Bots, reads \in BOOLEAN : Admit(c, b, reads)
         \/ ChangeState(c) \/ Release(c)
  PROVE  RowInv'
<1>1. UNCHANGED << step, item, bots, failed, staged, retiring, fatalPending, row, job, recovering >>
  BY DEF Admit, ChangeState, Release, schedVars, thread, managed, database
<1>2. ASSUME NEW a \in Bots, staged[a] # None PROVE ~ Working(a)'
  <2>1. ~ Working(a) /\ staged[a] = generations[a] /\ bots[a] # None
    BY <1>2, RowFacts DEF RowInv, WorkSound
  <2>2. ASSUME NEW b \in Bots, NEW reads \in BOOLEAN, Admit(c, b, reads)
        PROVE  OpsOn(a)' \subseteq OpsOn(a)
    <3>1. b # a
      BY <2>1, <2>2 DEF Admit, Admits, Starting
    <3>2. \A d \in Clients : op'[d] = IF d = c THEN op'[c] ELSE op[d]
      BY <2>2 DEF Admit, IInv, TypeOK, WorkTypeOK
    <3>3. op'[c].bot = b
      BY <2>2 DEF Admit, IInv, TypeOK, WorkTypeOK
    <3>4. QED BY <3>1, <3>2, <3>3 DEF OpsOn, Busy
  <2>3. ASSUME Release(c) PROVE OpsOn(a)' \subseteq OpsOn(a)
    <3>1. \A d \in Clients : op'[d] = IF d = c THEN NoOp ELSE op[d]
      BY <2>3 DEF Release, IInv, TypeOK, WorkTypeOK
    <3>2. NoOp.gen = None
      BY NullRecords
    <3>3. QED BY <3>1, <3>2 DEF OpsOn, Busy
  <2>4. ASSUME ChangeState(c) PROVE OpsOn(a)' \subseteq OpsOn(a)
    BY <2>4 DEF ChangeState, OpsOn, Busy
  <2>5. OpsOn(a)' \subseteq OpsOn(a)
    BY <2>2, <2>3, <2>4
  <2>6. QED BY <1>1, <2>1, <2>5 DEF Working, Sweeping
<1>3. WorkSound'
  BY <1>1, <1>2 DEF RowInv, WorkSound, Recording, Alive
<1>4. \A a : Truth(a)' = Truth(a) /\ MayStart(a)' = MayStart(a)
  BY <1>1 DEF Truth, Alive, MayStart
<1>5. QED BY <1>1, <1>3, <1>4, WorkerFrame

LEMMA SweepTrue ==
  ASSUME IInv, RInv, RowInv, SweepUnadmitted \/ Enter \/ Sweep \/ TimePasses
  PROVE  RowInv'
<1>1. UNCHANGED << bots, failed, staged, retiring, fatalPending, row, job, recovering, op >>
  BY DEF SweepUnadmitted, Enter, Sweep, TimePasses, managed, database
<1>2. /\ step' \notin {"recording", "committing", "releasing"} \/ UNCHANGED << step, item >>
      /\ step' = "sweeping" => item' = item /\ (step = "sweeping" \/ AdmitsSweep(item))
  BY DEF SweepUnadmitted, Enter, Sweep, TimePasses, FireDue, NextItem, Refused, CountSuccess,
         DropFailure, CountFailure, Requeue, RemoveFailing, EnterSweep, SweepSucceeds, SweepFails,
         Finished, Tick, thread
<1>3. \A a \in Bots : Recording(a)' => Recording(a)
  BY <1>2 DEF Recording
<1>4. ASSUME NEW a \in Bots, staged[a] # None PROVE ~ Working(a)'
  <2>1. ~ Working(a) /\ staged[a] = generations[a] /\ bots[a] # None
    BY <1>4, RowFacts DEF RowInv, WorkSound
  <2>2. ~ Sweeping(a)'
    BY <1>2, <2>1 DEF Working, Sweeping, AdmitsSweep, Admits, Starting
  <2>3. OpsOn(a)' = OpsOn(a)
    BY <1>1 DEF OpsOn, Busy
  <2>4. QED BY <2>1, <2>2, <2>3 DEF Working
<1>5. WorkSound'
  BY <1>1, <1>3, <1>4 DEF RowInv, WorkSound, Alive
<1>6. \A a : Truth(a)' = Truth(a) /\ MayStart(a)' = MayStart(a)
  BY <1>1 DEF Truth, Alive, MayStart
<1>7. QED BY <1>1, <1>5, <1>6, WorkerFrame

\* The live instance is set aside: its row says running until it says error.
LEMMA FatalTrue ==
  ASSUME IInv, RInv, RowInv, OnFatalError
  PROVE  RowInv'
<1>1. PICK b \in Bots : b = item.bot
  BY Types
<1>2. step = "fatal" /\ UNCHANGED << staged, retiring, row, job, recovering, op, generations >>
  BY DEF OnFatalError, database
<1>3. CASE /\ generations[b] = item.mgrGen /\ staged[b] # item.mgrGen /\ bots[b] # None
           /\ bots' = [bots EXCEPT ![b] = None] /\ failed' = [failed EXCEPT ![b] = bots[b]]
           /\ fatalPending' = [fatalPending EXCEPT ![b] = @ + 1]
           /\ step' = "recording" /\ item' = item
  <2>1. /\ bots'[b] = None /\ failed'[b] = bots[b]
        /\ \A a \in Bots \ {b} : /\ bots'[a] = bots[a] /\ failed'[a] = failed[a]
                                 /\ fatalPending'[a] = fatalPending[a]
    BY <1>3, Types DEF IInv, TypeOK, WorkTypeOK
  <2>2. staged[b] = None
    BY <1>3, RowFacts
  <2>3. \A a \in Bots : Alive(a)' <=> Alive(a)
    BY <1>3, <2>1 DEF Alive
  <2>4. \A a \in Bots : /\ Recording(a)' => a = b
                        /\ Working(a)' => Working(a)
    BY <1>1, <1>2, <1>3 DEF Recording, Working, Sweeping, OpsOn, Busy
  <2>5. WorkSound'
    BY <1>2, <1>3, <2>1, <2>3, <2>4 DEF RowInv, WorkSound
  <2>6. ASSUME NEW a \in Bots
        PROVE  (Truth(a) => Truth(a)') /\ (MayStart(a) => MayStart(a)' /\ row'[a] = row[a])
    <3>1. CASE a = b
      BY <1>2, <1>3, <2>1, <2>3, <3>1 DEF Truth, MayStart
    <3>2. CASE a # b
      BY <1>2, <2>1, <2>3, <3>2 DEF Truth, MayStart
    <3>3. QED BY <3>1, <3>2
  <2>7. QED BY <1>2, <2>5, <2>6, WorkerFrame
<1>4. CASE Finished /\ UNCHANGED << bots, failed, fatalPending >>
  <2>1. step' = "idle"
    BY <1>4 DEF Finished
  <2>2. \A a : ~ Recording(a)' /\ Alive(a)' = Alive(a) /\ (Working(a)' => Working(a))
    BY <1>2, <1>4, <2>1 DEF Recording, Alive, Working, Sweeping, OpsOn, Busy
  <2>3. WorkSound'
    BY <1>2, <2>2 DEF RowInv, WorkSound
  <2>4. \A a : Truth(a)' = Truth(a) /\ MayStart(a)' = MayStart(a)
    BY <1>2, <1>4 DEF Truth, Alive, MayStart
  <2>5. QED BY <1>2, <2>3, <2>4, WorkerFrame
<1>5. QED BY <1>1, <1>3, <1>4 DEF OnFatalError

LEMMA RecordTrue ==
  ASSUME IInv, RInv, RowInv, CheckOurs \/ CommitError \/ ReleaseFatal
  PROVE  RowInv'
<1>1. PICK b \in Bots : b = item.bot
  BY Types
<1>2. /\ UNCHANGED << bots, failed, staged, retiring, job, recovering, op >>
      /\ step \in {"recording", "committing", "releasing"}
      /\ step' = "idle" \/ (step' \in {"committing", "releasing"} /\ item' = item)
  BY DEF CheckOurs, CommitError, ReleaseFatal, managed, Finished
<1>3. Recording(b) /\ failed[b] # None /\ bots[b] = None /\ staged[b] = None
  <2>1. Recording(b)
    BY <1>1, <1>2 DEF Recording
  <2>2. QED BY <2>1, RowFacts DEF RowInv, WorkSound
<1>4. \A a \in Bots : /\ Recording(a)' => Recording(a)
                      /\ Working(a)' => Working(a)
                      /\ Alive(a)' = Alive(a)
  BY <1>1, <1>2 DEF Recording, Working, Sweeping, OpsOn, Busy, Alive
<1>5. WorkSound'
  BY <1>2, <1>4 DEF RowInv, WorkSound
<1>6. /\ row' = row \/ row' = [row EXCEPT ![b] = "error"]
      /\ fatalPending' = fatalPending \/ fatalPending' = Released(fatalPending, b)
      /\ row \in [Bots -> Statuses] /\ fatalPending \in [Bots -> Nat]
  BY <1>1 DEF CheckOurs, CommitError, ReleaseFatal, database, IInv, TypeOK, WorkTypeOK
<1>7. \A a \in Bots \ {b} : row'[a] = row[a] /\ fatalPending'[a] = fatalPending[a]
  BY <1>6 DEF Released
<1>8. row'[b] = row[b] \/ row'[b] = "error"
  BY <1>6
<1>9. ASSUME NEW a \in Bots
      PROVE  /\ Truth(a) => Truth(a)'
             /\ MayStart(a) => MayStart(a)' /\ row'[a] = row[a]
             /\ staged[a] # None => row'[a] = row[a]
  <2>1. CASE a = b
    BY <1>2, <1>3, <1>8, <2>1 DEF Truth, MayStart, Alive
  <2>2. CASE a # b
    BY <1>2, <1>7, <2>2 DEF Truth, MayStart, Alive
  <2>3. QED BY <2>1, <2>2
<1>10. QED BY <1>2, <1>5, <1>9, WorkerFrame

LEMMA InitTrue == Init => RowInv
<1> SUFFICES ASSUME Init PROVE RowInv
  OBVIOUS
<1>1. WorkSound
  BY DEF Init, SchedInit, WorkSound, Recording, None
<1>2. \A t \in Admins : RequestTrue(job[t])
  BY NullRecords DEF Init, RequestTrue
<1>3. \A b \in Bots : RestTrue(b)
  BY DEF Init, RestTrue, Truth, MayStart, Alive, Statuses
<1>4. QED BY <1>1, <1>2, <1>3 DEF RowInv

LEMMA NextTrue ==
  ASSUME Faithful, IInv, RInv, RowInv, [Next]_vars
  PROVE  RowInv'
<1>1. ASSUME NEW t \in Admins, Handle(t)
      PROVE  RowInv'
  BY <1>1, CheckStartTrue, ConstructTrue, ConstructFailsTrue, PublishTrue, CommitRunningTrue,
     RegisterTrue, OpenTrue, EndTrue, RetireTrue, UnscheduleTrue, FinalizeTrue, GiveUpTrue,
     CommitStoppedTrue DEF Handle
<1>2. ASSUME NEW t \in Admins, NEW verb \in Requests \cup {"recover"}, NEW b \in Bots,
             Begin(t, verb, b)
      PROVE  RowInv'
  BY <1>2, BeginTrue
<1>3. ASSUME NEW c \in Clients,
             \/ \E b \in Bots, reads \in BOOLEAN : Admit(c, b, reads)
             \/ ChangeState(c) \/ Release(c)
      PROVE  RowInv'
  BY <1>3, ClientTrue
<1>4. CASE Sweeper \/ TimePasses
  BY <1>4, SweepTrue, FatalTrue, RecordTrue DEF Sweeper
<1>5. CASE UNCHANGED vars
  <2>1. UNCHANGED << step, item, op, bots, failed, staged, retiring, fatalPending, row, job,
                     recovering >>
    BY <1>5 DEF vars, schedVars, thread, managed, database
  <2>2. \A a : Truth(a)' = Truth(a) /\ MayStart(a)' = MayStart(a)
    BY <2>1 DEF Truth, Alive, MayStart
  <2>3. QED BY <2>1, <2>2, SameWork, WorkerFrame DEF RowInv
<1>6. QED BY <1>1, <1>2, <1>3, <1>4, <1>5 DEF Next

\* Once the process has recovered, the row of a bot that no request owns tells
\* whether the bot has an instance and whether it serves, however starts, stops,
\* restarts, deletions, edits and fatal errors interleave, whatever start fails
\* to construct or to commit, and whatever drain times out; of the commits only
\* those of a start, a restart, a recovery and a fatal error may fail, and
\* no request may raise what its route does not expect (router.py:196-235,
\* 885-1100, main.py:528-590, manager.py:519-591).
THEOREM RowsAreTrue ==
  ASSUME ~ StrayErrors, CommitFaults \cap {"stop", "delete", "update", "reset"} = {}
  PROVE  Spec => []RowTellsTruth
<1>1. Faithful
  BY DEF Faithful
<1>2. IInv /\ RInv /\ RowInv /\ [Next]_vars => RowInv'
  BY <1>1, NextTrue
<1>3. RowInv => RowTellsTruth
  <2>1. ASSUME RowInv, NEW b \in Bots, ~ Owned(b), recovering = {} PROVE Truth(b)
    BY <2>1 DEF RowInv, RestTrue
  <2>2. QED BY <2>1 DEF RowTellsTruth, Truth, Alive
<1>4. QED
  BY Invariance, ServedInvariance, InitTrue, <1>2, <1>3, PTL DEF Spec

-----------------------------------------------------------------------------
(***************************************************************************)
(* ServerTyped: what survives the process has its type in the parts        *)
(* together, since a behaviour of them all is one of each (main.py,        *)
(* backup/service.py, backup/scheduler.py, broadcast/service.py).          *)
(***************************************************************************)
THEOREM ServerTyped == ServerSpec => []ServerTypeOK
<1>1. ServerInit => StartupInit /\ RestoreInit /\ TimerInit /\ BroadcastInit
  BY DEF ServerInit
<1>2. [ServerNext]_serverVars =>
        /\ [StartupNext]_startupVars /\ [RestoreNext]_restoreVars
        /\ [TimerNext]_timerVars /\ [BroadcastNext]_broadcastVars
  BY DEF ServerNext, serverVars
<1>3. ServerSpec => StartupSpec /\ RestoreSpec /\ TimerSpec /\ BroadcastSpec
  BY <1>1, <1>2, PTL DEF ServerSpec, StartupSpec, RestoreSpec, TimerSpec, BroadcastSpec
<1>4. StartupTypeOK /\ RestoreTypeOK /\ TimerTypeOK /\ BroadcastTypeOK => ServerTypeOK
  BY DEF ServerTypeOK
<1>5. QED BY <1>3, <1>4, StartupTyped, RestoreTyped, TimerTyped, BroadcastsTyped, PTL
=============================================================================
