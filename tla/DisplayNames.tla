----------------------------- MODULE DisplayNames -----------------------------
(***************************************************************************)
(* Names shown for Feishu ids: the client's cache (core/platforms/         *)
(* feishu.py), filled by one batch per application (NameBatches in         *)
(* feishu/display_names.py) and by commands that warm a single id, and the *)
(* endpoint that tells the page whether to ask again.  Nothing locks the   *)
(* cache and the table of batches together.                                *)
(***************************************************************************)
EXTENDS Naturals, FiniteSets

CONSTANTS
  NamedActors,  \* ids the bot's page shows
  Commands,     \* threads of commands that warm one id
  Pages         \* requests of the page

VARIABLES
  label,   \* FeishuClient._names: "none", "name", or "failed" (the id itself)
  active,  \* NameBatches.active for this application: ids of its batch
  batch,   \* the batch's worker: where it stands and the ids it asks for
  warmer,  \* per command thread: the id it is asking for, or none
  page     \* per request: where it stands, what it has seen, its answer

dnVars == <<label, active, batch, warmer, page>>

NoBatch == [at |-> "none", ids |-> {}]
Fresh == [at |-> "new", pending |-> {}, lacking |-> FALSE, answer |-> "none"]
Unknown == {u \in NamedActors : label[u] = "none"}

DisplayNamesInit ==
  /\ label \in [NamedActors -> {"none", "name"}]
  /\ active = {} /\ batch = NoBatch
  /\ warmer = [c \in Commands |-> {}]
  /\ page = [p \in Pages |-> Fresh]

\* NameBatches.submit: nothing missing, or a batch is there: nothing to do.
RefreshNames(p) ==
  /\ page[p].at = "new"
  /\ page' = [page EXCEPT ![p].at = "submitted"]
  /\ IF Unknown = {} \/ active # {} THEN UNCHANGED <<active, batch>>
     ELSE active' = Unknown /\ batch' = [at |-> "queued", ids |-> Unknown]
  /\ UNCHANGED <<label, warmer>>
ReadOnlyPage(p) ==
  /\ page[p].at = "new"
  /\ page' = [page EXCEPT ![p].at = "submitted"]
  /\ UNCHANGED <<label, active, batch, warmer>>

\* Somebody who looked at both at once would miss a name and see no batch.
Lacking == Unknown \ active # {}

\* _read: admission first ...
ReadPending(p) ==
  /\ page[p].at = "submitted"
  /\ page' = [page EXCEPT ![p].at = "admitted", ![p].pending = active,
                          ![p].lacking = Lacking]
  /\ UNCHANGED <<label, active, batch, warmer>>

\* Mutant: a missing name is given up although its batch is under way.
AnswerImpatiently(pending) == IF Unknown # {} THEN "limited" ELSE "ready"

AnswerOf(pending) ==
  IF Unknown \cap pending # {} THEN "pending"
  ELSE IF Unknown # {} THEN "limited"
  ELSE IF \E u \in NamedActors : label[u] = "failed" THEN "unavailable"
  ELSE "ready"

\* ... then the labels.
ReadLabels(p) ==
  /\ page[p].at = "admitted"
  /\ page' = [page EXCEPT ![p].at = "answered",
       ![p].lacking = @ \/ Lacking,
       ![p].answer = AnswerOf(page[p].pending)]
  /\ UNCHANGED <<label, active, batch, warmer>>
AskAgain(p) ==
  /\ page[p].at = "answered"
  /\ page' = [page EXCEPT ![p] = Fresh]
  /\ UNCHANGED <<label, active, batch, warmer>>

\* warm_user_names: what is still missing is asked for in one request; the
\* answer may name any of them.
StartBatch ==
  /\ batch.at = "queued"
  /\ LET missing == batch.ids \cap Unknown IN
     batch' = [at |-> IF missing = {} THEN "finished" ELSE "asking", ids |-> missing]
  /\ UNCHANGED <<label, active, warmer, page>>
\* A failure never replaces a name that another thread put there meanwhile.
Enter(named, asked) ==
  [u \in NamedActors |-> IF u \in named THEN "name"
                    ELSE IF u \in asked /\ label[u] # "name" THEN "failed"
                    ELSE label[u]]
BatchAnswers ==
  /\ batch.at = "asking"
  /\ \E named \in SUBSET batch.ids : label' = Enter(named, batch.ids)
  /\ batch' = [batch EXCEPT !.at = "finished"]
  /\ UNCHANGED <<active, warmer, page>>
EndBatch ==
  /\ batch.at = "finished"
  /\ batch' = NoBatch /\ active' = {}
  /\ UNCHANGED <<label, warmer, page>>

\* warm_user_name, from a command.
WarmOne(c) ==
  /\ warmer[c] = {}
  /\ \E u \in Unknown : warmer' = [warmer EXCEPT ![c] = {u}]
  /\ UNCHANGED <<label, active, batch, page>>
WarmedOne(c) ==
  /\ warmer[c] # {}
  /\ \E named \in SUBSET warmer[c] : label' = Enter(named, warmer[c])
  /\ warmer' = [warmer EXCEPT ![c] = {}]
  /\ UNCHANGED <<active, batch, page>>

\* Six hours or five minutes later; a request of the page lasts milliseconds.
LabelExpires ==
  /\ \A p \in Pages : page[p].at \in {"new", "answered"}
  /\ \E u \in NamedActors : label[u] # "none" /\ label' = [label EXCEPT ![u] = "none"]
  /\ UNCHANGED <<active, batch, warmer, page>>

DisplayNamesNext ==
  \/ StartBatch \/ BatchAnswers \/ EndBatch \/ LabelExpires
  \/ \E p \in Pages : RefreshNames(p) \/ ReadOnlyPage(p) \/ ReadPending(p)
                      \/ ReadLabels(p) \/ AskAgain(p)
  \/ \E c \in Commands : WarmOne(c) \/ WarmedOne(c)

DisplayNamesSpec == DisplayNamesInit /\ [][DisplayNamesNext]_dnVars

-----------------------------------------------------------------------------
DisplayNamesTypeOK ==
  /\ label \in [NamedActors -> {"none", "name", "failed"}]
  /\ active \subseteq NamedActors /\ batch.ids \subseteq active

(* The page is told that names are missing and nobody is fetching them     *)
(* only if that was so at one moment of the request: a batch that finishes *)
(* between the two readings never makes it give up for good                *)
(* (display_names.py:168-170).                                             *)
LimitedIsTrue == \A p \in Pages : page[p].answer = "limited" => page[p].lacking
=============================================================================
