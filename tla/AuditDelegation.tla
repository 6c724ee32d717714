--------------------------- MODULE AuditDelegation ---------------------------
(***************************************************************************)
(* Delegated reading of private task notes (audit/delegation.py) and the   *)
(* summary rows that account for it (audit/read_windows.py).  A read takes *)
(* the notes with no transaction and no lock, and is accounted for in a    *)
(* transaction that must be committed before anything is disclosed;        *)
(* rotation and revocation take the same guard as that transaction, a      *)
(* change of the issuer's account or of the bot's identity does not.       *)
(***************************************************************************)
EXTENDS Naturals, FiniteSets

CONSTANTS
  Grants,        \* audit credentials (public ids)
  Readers,       \* requests of their holders
  MaxActive,     \* active credentials the service permits
  MaxHits,       \* reads of one credential per minute
  MaxGeneration, \* bound: rotations and revocations of a credential
  MaxHands,      \* bound: identities of the bot
  MaxVersion,    \* bound: token versions of the issuer
  MaxCount,      \* bound: summary rows' counters
  NoGrant,       \* a credential that was not created yet
  NoReader       \* the guard is free

(* AuditCredential: the scope is the identity of the bot it was issued for, the
   version its issuer's. *)
GrantRows == [generation : Nat, token : Nat, live : BOOLEAN, revoked : BOOLEAN,
              version : Nat, scope : Nat]

ASSUME AuditDelegationAssumption ==
  /\ {MaxActive, MaxHits, MaxHands, MaxVersion, MaxCount} \subseteq Nat /\ MaxGeneration \in Nat \ {0}
  /\ NoGrant \notin GrantRows /\ NoReader \notin Readers

VARIABLES
  grant,     \* AuditCredential rows
  issuer,    \* the super administrator: [version, super]
  identity,  \* the bot's uuid, revision and owner, as one number
  guard,     \* _guard: the reader that holds it (management is atomic)
  readHits,  \* ReadBudget
  summary,   \* AuditReadWindow/AuditLog: requests per boundary
  readers,   \* per request: where it stands and what it carries
  disclosed  \* ghost: answers that went out, per boundary

adVars == <<grant, issuer, identity, guard, readHits, summary, readers, disclosed>>
worldVars == <<grant, issuer, identity>>

Off == [at |-> "idle", grant |-> NoGrant, token |-> 0, generation |-> 0, notes |-> 0]

AuditDelegationInit ==
  /\ grant = [g \in Grants |-> NoGrant]
  /\ issuer = [version |-> 1, super |-> TRUE] /\ identity = 1
  /\ guard = NoReader /\ readHits = [g \in Grants |-> 0]
  /\ summary = <<>> /\ disclosed = <<>>
  /\ readers = [r \in Readers |-> Off]

Tally(f, k) == IF k \in DOMAIN f THEN f[k] ELSE 0
Counted(f, k) == [x \in DOMAIN f \cup {k} |-> Tally(f, x) + IF x = k THEN 1 ELSE 0]

Active(g) == grant[g] # NoGrant /\ grant[g].live

-----------------------------------------------------------------------------
(* Management, under the guard. *)

\* create_credential
CreateGrant(g) ==
  /\ guard = NoReader /\ issuer.super
  /\ grant[g] = NoGrant
  /\ Cardinality({h \in Grants : Active(h)}) < MaxActive
  /\ grant' = [grant EXCEPT ![g] =
       [generation |-> 1, token |-> 1, live |-> TRUE, revoked |-> FALSE,
        version |-> issuer.version, scope |-> identity]]
  /\ UNCHANGED <<issuer, identity, guard, readHits, summary, readers, disclosed>>

\* rotate_credential: a new token for the scope as it is now.
RotateGrant(g) ==
  /\ guard = NoReader /\ issuer.super
  /\ grant[g] # NoGrant /\ ~grant[g].revoked /\ grant[g].generation < MaxGeneration
  /\ grant' = [grant EXCEPT ![g] =
       [generation |-> @.generation + 1, token |-> @.token + 1, live |-> TRUE, revoked |-> FALSE,
        version |-> issuer.version, scope |-> identity]]
  /\ UNCHANGED <<issuer, identity, guard, readHits, summary, readers, disclosed>>

\* revoke_credential: the digest stays, so the token is still recognised.
RevokeGrant(g) ==
  /\ guard = NoReader /\ issuer.super
  /\ grant[g] # NoGrant /\ ~grant[g].revoked /\ grant[g].generation < MaxGeneration
  /\ grant' = [grant EXCEPT ![g].generation = @ + 1, ![g].live = FALSE, ![g].revoked = TRUE]
  /\ UNCHANGED <<issuer, identity, guard, readHits, summary, readers, disclosed>>

(* What does not take the guard. *)
GrantExpires(g) ==
  /\ Active(g)
  /\ grant' = [grant EXCEPT ![g].live = FALSE]
  /\ UNCHANGED <<issuer, identity, guard, readHits, summary, readers, disclosed>>
IssuerChanges ==
  /\ issuer.version < MaxVersion
  /\ \E keeps \in BOOLEAN : issuer' = [version |-> issuer.version + 1, super |-> keeps]
  /\ UNCHANGED <<grant, identity, guard, readHits, summary, readers, disclosed>>
BotChangesHands ==
  /\ identity < MaxHands /\ identity' = identity + 1
  /\ UNCHANGED <<grant, issuer, guard, readHits, summary, readers, disclosed>>
BudgetRenews ==
  /\ \E g \in Grants : readHits[g] > 0 /\ readHits' = [readHits EXCEPT ![g] = 0]
  /\ UNCHANGED <<worldVars, guard, summary, readers, disclosed>>

-----------------------------------------------------------------------------
(* Reading. *)

\* _authorize: a token that is not recognised leaves no trace; one that is
\* recognised and refused leaves a denial in its own transaction.
Recognised(g, token) == grant[g] # NoGrant /\ grant[g].token = token
\* Mutant: whose bot it is by now does not matter.
EntitledWhoever(g) == grant[g].live /\ issuer.super /\ issuer.version = grant[g].version

Entitled(g) ==
  /\ grant[g].live
  /\ issuer.super /\ issuer.version = grant[g].version
  /\ grant[g].scope = identity

Boundary(g, action) ==
  [grant |-> g, generation |-> grant[g].generation, identity |-> identity,
   version |-> issuer.version, action |-> action]

Note(k) == Tally(summary, k) < MaxCount /\ summary' = Counted(summary, k)
Refused(g, token) ==
  IF Recognised(g, token) THEN Note(Boundary(g, "denied")) ELSE UNCHANGED summary

Goes(r, v) == readers' = [readers EXCEPT ![r] = v]

\* The first authorization and the budget.
BeginRead(r) ==
  /\ readers[r].at = "idle"
  /\ \E g \in Grants, token \in 1..MaxGeneration :
       IF Recognised(g, token) /\ Entitled(g)
         THEN /\ readHits[g] < MaxHits
              /\ readHits' = [readHits EXCEPT ![g] = @ + 1]
              /\ Goes(r, [Off EXCEPT !.at = "allowed", !.grant = g, !.token = token,
                                     !.generation = grant[g].generation])
              /\ UNCHANGED summary
         ELSE Recognised(g, token) /\ Refused(g, token) /\ UNCHANGED <<readers, readHits>>
  /\ UNCHANGED <<worldVars, guard, disclosed>>

\* read_history / active_declarations: whatever bot stands behind the id now.
TakeNotes(r) ==
  /\ readers[r].at = "allowed"
  /\ Goes(r, [readers[r] EXCEPT !.at = "holding", !.notes = identity])
  /\ UNCHANGED <<worldVars, guard, readHits, summary, disclosed>>

\* The second authorization, under the guard, with the same generation.
TakeGuard(r) ==
  LET g == readers[r].grant IN
  /\ readers[r].at = "holding" /\ guard = NoReader
  /\ IF Recognised(g, readers[r].token) /\ Entitled(g)
          /\ grant[g].generation = readers[r].generation
       THEN /\ guard' = r /\ Goes(r, [readers[r] EXCEPT !.at = "guarded"])
            /\ UNCHANGED summary
       ELSE /\ Refused(g, readers[r].token) /\ Goes(r, Off) /\ UNCHANGED guard
  /\ UNCHANGED <<worldVars, readHits, disclosed>>

\* _finish_read: authorize again and commit the summary, or fail closed.
CommitSummary(r) ==
  LET g == readers[r].grant IN
  /\ readers[r].at = "guarded"
  /\ \/ /\ Entitled(g)
        /\ Note(Boundary(g, "read"))
        /\ Goes(r, [readers[r] EXCEPT !.at = "recorded"])
        /\ UNCHANGED guard
     \/ /\ ~Entitled(g)
        /\ Refused(g, readers[r].token) /\ Goes(r, Off) /\ guard' = NoReader
     \/ /\ UNCHANGED summary /\ Goes(r, Off) /\ guard' = NoReader
  /\ UNCHANGED <<worldVars, readHits, disclosed>>

\* The last authorization decides whether the answer leaves the service.
Disclose(r) ==
  LET g == readers[r].grant IN
  /\ readers[r].at = "recorded"
  /\ IF Entitled(g)
       THEN /\ disclosed' = Counted(disclosed,
                 [Boundary(g, "read") EXCEPT !.identity = readers[r].notes])
            /\ UNCHANGED summary
       ELSE Refused(g, readers[r].token) /\ UNCHANGED disclosed
  /\ Goes(r, Off) /\ guard' = NoReader
  /\ UNCHANGED <<worldVars, readHits>>

\* The process dies; committed rows stay.
AuditCrash ==
  /\ \E r \in Readers : readers[r].at # "idle"
  /\ readers' = [r \in Readers |-> Off] /\ guard' = NoReader
  /\ readHits' = [g \in Grants |-> 0]
  /\ UNCHANGED <<worldVars, summary, disclosed>>

AuditDelegationNext ==
  \/ \E g \in Grants : CreateGrant(g) \/ RotateGrant(g) \/ RevokeGrant(g) \/ GrantExpires(g)
  \/ IssuerChanges \/ BotChangesHands \/ BudgetRenews \/ AuditCrash
  \/ \E r \in Readers : BeginRead(r) \/ TakeNotes(r) \/ TakeGuard(r)
                        \/ CommitSummary(r) \/ Disclose(r)

AuditDelegationSpec == AuditDelegationInit /\ [][AuditDelegationNext]_adVars

-----------------------------------------------------------------------------
AuditDelegationTypeOK ==
  /\ \A g \in Grants : grant[g] # NoGrant =>
       grant[g].generation \in 1..MaxGeneration /\ grant[g].token <= grant[g].generation
  /\ guard # NoReader => readers[guard].at \in {"guarded", "recorded"}
  /\ \A g \in Grants : readHits[g] <= MaxHits

(* Whatever left the service is on record: for every credential generation *)
(* and bot identity the answers that carried notes of that identity do not *)
(* outnumber the reads that a committed summary row accounts for, also     *)
(* when the process dies or the bot changes hands in between               *)
(* (delegation.py:377-394, read_windows.py:29-32).                         *)
DisclosedIsOnRecord ==
  \A k \in DOMAIN disclosed : disclosed[k] <= Tally(summary, k)
=============================================================================
