--------------------------- MODULE AppCredentials ---------------------------
(***************************************************************************)
(* The secret of one messaging application.  It is stored twice, in the    *)
(* provider's own row (legacy) and in the registry row that every flush    *)
(* mirrors (platform_applications/service.py), and it lives on in the      *)
(* client objects that running bots keep, with the platform token minted   *)
(* under it (feishu/service.py, core/platforms/feishu.py).  Rotation,      *)
(* deletion and creation of the application commit first and reach the     *)
(* clients afterwards, while senders are on their way.                     *)
(***************************************************************************)
EXTENDS Naturals, Sequences, FiniteSets

CONSTANTS
  MaxSecretRevs,  \* bound: secrets the platform issues, numbered in their order
  Senders,        \* threads that send to the platform
  MaxClients,     \* bound: client objects ever built
  MaxChanges,     \* bound: committed changes of the stored rows
  Overlapping,    \* may a creation still be at work when the next change begins?
  IdsReused,      \* is the application's row the newest of its table?  SQLite then
                  \* gives the id of a deleted row to the next one
  NoGuard,        \* a client without a credential guard
  NoChange,       \* nobody is changing the application
  NotSet          \* _credential_generations has no entry for the application

ASSUME AppCredentialsAssumption ==
  /\ MaxSecretRevs \in Nat \ {0}
  /\ MaxClients \in Nat /\ MaxChanges \in Nat /\ {Overlapping, IdsReused} \subseteq BOOLEAN
  /\ \A x \in {NoGuard, NoChange, NotSet} : x \notin 0..MaxSecretRevs

Secrets == 1..MaxSecretRevs
NoSecret == 0

VARIABLES
  obtained,   \* the secret the platform accepts, the newest it has issued
  legacy,     \* FeishuApplication.app_secret, NoSecret without the row
  registry,   \* PlatformApplication: [id, payload, digest, generation, usable], the last
              \* id with nothing in it without the row
  known,      \* _credential_generations[app]: NotSet, NoSecret or a secret
  clients,    \* _client_references: [secret, guard, token]
  cached,     \* _clients: secret -> index of the cached client, 0 if none
  sender,     \* per thread: [at, client, secret, token]
  appChange,  \* the change under the application guard, or NoChange
  creation,   \* a creation after its commit, or NoChange
  orphan,     \* id and generation an orphan deletion has read
  changes     \* counts against MaxChanges

acVars == <<obtained, legacy, registry, known, clients, cached, sender, appChange, creation,
            orphan, changes>>
rowVars == <<obtained, legacy, registry, changes>>
clientVars == <<known, clients, cached>>

NoEntry(i) == [id |-> i, payload |-> NoSecret, digest |-> NoSecret, generation |-> 0, usable |-> TRUE]
Entry(i, s, g) == [id |-> i, payload |-> s, digest |-> s, generation |-> g, usable |-> TRUE]
NoOrphan == [id |-> 0, generation |-> 0]
NoTask == [at |-> "idle", client |-> 0, secret |-> NoSecret, token |-> NoSecret]

AppCredentialsInit ==
  /\ obtained = 1 /\ legacy = 1 /\ registry \in {NoEntry(0), Entry(1, 1, 1)}
  /\ known = NotSet /\ clients = <<>> /\ cached = [s \in Secrets |-> 0]
  /\ sender = [t \in Senders |-> NoTask]
  /\ appChange = NoChange /\ creation = NoChange /\ orphan = NoOrphan /\ changes = 0

-----------------------------------------------------------------------------
(* The two stores. *)

HasEntry == registry.generation > 0

\* _decode: an entry that is expired, corrupt or of another schema is unusable.
Readable == HasEntry => registry.usable

\* credentials_for: the registry's payload while both layouts agree, the
\* provider's row only while there is no entry at all.
CredentialsFor ==
  IF legacy = NoSecret THEN NoSecret
  ELSE IF ~HasEntry THEN legacy
  ELSE IF registry.usable /\ registry.digest = legacy THEN registry.payload
  ELSE NoSecret

NextId == IF IdsReused THEN 1 ELSE registry.id + 1

\* mirror_source within the flush that writes the provider's row.
Mirrored(s, newly) ==
  IF ~HasEntry THEN Entry(NextId, s, 1)
  ELSE IF newly \/ registry.digest # s THEN Entry(registry.id, s, registry.generation + 1)
  ELSE registry

\* A new or rotated secret is first tried on the platform.
Accepted == {s \in {obtained, obtained + 1} : s <= MaxSecretRevs}

StoreEntry(s, newly) ==
  /\ Readable /\ changes < MaxChanges
  /\ obtained' = s /\ legacy' = s /\ registry' = Mirrored(s, newly) /\ changes' = changes + 1

\* backfill at start-up: mirror what an older release left in the legacy row.
Backfill ==
  /\ legacy # NoSecret /\ Readable /\ Mirrored(legacy, FALSE) # registry
  /\ registry' = Mirrored(legacy, FALSE)
  /\ UNCHANGED <<obtained, legacy, known, clients, cached, sender, appChange, creation,
                 orphan, changes>>

\* A release without the registry wrote or deleted the legacy row.
OldReleaseWrites ==
  /\ changes < MaxChanges /\ changes' = changes + 1
  /\ appChange = NoChange /\ creation = NoChange
  /\ \E s \in Accepted \cup {NoSecret} :
       s # legacy /\ legacy' = s /\ obtained' = IF s = NoSecret THEN obtained ELSE s
  /\ known' = NotSet /\ clients' = <<>> /\ cached' = [s \in Secrets |-> 0]
  /\ sender' = [t \in Senders |-> NoTask] /\ orphan' = NoOrphan
  /\ UNCHANGED <<registry, appChange, creation>>

\* The entry expires (expires_at) or its envelope is damaged.
EntryLapses ==
  /\ HasEntry /\ registry.usable
  /\ registry' = [registry EXCEPT !.usable = FALSE]
  /\ UNCHANGED <<obtained, legacy, known, clients, cached, sender, appChange, creation,
                 orphan, changes>>

-----------------------------------------------------------------------------
(* Changing the application. *)

\* invalidate_application_clients: all under _clients_lock, each client
\* under its own lock, so no token is being minted.
Invalidate(secret, guard) ==
  /\ known' = secret
  /\ clients' = [i \in DOMAIN clients |->
       [secret |-> secret, token |-> NoSecret,
        guard |-> IF guard = NoGuard THEN clients[i].guard ELSE guard]]
  /\ cached' = [s \in Secrets |-> 0]

ChangeMayBegin ==
  appChange = NoChange /\ (Overlapping \/ creation = NoChange)

\* update_application with a new secret, up to its commit ...
RotateSecret ==
  /\ ChangeMayBegin /\ legacy # NoSecret
  /\ \E s \in Accepted \ {legacy} : StoreEntry(s, FALSE) /\ appChange' = s
  /\ UNCHANGED <<known, clients, cached, sender, creation, orphan>>
\* ... delete_application, whose flush takes the registry row along ...
DeleteApplication ==
  /\ ChangeMayBegin /\ legacy # NoSecret /\ changes < MaxChanges
  /\ legacy' = NoSecret /\ registry' = NoEntry(registry.id) /\ changes' = changes + 1
  /\ appChange' = NoSecret
  /\ UNCHANGED <<obtained, known, clients, cached, sender, creation, orphan>>
\* ... and their second half, still under the guard: runtime_guard reads
\* the rows again, the secret is the one the request brought.
ReachClients ==
  /\ appChange # NoChange
  /\ IF appChange = NoSecret THEN Invalidate(NoSecret, NoGuard)
     ELSE IF CredentialsFor = NoSecret THEN UNCHANGED clientVars
     ELSE Invalidate(appChange, CredentialsFor)
  /\ appChange' = NoChange
  /\ UNCHANGED <<rowVars, sender, creation, orphan>>

\* _recover_application_receiver, after a change that failed before its commit.
RecoverClients ==
  /\ appChange = NoChange /\ CredentialsFor # NoSecret
  /\ Overlapping \/ creation = NoChange
  /\ Invalidate(CredentialsFor, CredentialsFor)
  /\ UNCHANGED <<rowVars, sender, appChange, creation, orphan>>

\* create_application: no application guard around either half.
CreateApplication ==
  /\ legacy = NoSecret /\ creation = NoChange
  /\ Overlapping \/ appChange = NoChange
  /\ \E s \in Accepted : StoreEntry(s, TRUE) /\ creation' = s
  /\ UNCHANGED <<known, clients, cached, sender, appChange, orphan>>
ReachClientsOfNew ==
  /\ creation # NoChange
  /\ IF CredentialsFor = NoSecret THEN UNCHANGED clientVars
     ELSE Invalidate(creation, CredentialsFor)
  /\ creation' = NoChange
  /\ UNCHANGED <<rowVars, sender, appChange, orphan>>

\* delete_orphan: the row is read with no source, and deleted by id and
\* generation (version_id_col).
ReadOrphan ==
  /\ orphan = NoOrphan /\ HasEntry /\ legacy = NoSecret
  /\ orphan' = [id |-> registry.id, generation |-> registry.generation]
  /\ UNCHANGED <<rowVars, clientVars, sender, appChange, creation>>
\* Mutant: whatever row is there by now is deleted.
DeleteOrphanAnyway ==
  /\ orphan # NoOrphan /\ orphan' = NoOrphan
  /\ registry' = NoEntry(registry.id)
  /\ UNCHANGED <<obtained, legacy, changes, clientVars, sender, appChange, creation>>

DeleteOrphan ==
  /\ orphan # NoOrphan
  /\ orphan' = NoOrphan
  /\ registry' = IF registry.id = orphan.id /\ registry.generation = orphan.generation
                 THEN NoEntry(registry.id) ELSE registry
  /\ UNCHANGED <<obtained, legacy, changes, clientVars, sender, appChange, creation>>

-----------------------------------------------------------------------------
(* Sending. *)

Set(t, v) == sender' = [sender EXCEPT ![t] = v]
Sendings(t) == clients[sender[t].client]

\* application_client, first half: the secret as stored now.
ReadSecret(t) ==
  /\ sender[t].at = "idle" /\ CredentialsFor # NoSecret
  /\ Set(t, [NoTask EXCEPT !.at = "read", !.secret = CredentialsFor])
  /\ UNCHANGED <<rowVars, clientVars, appChange, creation, orphan>>

\* Second half, under _clients_lock.  The guard is built from the rows as
\* they are by then; a new client whose guard cannot be built stays cached.
ObtainClient(t) ==
  LET s == sender[t].secret
      new == cached[s] = 0
      i == IF new THEN Len(clients) + 1 ELSE cached[s]
      fits == CredentialsFor = s
      with(c) == IF fits THEN [c EXCEPT !.guard = s] ELSE c
  IN
  /\ sender[t].at = "read"
  /\ IF known \notin {NotSet, s} THEN Set(t, NoTask) /\ UNCHANGED clientVars
     ELSE /\ i <= MaxClients
          /\ clients' = IF new
               THEN Append(clients, with([secret |-> s, guard |-> NoGuard, token |-> NoSecret]))
               ELSE [clients EXCEPT ![i] = with(@)]
          /\ cached' = [cached EXCEPT ![s] = i]
          /\ Set(t, IF fits THEN [NoTask EXCEPT !.at = "ready", !.client = i] ELSE NoTask)
          /\ UNCHANGED known
  /\ UNCHANGED <<rowVars, appChange, creation, orphan>>

GuardPasses(c) == c.guard = NoGuard \/ c.guard = CredentialsFor

\* token(), under the client's lock: the cached token, or one minted now.
TakeToken(t) ==
  LET c == Sendings(t) IN
  /\ sender[t].at = "ready"
  /\ IF ~GuardPasses(c) \/ c.secret = NoSecret
       THEN Set(t, [sender[t] EXCEPT !.at = "failed"]) /\ UNCHANGED clients
       ELSE IF c.token # NoSecret
       THEN Set(t, [sender[t] EXCEPT !.at = "authorized", !.token = c.token])
            /\ UNCHANGED clients
       ELSE /\ clients' = [clients EXCEPT ![sender[t].client].token = c.secret]
            /\ Set(t, [sender[t] EXCEPT !.at = "authorized", !.token = c.secret])
  /\ UNCHANGED <<rowVars, known, cached, appChange, creation, orphan>>

\* _authorized_request: the guard once more ...
CheckGuard(t) ==
  /\ sender[t].at = "authorized"
  /\ IF GuardPasses(Sendings(t))
       THEN Set(t, [sender[t] EXCEPT !.at = "guarded", !.secret = CredentialsFor])
       ELSE Set(t, [sender[t] EXCEPT !.at = "failed"])
  /\ UNCHANGED <<rowVars, clientVars, appChange, creation, orphan>>
\* ... and the client must still hold the token this thread has.
CompareToken(t) ==
  LET c == Sendings(t) IN
  /\ sender[t].at = "guarded"
  /\ IF c.guard = NoGuard \/ c.token = sender[t].token
       THEN Set(t, [sender[t] EXCEPT !.at = "sending"])
       ELSE Set(t, [sender[t] EXCEPT !.at = "failed"])
  /\ UNCHANGED <<rowVars, clientVars, appChange, creation, orphan>>

\* The request is over, one way or the other; a running bot keeps its client.
FinishRequest(t) ==
  /\ sender[t].at \in {"sending", "failed"}
  /\ \E keep \in BOOLEAN :
       Set(t, IF keep THEN [NoTask EXCEPT !.at = "ready", !.client = sender[t].client]
              ELSE NoTask)
  /\ UNCHANGED <<rowVars, clientVars, appChange, creation, orphan>>

AppCredentialsNext ==
  \/ Backfill \/ OldReleaseWrites \/ EntryLapses
  \/ RotateSecret \/ DeleteApplication \/ ReachClients \/ RecoverClients
  \/ CreateApplication \/ ReachClientsOfNew \/ ReadOrphan \/ DeleteOrphan
  \/ \E t \in Senders :
       \/ ReadSecret(t) \/ ObtainClient(t) \/ TakeToken(t)
       \/ CheckGuard(t) \/ CompareToken(t) \/ FinishRequest(t)

AppCredentialsSpec == AppCredentialsInit /\ [][AppCredentialsNext]_acVars

-----------------------------------------------------------------------------
AppCredentialsTypeOK ==
  LET Known == Secrets \cup {NoSecret} IN
  /\ legacy \in Known /\ registry.payload \in Known
  /\ Len(clients) <= MaxClients
  /\ \A t \in Senders : sender[t].client \in 0..Len(clients)
  /\ cached \in [Secrets -> 0..Len(clients)]
  /\ changes \in 0..MaxChanges

(* A request goes out only with a token minted under the secret that the   *)
(* database held when it was last checked: "retained clients cannot send   *)
(* after expiry, deletion, an unsupported layout or credential rotation"   *)
(* (docs/design/platform-application-credentials.md:38).                   *)
SentUnderStoredSecret ==
  \A t \in Senders : sender[t].at = "sending" => sender[t].token = sender[t].secret

(* The registry row of an application goes only together with its source:  *)
(* clearing an orphan never takes the row of an application created in the *)
(* meantime (service.py:215-219, router.py:159-169).  So it is as long as  *)
(* ids are not reused: a row that is deleted and created anew begins at    *)
(* generation 1 again.                                                     *)
RowGoesWithSource ==
  [][HasEntry /\ registry'.generation = 0 => legacy' = NoSecret]_acVars

(* An application's secret as a whole: used only while it is the stored    *)
(* one, and its registry row lives and goes with its source.               *)
CredentialsAreSound == []SentUnderStoredSecret /\ RowGoesWithSource
=============================================================================
