------------------------------ MODULE Enrollment -------------------------------
(***************************************************************************)
(* resource_auth/ with the command route of resource_api/: how an agent    *)
(* obtains a key, and how a command is executed with it.                   *)
(*                                                                         *)
(* Issuing a key writes nothing durable: a record waits in memory for its  *)
(* code to be sent from chat.  Confirming it in a bot's group makes a row, *)
(* after which the key acts as that chat user on that bot.  A command is   *)
(* authenticated before it is admitted, and again under the bot's          *)
(* authority guard, which every confirmation and revocation in chat takes. *)
(* Everybody takes the bot's guard before the principal's, so for one bot  *)
(* the first of them orders all; it is the one modelled.                   *)
(***************************************************************************)
EXTENDS Naturals, FiniteSets

CONSTANTS
  Codes,        \* the enrollments that agents ask for: id, code and key of each
  AuthBots,     \* the bots a code may be sent to
  People,       \* verified chat users
  Callers,      \* threads of the command route
  MaxPending,   \* RESOURCE_AUTH_MAX_PENDING_TOTAL (of one source: PER_SOURCE)
  MaxIdentity,  \* bound: identity changes of a bot
  Free          \* nobody holds a bot's guard

ASSUME EnrollAssumption ==
  /\ MaxPending \in Nat \ {0} /\ MaxIdentity \in Nat
  /\ Free \notin Callers /\ Free # "chat" /\ "chat" \notin Callers

VARIABLES
  pending,  \* code -> what the in-process store has of it
  born,     \* code -> the boundaries passed when it was created (created_at)
  keys,     \* the durable rows of resource_bindings
  botRow,   \* bot -> identity_revision, binding_accept_after, resource_auth_enabled, is_deleted
  boundary, \* bot -> how many identity boundaries its clock has passed
  serving,  \* bot -> its admission is open
  chat,     \* bot -> the chat worker that is in handle_chat_binding
  guarded,  \* bot -> who holds its authority guard
  call,     \* caller -> its command
  poll,     \* the agent that asks for the status of its binding
  misses    \* bot, user -> a failed bind is in the throttle window

enrollVars == << pending, born, keys, botRow, boundary, serving, chat, guarded, call, poll, misses >>

Revisions == 0..MaxIdentity
BotRows == [revision : Revisions, acceptAfter : Revisions, enabled : BOOLEAN, deleted : BOOLEAN]
KeyRows == [code : Codes, user : People, bot : AuthBots, revision : Revisions,
            revoked : BOOLEAN, expired : BOOLEAN]
NoChat == [at |-> "none"]
NoCall == [at |-> "none"]
NoPoll == [at |-> "none"]

EnrollInit ==
  /\ pending \in [Codes -> {"unused", "gone"}]
  /\ born = [c \in Codes |-> [b \in AuthBots |-> 0]]
  /\ keys = {}
  /\ \E D \in SUBSET AuthBots :
       botRow = [b \in AuthBots |-> [revision |-> 0, acceptAfter |-> 0, enabled |-> TRUE, deleted |-> b \in D]]
  /\ boundary = [b \in AuthBots |-> 1]
  /\ serving = [b \in AuthBots |-> ~botRow[b].deleted]
  /\ chat = [b \in AuthBots |-> NoChat]
  /\ guarded = [b \in AuthBots |-> Free]
  /\ call = [k \in Callers |-> NoCall]
  /\ poll = NoPoll
  /\ misses = [b \in AuthBots |-> {}]

Outstanding == {c \in Codes : pending[c] \in {"waiting", "reserved"}}

(* authenticate and _binding_is_current: the predicate every use of a key repeats. *)
Current(k) ==
  /\ ~k.expired
  /\ k.revision = botRow[k.bot].revision
Authenticates(k) == Current(k) /\ ~k.revoked /\ ~botRow[k.bot].deleted
Revoke(S) == {[k EXCEPT !.revoked = @ \/ k \in S] : k \in keys}
(* Mutant: only chat workers are waited for. *)
DrainedOfChat(b) == chat[b] = NoChat

Drained(b) == chat[b] = NoChat /\ \A x \in Callers : call[x].at = "executing" => call[x].key.bot # b

-------------------------------------------------------------------------------
(* create_binding: the cap counts the records that are being confirmed.  A
   collision of id or code is retried with others, so a code is used once. *)
CreateBinding ==
  /\ Cardinality(Outstanding) < MaxPending
  /\ \E c \in Codes :
       /\ pending[c] = "unused"
       /\ pending' = [pending EXCEPT ![c] = "waiting"]
       /\ born' = [born EXCEPT ![c] = boundary]
  /\ UNCHANGED << keys, botRow, boundary, serving, chat, guarded, call, poll, misses >>

(* The bind window closes: the next access prunes it, unless it is reserved. *)
WindowCloses(c) ==
  /\ pending[c] = "waiting"
  /\ pending' = [pending EXCEPT ![c] = "gone"]
  /\ UNCHANGED << born, keys, botRow, boundary, serving, chat, guarded, call, poll, misses >>

(* handle_chat_binding: an admitted worker takes the guard, looks at the row
   again and acts.  A refusal ends there; "bind" first reserves the code. *)
EnterChat(b) ==
  /\ serving[b] /\ ~botRow[b].deleted
  /\ chat[b] = NoChat
  /\ guarded[b] = Free
  /\ guarded' = [guarded EXCEPT ![b] = "chat"]
  /\ \E u \in People, what \in {"bind", "unbind"} :
       chat' = [chat EXCEPT ![b] = [at |-> what, user |-> u]]
  /\ UNCHANGED << pending, born, keys, botRow, boundary, serving, call, poll, misses >>

LeaveChat(b) ==
  /\ chat' = [chat EXCEPT ![b] = NoChat]
  /\ guarded' = [guarded EXCEPT ![b] = Free]

OwnRows(u, b) == {k \in keys : k.user = u /\ k.bot = b /\ ~k.revoked}

(* _chat_bind up to the insert: a code nobody knows is a failure to throttle;
   one that is older than the identity is handed back; a user with a current
   key keeps that and uses the code up. *)
ReserveCode(b) ==
  LET u == chat[b].user IN
  /\ chat[b].at = "bind"
  /\ \/ /\ ~botRow[b].enabled \/ u \in misses[b]
        /\ LeaveChat(b)
        /\ UNCHANGED << pending, misses >>
     \/ /\ botRow[b].enabled /\ u \notin misses[b]
        /\ misses' = [misses EXCEPT ![b] = @ \cup {u}]
        /\ LeaveChat(b)
        /\ UNCHANGED pending
     \/ /\ botRow[b].enabled /\ u \notin misses[b]
        /\ \E c \in Codes :
             /\ pending[c] = "waiting"
             /\ IF born[c][b] <= botRow[b].acceptAfter
                THEN LeaveChat(b) /\ UNCHANGED pending
                ELSE /\ pending' = [pending EXCEPT ![c] = "reserved"]
                     /\ chat' = [chat EXCEPT ![b] = [at |-> "commit", user |-> u, code |-> c]]
                     /\ UNCHANGED guarded
        /\ UNCHANGED misses
  /\ UNCHANGED << born, keys, botRow, boundary, serving, call, poll >>

(* The transaction: a previous key that is no longer current is revoked and the
   new row inserted.  It commits, or it fails and the code is handed back. *)
CommitBinding(b) ==
  LET u == chat[b].user
      c == chat[b].code
      old == OwnRows(u, b)
  IN
  /\ chat[b].at = "commit"
  /\ \/ /\ keys' = IF \E k \in old : Current(k) THEN keys
                   ELSE Revoke(old) \cup {[code |-> c, user |-> u, bot |-> b, revoked |-> FALSE,
                                           revision |-> botRow[b].revision, expired |-> FALSE]}
        /\ chat' = [chat EXCEPT ![b].at = "finalize"]
        /\ UNCHANGED << pending, guarded >>
     \/ /\ pending' = [pending EXCEPT ![c] = "waiting"]
        /\ LeaveChat(b)
        /\ UNCHANGED keys
  /\ UNCHANGED << born, botRow, boundary, serving, call, poll, misses >>

FinalizeCode(b) ==
  /\ chat[b].at = "finalize"
  /\ pending' = [pending EXCEPT ![chat[b].code] = "gone"]
  /\ LeaveChat(b)
  /\ UNCHANGED << born, keys, botRow, boundary, serving, call, poll, misses >>

(* _chat_unbind: all of the user's keys of this bot, or one of them. *)
Unbind(b) ==
  /\ chat[b].at = "unbind"
  /\ \E S \in SUBSET OwnRows(chat[b].user, b) : keys' = Revoke(S)
  /\ LeaveChat(b)
  /\ UNCHANGED << pending, born, botRow, boundary, serving, call, poll, misses >>

ThrottleForgets(b) ==
  /\ misses[b] # {}
  /\ misses' = [misses EXCEPT ![b] = {}]
  /\ UNCHANGED << pending, born, keys, botRow, boundary, serving, chat, guarded, call, poll >>

KeyExpires(k) ==
  /\ k \in keys /\ ~k.expired
  /\ keys' = (keys \ {k}) \cup {[k EXCEPT !.expired = TRUE]}
  /\ UNCHANGED << pending, born, botRow, boundary, serving, chat, guarded, call, poll, misses >>

-------------------------------------------------------------------------------
(* binding_status reads the table, and only then the store. *)
PollRow ==
  /\ poll = NoPoll
  /\ \E c \in Codes :
       /\ pending[c] # "unused"
       /\ poll' = IF \E k \in keys : k.code = c
                  THEN [at |-> "told", code |-> c, status |-> "confirmed or revoked"]
                  ELSE [at |-> "store", code |-> c]
  /\ UNCHANGED << pending, born, keys, botRow, boundary, serving, chat, guarded, call, misses >>

PollStore ==
  /\ poll.at = "store"
  /\ poll' = [at |-> "told", code |-> poll.code,
              status |-> IF poll.code \in Outstanding THEN "pending" ELSE "expired"]
  /\ UNCHANGED << pending, born, keys, botRow, boundary, serving, chat, guarded, call, misses >>

PollAgain ==
  /\ poll.at = "told"
  /\ poll' = NoPoll
  /\ UNCHANGED << pending, born, keys, botRow, boundary, serving, chat, guarded, call, misses >>

-------------------------------------------------------------------------------
(* require_resource_actor, before the lease and in a transaction of its own. *)
AuthenticateCall(x) ==
  /\ call[x].at = "none"
  /\ \E k \in keys :
       /\ Authenticates(k) /\ botRow[k.bot].enabled
       /\ call' = [call EXCEPT ![x] = [at |-> "asked", key |-> k]]
  /\ UNCHANGED << pending, born, keys, botRow, boundary, serving, chat, guarded, poll, misses >>

(* The lease, the guards, and reverify_actor on fresh rows. *)
AdmitCall(x) ==
  LET k == call[x].key
      fresh == {f \in keys : f.code = k.code /\ f.bot = k.bot /\ Authenticates(f)}
  IN
  /\ call[x].at = "asked"
  /\ \/ /\ ~serving[k.bot]
        /\ call' = [call EXCEPT ![x] = NoCall]
        /\ UNCHANGED guarded
     \/ /\ serving[k.bot] /\ guarded[k.bot] = Free
        /\ IF fresh # {} /\ botRow[k.bot].enabled
           THEN /\ call' = [call EXCEPT ![x].at = "executing"]
                /\ guarded' = [guarded EXCEPT ![k.bot] = x]
           ELSE /\ call' = [call EXCEPT ![x] = NoCall]
                /\ UNCHANGED guarded
  /\ UNCHANGED << pending, born, keys, botRow, boundary, serving, chat, poll, misses >>

(* The command has executed, its usage is registered, its notice offered. *)
FinishCall(x) ==
  /\ call[x].at = "executing"
  /\ guarded' = [guarded EXCEPT ![call[x].key.bot] = Free]
  /\ call' = [call EXCEPT ![x] = NoCall]
  /\ UNCHANGED << pending, born, keys, botRow, boundary, serving, chat, poll, misses >>

-------------------------------------------------------------------------------
(* update_bot with a new identity: drain, take the boundary, and at last commit
   revision and boundary with all keys revoked.  The commit may not happen. *)
ChangeIdentity(b) ==
  /\ serving[b] /\ Drained(b) /\ ~botRow[b].deleted
  /\ boundary[b] < MaxIdentity
  /\ serving' = [serving EXCEPT ![b] = FALSE]
  /\ boundary' = [boundary EXCEPT ![b] = @ + 1]
  /\ UNCHANGED << pending, born, keys, botRow, chat, guarded, call, poll, misses >>

CommitIdentity(b) ==
  /\ ~serving[b] /\ ~botRow[b].deleted
  /\ guarded[b] = Free
  /\ botRow[b].acceptAfter # boundary[b] - 1
  /\ botRow' = [botRow EXCEPT ![b].revision = @ + 1, ![b].acceptAfter = boundary[b] - 1]
  /\ keys' = Revoke({k \in keys : k.bot = b})
  /\ UNCHANGED << pending, born, boundary, serving, chat, guarded, call, poll, misses >>

(* start: the bot serves again, with the row as it is. *)
ServeAgain(b) ==
  /\ ~serving[b] /\ ~botRow[b].deleted
  /\ serving' = [serving EXCEPT ![b] = TRUE]
  /\ UNCHANGED << pending, born, keys, botRow, boundary, chat, guarded, call, poll, misses >>

(* delete_bot drains too; set_resource_auth_enabled and
   revoke_all_resource_bindings do not, they take the guard. *)
DeleteBot(b) ==
  /\ Drained(b) /\ ~botRow[b].deleted
  /\ serving' = [serving EXCEPT ![b] = FALSE]
  /\ botRow' = [botRow EXCEPT ![b].deleted = TRUE]
  /\ keys' = Revoke({k \in keys : k.bot = b})
  /\ UNCHANGED << pending, born, boundary, chat, guarded, call, poll, misses >>

SetResourceAuthEnabled(b) ==
  /\ guarded[b] = Free /\ ~botRow[b].deleted
  /\ botRow' = [botRow EXCEPT ![b].enabled = ~@]
  /\ UNCHANGED << pending, born, keys, boundary, serving, chat, guarded, call, poll, misses >>

RevokeAll(b) ==
  /\ guarded[b] = Free /\ ~botRow[b].deleted
  /\ \E k \in keys : k.bot = b /\ ~k.revoked
  /\ keys' = Revoke({k \in keys : k.bot = b})
  /\ UNCHANGED << pending, born, botRow, boundary, serving, chat, guarded, call, poll, misses >>

(* The process dies: the store is empty, the rows are what was committed. *)
EnrollCrash ==
  /\ pending' = [c \in Codes |-> IF pending[c] = "unused" THEN "unused" ELSE "gone"]
  /\ serving' = [b \in AuthBots |-> ~botRow[b].deleted]
  /\ chat' = [b \in AuthBots |-> NoChat]
  /\ guarded' = [b \in AuthBots |-> Free]
  /\ call' = [x \in Callers |-> NoCall]
  /\ poll' = NoPoll
  /\ misses' = [b \in AuthBots |-> {}]
  /\ UNCHANGED << born, keys, botRow, boundary >>

EnrollNext ==
  \/ CreateBinding
  \/ \E c \in Codes : WindowCloses(c)
  \/ \E k \in keys : KeyExpires(k)
  \/ \E b \in AuthBots :
       \/ EnterChat(b) \/ ReserveCode(b) \/ CommitBinding(b) \/ FinalizeCode(b) \/ Unbind(b)
       \/ ThrottleForgets(b)
       \/ ChangeIdentity(b) \/ CommitIdentity(b) \/ ServeAgain(b) \/ DeleteBot(b)
       \/ SetResourceAuthEnabled(b) \/ RevokeAll(b)
  \/ PollRow \/ PollStore \/ PollAgain
  \/ \E x \in Callers : AuthenticateCall(x) \/ AdmitCall(x) \/ FinishCall(x)
  \/ EnrollCrash

EnrollSpec == EnrollInit /\ [][EnrollNext]_enrollVars

-------------------------------------------------------------------------------
EnrollTypeOK ==
  /\ pending \in [Codes -> {"unused", "waiting", "reserved", "gone"}]
  /\ born \in [Codes -> [AuthBots -> Revisions \cup {1}]]
  /\ keys \subseteq KeyRows
  /\ botRow \in [AuthBots -> BotRows]
  /\ boundary \in [AuthBots -> 0..(MaxIdentity + 1)]
  /\ serving \in [AuthBots -> BOOLEAN]
  /\ guarded \in [AuthBots -> Callers \cup {"chat", Free}]
  /\ misses \in [AuthBots -> SUBSET People]

(* A command runs only with a key that is alive while it runs: confirmed for
   this bot and its present identity from a code issued after that identity
   began, not revoked, and the bot's agent access switched on.  (A key may reach
   its expiry while the command runs.) *)
ActsWithLiveKey ==
  \A x \in Callers : call[x].at = "executing" =>
    \E k \in keys :
      /\ k.code = call[x].key.code /\ k.bot = call[x].key.bot
      /\ ~k.revoked /\ k.revision = botRow[k.bot].revision
      /\ born[k.code][k.bot] > botRow[k.bot].acceptAfter
      /\ botRow[k.bot].enabled /\ ~botRow[k.bot].deleted

(* A code makes one key, of one user on one bot, and a user has one live key on
   a bot, whatever is confirmed, revoked, retried or crashes in between; and the
   memory that unconfirmed codes take is bounded. *)
OneKeyEach ==
  /\ \A k, l \in keys :
       /\ k.code = l.code => k = l
       /\ (k.user = l.user /\ k.bot = l.bot /\ ~k.revoked /\ ~l.revoked) => k = l
  /\ Cardinality(Outstanding) <= MaxPending

(* A code that is being confirmed is used up only by a committed confirmation,
   or with the process: a failed write hands it back. *)
CodeKept ==
  [][\A c \in Codes : (pending[c] = "reserved" /\ pending'[c] = "gone") =>
        \/ \E k \in keys : k.code = c
        \/ \E b \in AuthBots : chat[b].at = "finalize" /\ chat[b].code = c
                               /\ \E k \in keys : k.user = chat[b].user /\ k.bot = b
        \/ \A d \in Codes : pending'[d] \in {"unused", "gone"}]_enrollVars

(* What agent access promises together: commands act with live keys, keys are
   one to a code and to a user, and codes are not lost.                       *)
KeysAreSound == [](ActsWithLiveKey /\ OneKeyEach) /\ CodeKept
===============================================================================
