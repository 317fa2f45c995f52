----------------------------- MODULE WaveExchange -----------------------------
(***************************************************************************)
(* Waves between two users: the Redis key that collapses repeated wave     *)
(* commands, and the transaction that stores the wave and, when the other  *)
(* user has waved before, opens their conversation.                        *)
(*                                                                         *)
(* One action is one Redis command or one SQL statement.  A transaction's  *)
(* writes are kept in its request until it commits; blocked and deleted    *)
(* users only have a request refused before it writes and are left out.    *)
(***************************************************************************)
EXTENDS Naturals, FiniteSets

CONSTANTS
    User,       \* the two users
    Context,    \* where a wave is sent from: map, profile, event
    MaxWaves,   \* bound: wave rows that any statement can still see
    Request,    \* wave commands in flight at once
    NoUser, NoRequest

\* What is assumed of the constants.
ASSUME SoundConstants ==
    /\ \E u, v \in User : u # v /\ User = {u, v}
    /\ MaxWaves \in Nat
    /\ NoUser \notin User /\ NoRequest \notin Request

Key == User \X Context
Wave == 1..MaxWaves
NoWave == 0

VARIABLES
    row,     \* row[w]: the waves row w
    convo,   \* conversations.status of the pair, "none" if there is no row
    held,    \* the request whose transaction has written the conversation
    cache,   \* cache[k]: the wave of the cached result under k
    lock,    \* lock[k]: the lock key exists; it does not say whose it is
    req      \* req[p]: locals and uncommitted writes of the command p runs

vars == <<row, convo, held, cache, lock, req>>

\* Ages: within the 24-hour cooldown, within the 14-day window, older.
Row == [age : {"unused", "day", "fortnight", "old"},
        from : User \cup {NoUser}, opened : BOOLEAN]

PC == {"idle", "lock", "recent", "reciprocal", "open", "insertConvo", "link",
       "commit", "cache", "unlock", "wait"}

\* back: the wave answered.  write: what the transaction did to the
\* conversation.  wave: the committed wave, cached next.
Command == [pc : PC, from : User \cup {NoUser}, context : Context \cup {"none"},
            back : Wave \cup {NoWave}, write : {"none", "found", "accepts", "inserts"},
            wave : Wave \cup {NoWave}]

Unused == [age |-> "unused", from |-> NoUser, opened |-> FALSE]
Idle == [pc |-> "idle", from |-> NoUser, context |-> "none",
         back |-> NoWave, write |-> "none", wave |-> NoWave]

TypeOK ==
    /\ row \in [Wave -> Row]
    /\ convo \in {"none", "pending", "accepted"}
    /\ held \in Request \cup {NoRequest}
    /\ cache \in [Key -> Wave \cup {NoWave}]
    /\ lock \in [Key -> BOOLEAN]
    /\ req \in [Request -> Command]
    /\ \A p \in Request : held = p <=> req[p].write \in {"accepts", "inserts"}

Init ==
    /\ row = [w \in Wave |-> Unused]
    /\ convo = "none"
    /\ held = NoRequest
    /\ cache = [k \in Key |-> NoWave]
    /\ lock = [k \in Key |-> FALSE]
    /\ req = [p \in Request |-> Idle]

Other(u) == CHOOSE v \in User : v # u

\* The variant scopes the key by the recipient.
KeyOfRecipient(p) == <<Other(req[p].from), req[p].context>>
KeyOf(p) == <<req[p].from, req[p].context>>

Step(p, pc) == req' = [req EXCEPT ![p].pc = pc]
\* The finally block is next; the transaction's locals are gone.
Leave(p) == req' = [req EXCEPT ![p] = [Idle EXCEPT !.pc = "unlock",
                      !.from = req[p].from, !.context = req[p].context]]
Sent(u) == {w \in Wave : row[w].from = u}

\* Transactions that have updated wave w and not committed.
Linking(w) == {p \in Request : req[p].pc = "commit" /\ req[p].back = w}

-----------------------------------------------------------------------------
(* Idempotency keys *)

\* Bound: a command starts only if a row is left for each one in flight.
WavesLeft == Cardinality({w \in Wave : row[w].age = "unused"})
             > Cardinality({p \in Request : req[p].pc # "idle"})

\* A cached result is the answer and changes nothing.
Receive(p, u, c) ==
    /\ req[p].pc = "idle" /\ cache[<<u, c>>] = NoWave /\ WavesLeft
    /\ req' = [req EXCEPT ![p] = [Idle EXCEPT !.pc = "lock", !.from = u,
                                              !.context = c]]
    /\ UNCHANGED <<row, convo, held, cache, lock>>

\* SET lock '1' EX 8 NX.
TakeLock(p) ==
    /\ req[p].pc = "lock"
    /\ lock' = [lock EXCEPT ![KeyOf(p)] = TRUE]
    /\ Step(p, IF lock[KeyOf(p)] THEN "wait" ELSE "recent")
    /\ UNCHANGED <<row, convo, held, cache>>

\* The waiter gets the cached result, or gives up with wave.in_flight when the
\* lock is gone or its forty attempts are used up.
StopWaiting(p) ==
    /\ req[p].pc = "wait"
    /\ req' = [req EXCEPT ![p] = Idle]
    /\ UNCHANGED <<row, convo, held, cache, lock>>

\* The result is cached after the transaction, or Redis fails.
CacheResult(p) ==
    /\ req[p].pc = "cache"
    /\ cache' = [cache EXCEPT ![KeyOf(p)] = req[p].wave]
    /\ Leave(p)
    /\ UNCHANGED <<row, convo, held, lock>>

CacheFails(p) ==
    /\ req[p].pc = "cache"
    /\ Leave(p)
    /\ UNCHANGED <<row, convo, held, cache, lock>>

\* finally: DEL, of whoever's lock is there by now.
Unlock(p) ==
    /\ req[p].pc = "unlock"
    /\ lock' = [lock EXCEPT ![KeyOf(p)] = FALSE]
    /\ req' = [req EXCEPT ![p] = Idle]
    /\ UNCHANGED <<row, convo, held, cache>>

\* Eight seconds pass, whether or not the command that set the lock is over.
LockExpires(k) ==
    /\ lock[k]
    /\ lock' = [lock EXCEPT ![k] = FALSE]
    /\ UNCHANGED <<row, convo, held, cache, req>>

CacheExpires(k) ==
    /\ cache[k] # NoWave
    /\ cache' = [cache EXCEPT ![k] = NoWave]
    /\ UNCHANGED <<row, convo, held, lock, req>>

-----------------------------------------------------------------------------
(* The transaction *)

\* A wave within the cooldown is refused with 409.
CheckRecent(p) ==
    /\ req[p].pc = "recent"
    /\ Step(p, IF \E w \in Sent(req[p].from) : row[w].age = "day"
               THEN "unlock" ELSE "reciprocal")
    /\ UNCHANGED <<row, convo, held, cache, lock>>

\* A wave of the other user, of the last 14 days, that opened nothing yet.
Answerable(u) == {w \in Sent(Other(u)) : /\ row[w].age \in {"day", "fortnight"}
                                         /\ ~row[w].opened}

FindReciprocal(p) ==
    /\ req[p].pc = "reciprocal"
    /\ LET found == Answerable(req[p].from) IN
         \/ found = {} /\ Step(p, "commit")
         \/ \E w \in found :
              req' = [req EXCEPT ![p].pc = "open", ![p].back = w]
    /\ UNCHANGED <<row, convo, held, cache, lock>>

\* openConversation: SELECT, then UPDATE what was found or INSERT.  The UPDATE
\* of a conversation already accepted matches no row.
FindConvo(p) ==
    /\ req[p].pc = "open"
    /\ IF convo = "none"
       THEN Step(p, "insertConvo") /\ UNCHANGED held
       ELSE /\ convo # "accepted" => held = NoRequest
            /\ req' = [req EXCEPT ![p].pc = "link", ![p].write =
                 IF convo = "accepted" THEN "found" ELSE "accepts"]
            /\ held' = IF convo = "accepted" THEN held ELSE p
    /\ UNCHANGED <<row, convo, cache, lock>>

\* The INSERT waits for another one of the pair not yet committed, and fails
\* on the unique index when that one has committed.
InsertConvo(p) ==
    /\ req[p].pc = "insertConvo" /\ held = NoRequest
    /\ IF convo = "none"
       THEN /\ req' = [req EXCEPT ![p].pc = "link", ![p].write = "inserts"]
            /\ held' = p
       ELSE Leave(p) /\ UNCHANGED held
    /\ UNCHANGED <<row, convo, cache, lock>>

\* UPDATE waves SET conversation_id WHERE id: waits for another such update.
\* The variant forgets it.
LinkNothing(p) ==
    /\ req[p].pc = "link"
    /\ req' = [req EXCEPT ![p].pc = "commit", ![p].back = NoWave]
    /\ UNCHANGED <<row, convo, held, cache, lock>>
LinkReciprocal(p) ==
    /\ req[p].pc = "link" /\ Linking(req[p].back) = {}
    /\ Step(p, "commit")
    /\ UNCHANGED <<row, convo, held, cache, lock>>

\* End of the transaction, by COMMIT or ROLLBACK.  The variant leaves it open.
KeepHold(p) == UNCHANGED held
EndHold(p) == held' = IF held = p THEN NoRequest ELSE held

\* INSERT of the wave, and COMMIT.
Commit(p) ==
    /\ req[p].pc = "commit"
    /\ \E w \in Wave :
         /\ row[w].age = "unused" /\ \A v \in 1..w-1 : row[v].age # "unused"
         /\ row' = [v \in Wave |->
              IF v = w THEN [age |-> "day", from |-> req[p].from,
                             opened |-> req[p].write # "none"]
              ELSE IF v = req[p].back THEN [row[v] EXCEPT !.opened = TRUE]
              ELSE row[v]]
         /\ req' = [req EXCEPT ![p] = [Idle EXCEPT !.pc = "cache", !.wave = w,
                      !.from = req[p].from, !.context = req[p].context]]
    /\ convo' = IF req[p].write = "none" THEN convo ELSE "accepted"
    /\ EndHold(p)
    /\ UNCHANGED <<cache, lock>>

\* A statement fails: the transaction rolls back and the lock is deleted.
Abort(p) ==
    /\ req[p].pc \in {"recent", "reciprocal", "open", "insertConvo", "link",
                      "commit"}
    /\ Leave(p)
    /\ EndHold(p)
    /\ UNCHANGED <<row, convo, cache, lock>>

\* The instance stops: Redis keeps the lock until it expires.
Crash(p) ==
    /\ req[p].pc # "idle"
    /\ req' = [req EXCEPT ![p] = Idle]
    /\ EndHold(p)
    /\ UNCHANGED <<row, convo, cache, lock>>

-----------------------------------------------------------------------------
(* Time and messaging *)

Age(w) ==
    /\ row[w].age \in {"day", "fortnight"}
    /\ row' = [row EXCEPT ![w].age = IF @ = "day" THEN "fortnight" ELSE "old"]
    /\ UNCHANGED <<convo, held, cache, lock, req>>

\* Rows older than every window are dropped together: no statement sees them.
Forget ==
    /\ \E w \in Wave : row[w].age = "old"
    /\ \A w \in Wave : row[w].age \in {"old", "unused"}
    /\ \A p \in Request : req[p].pc = "idle"
    /\ \A k \in Key : cache[k] = NoWave
    /\ row' = [w \in Wave |-> Unused]
    /\ UNCHANGED <<convo, held, cache, lock, req>>

\* Users who share an interest may open a request, a get-or-create, and the
\* recipient's reply accepts it.
OpenForMessaging ==
    /\ convo = "none" /\ held = NoRequest
    /\ convo' = "pending"
    /\ UNCHANGED <<row, held, cache, lock, req>>

ReplyAccepts ==
    /\ convo = "pending" /\ held = NoRequest
    /\ convo' = "accepted"
    /\ UNCHANGED <<row, held, cache, lock, req>>

-----------------------------------------------------------------------------

Transaction(p) ==
    \/ CheckRecent(p) \/ FindReciprocal(p) \/ FindConvo(p) \/ InsertConvo(p)
    \/ LinkReciprocal(p) \/ Commit(p)
Handle(p) == \/ TakeLock(p) \/ StopWaiting(p) \/ Transaction(p)
             \/ CacheResult(p) \/ Unlock(p)

Next ==
    \/ \E p \in Request : \/ \E u \in User, c \in Context : Receive(p, u, c)
                          \/ Handle(p) \/ Abort(p) \/ CacheFails(p) \/ Crash(p)
    \/ \E k \in Key : LockExpires(k) \/ CacheExpires(k)
    \/ \E w \in Wave : Age(w)
    \/ Forget \/ OpenForMessaging \/ ReplyAccepts

Spec == Init /\ [][Next]_vars

\* A command keeps running, and a row lock is granted to its waiters in turn.
FairSpec == Spec /\ \A p \in Request : SF_vars(Handle(p))

-----------------------------------------------------------------------------
(* Properties *)

\* A wave opens a conversation only together with a wave of the other user, and
\* then the two may chat: the match is stored on both sides or on neither,
\* whatever fails between the statements.
MatchIsMutual ==
    \A w \in Wave : row[w].opened =>
        /\ convo = "accepted"
        /\ \E v \in Sent(Other(row[w].from)) : row[v].opened

\* A replayed answer names a wave that was stored, by the sender asking.
ReplayIsDurable ==
    \A k \in Key : cache[k] # NoWave => row[cache[k]].from = k[1]

\* Every command ends: none waits forever for the conversation or for a wave
\* another one has written.
CommandsFinish == \A p \in Request : []<>(req[p].pc = "idle")
=============================================================================
