----------------------------- MODULE SocialGraph -----------------------------
(***************************************************************************)
(* Follows, friend requests, friendships and the block that ends them.     *)
(*                                                                         *)
(* Every statement outside a transaction is a step.  A transaction reads   *)
(* what is committed when each statement starts, holds the rows it has     *)
(* locked or deleted until it ends, and shows its writes when it commits.  *)
(***************************************************************************)
EXTENDS Naturals, FiniteSets

CONSTANTS
    User,
    Request,       \* HTTP handlers in flight at once
    NoUser,
    MaxRows        \* bound: friend_requests rows ever inserted

\* What is assumed of the constants.
SoundConstants == NoUser \notin User /\ MaxRows \in Nat

Row == 1..MaxRows
NoRow == 0
Pair == {e \in SUBSET User : Cardinality(e) = 2}
Edge == {e \in User \X User : e[1] # e[2]}

VARIABLES
    blocked,   \* user_blocks: <<blocker, blocked>>
    follows,   \* follows: <<follower, followee>>
    friends,   \* friendships: unordered pairs
    row,       \* friend_requests
    loose,     \* history: pairs for which a block has not completed, or in
               \* which a handler has written since the block purged them
    req        \* req[p]: locals of the handler p runs

vars == <<blocked, follows, friends, row, loose, req>>

RowType == [from : User \cup {NoUser}, to : User \cup {NoUser},
            state : {"unused", "pending", "declined", "cancelled", "deleted"}]

Handler == [pc : {"idle", "follow", "known", "inbound", "insert", "accept",
                  "befriend", "decline", "cancel", "blocked", "follows",
                  "friendship", "commit"},
            actor : User \cup {NoUser}, peer : User \cup {NoUser},
            row : Row \cup {NoRow},
            edges : SUBSET Edge, pair : SUBSET Pair,
            late : BOOLEAN]   \* history: its pair was blocked after it began

Tidy == [pc |-> "idle", actor |-> NoUser, peer |-> NoUser, row |-> NoRow,
         edges |-> {}, pair |-> {}, late |-> FALSE]

TypeOK ==
    /\ blocked \subseteq Edge
    /\ follows \subseteq Edge
    /\ friends \subseteq Pair
    /\ row \in [Row -> RowType]
    /\ loose \subseteq Pair
    /\ req \in [Request -> Handler]
    /\ \A r, s \in Row : r # s /\ row[r].state = "pending" =>
         row[s] # row[r]            \* friend_requests_pending_unique

Init ==
    /\ blocked = {} /\ follows = {} /\ friends = {} /\ loose = {}
    /\ row = [r \in Row |-> [from |-> NoUser, to |-> NoUser, state |-> "unused"]]
    /\ req = [p \in Request |-> Tidy]

Idle(p) == req[p].pc = "idle"
At(p, pc) == req[p].pc = pc
Start(p, a, b, pc) == req' = [req EXCEPT ![p] = [Tidy EXCEPT !.pc = pc,
                                                             !.actor = a, !.peer = b]]
Go(p, pc) == req' = [req EXCEPT ![p].pc = pc]
Answer(p) == req' = [req EXCEPT ![p] = Tidy]

Between(p) == {req[p].actor, req[p].peer}
Both(a, b) == {<<a, b>>, <<b, a>>}
IsBlocked(a, b) == blocked \cap Both(a, b) # {}

Pending(a, b) == {r \in Row : /\ row[r].from = a /\ row[r].to = b
                              /\ row[r].state = "pending"}

Mark(e, raced) == loose' = IF raced THEN loose \cup {{e[1], e[2]}} ELSE loose

\* Rows an open transaction has locked or is deleting: writers of them wait.
RowLocked(r) == \E q \in Request : At(q, "befriend") /\ req[q].row = r
EdgeHeld(S) == \E q \in Request : req[q].edges \cap S # {}
PairHeld(e) == \E q \in Request : e \in req[q].pair

-----------------------------------------------------------------------------
(* Following *)

Follow(p, a, b) ==
    /\ Idle(p) /\ ~IsBlocked(a, b)
    /\ Start(p, a, b, "follow")
    /\ UNCHANGED <<blocked, follows, friends, row, loose>>

FollowInsert(p) ==
    LET e == <<req[p].actor, req[p].peer>> IN
    /\ At(p, "follow") /\ ~EdgeHeld({e})
    /\ follows' = follows \cup {e}
    /\ Mark(e, req[p].late) /\ Answer(p)
    /\ UNCHANGED <<blocked, friends, row>>

Unfollow(a, b) ==
    /\ <<a, b>> \in follows /\ ~EdgeHeld({<<a, b>>})
    /\ follows' = follows \ {<<a, b>>}
    /\ UNCHANGED <<blocked, friends, row, loose, req>>

-----------------------------------------------------------------------------
(* Asking *)

RequestFriend(p, a, b) ==
    /\ Idle(p) /\ ~IsBlocked(a, b)
    /\ Start(p, a, b, "known")
    /\ UNCHANGED <<blocked, follows, friends, row, loose>>

ReadFriendship(p) ==
    /\ At(p, "known")
    /\ IF Between(p) \in friends THEN Answer(p) ELSE Go(p, "inbound")
    /\ UNCHANGED <<blocked, follows, friends, row, loose>>

\* A question from the other side is accepted instead of asking back.
ReadInbound(p) ==
    LET inbound == Pending(req[p].peer, req[p].actor) IN
    /\ At(p, "inbound")
    /\ IF inbound = {} THEN Go(p, "insert")
       ELSE \E r \in inbound :
              req' = [req EXCEPT ![p].pc = "accept", ![p].row = r]
    /\ UNCHANGED <<blocked, follows, friends, row, loose>>

\* The unique index on pending rows.  The variant has none.
AskAgain(a, b) == TRUE
MayAsk(a, b) == Pending(a, b) = {}

RequestInsert(p) ==
    LET a == req[p].actor  b == req[p].peer
        free == {r \in Row : row[r].state = "unused"} IN
    /\ At(p, "insert")
    /\ IF MayAsk(a, b)
       THEN /\ \E r \in free :
                 /\ \A s \in free : r <= s
                 /\ row' = [row EXCEPT ![r] = [from |-> a, to |-> b,
                                               state |-> "pending"]]
            /\ Mark(<<a, b>>, req[p].late)
       ELSE UNCHANGED <<row, loose>>
    /\ Answer(p)
    /\ UNCHANGED <<blocked, follows, friends>>

-----------------------------------------------------------------------------
(* Accepting, declining, cancelling, parting *)

Respond(p, u, r, pc) ==
    /\ Idle(p)
    /\ req' = [req EXCEPT ![p] = [Tidy EXCEPT !.pc = pc, !.actor = u, !.row = r]]
    /\ UNCHANGED <<blocked, follows, friends, row, loose>>

Accept(p, u, r) ==
    row[r].state # "unused" /\ row[r].to = u /\ Respond(p, u, r, "accept")

\* SELECT ... FOR UPDATE.  The variant takes the row without locking it.
NoLock(r) == TRUE
LockHolds(r) == ~RowLocked(r)

AcceptLock(p) ==
    LET r == req[p].row IN
    /\ At(p, "accept") /\ LockHolds(r)
    /\ IF row[r].state = "pending"
       THEN req' = [req EXCEPT ![p].pc = "befriend", ![p].peer = row[r].from]
       ELSE Answer(p)
    /\ UNCHANGED <<blocked, follows, friends, row, loose>>

AcceptCommit(p) ==
    LET a == req[p].peer  b == req[p].actor IN
    /\ At(p, "befriend")
    /\ ~PairHeld({a, b}) /\ ~EdgeHeld(Both(a, b))
    /\ friends' = friends \cup {{a, b}}
    /\ row' = [row EXCEPT ![req[p].row].state = "deleted"]
    /\ follows' = follows \cup Both(a, b)
    /\ Mark(<<a, b>>, IsBlocked(a, b)) /\ Answer(p)   \* it reads no blocks
    /\ UNCHANGED blocked

Decline(p, u, r) ==
    row[r].state = "pending" /\ row[r].to = u /\ Respond(p, u, r, "decline")

Cancel(p, u, r) ==
    row[r].state = "pending" /\ row[r].from = u /\ Respond(p, u, r, "cancel")

\* The write is not conditional on the row still being pending, only on its
\* still being there.
Close(p) ==
    LET r == req[p].row IN
    /\ \/ At(p, "decline") \/ At(p, "cancel")
    /\ LockHolds(r)
    /\ row' = [row EXCEPT ![r].state =
                 IF @ = "deleted" \/ At(p, "cancel") THEN "deleted" ELSE "declined"]
    /\ Answer(p)
    /\ UNCHANGED <<blocked, follows, friends, loose>>

Unfriend(a, b) ==
    /\ {a, b} \in friends /\ ~PairHeld({a, b})
    /\ friends' = friends \ {{a, b}}
    /\ UNCHANGED <<blocked, follows, row, loose, req>>

-----------------------------------------------------------------------------
(* Blocking *)

\* The row first, then the purge: whoever checks after the purge finds it.
\* The variant inserts the row with the purge's commit.
InsertsRowLast == "commit"
InsertsRowAt == "idle"
RowInserted(p, pc, a, b) ==
    blocked' = IF pc = InsertsRowAt THEN blocked \cup {<<a, b>>} ELSE blocked

Block(p, a, b) ==
    /\ Idle(p)
    /\ RowInserted(p, "idle", a, b)
    /\ loose' = loose \cup {{a, b}}
    /\ req' = [q \in Request |->
                 IF q = p THEN [Tidy EXCEPT !.pc = "blocked", !.actor = a, !.peer = b]
                 ELSE [req[q] EXCEPT !.late = @ \/ Between(q) = {a, b}]]
    /\ UNCHANGED <<follows, friends, row>>

\* The three statements of onBlock.
PurgeFollows(p) ==
    /\ At(p, "blocked") /\ ~EdgeHeld(Both(req[p].actor, req[p].peer))
    /\ req' = [req EXCEPT ![p].pc = "follows",
                          ![p].edges = follows \cap Both(req[p].actor, req[p].peer)]
    /\ loose' = loose \ {Between(p)}
    /\ UNCHANGED <<blocked, follows, friends, row>>

PurgeFriendship(p) ==
    /\ At(p, "follows") /\ ~PairHeld(Between(p))
    /\ req' = [req EXCEPT ![p].pc = "friendship",
                          ![p].pair = friends \cap {Between(p)}]
    /\ UNCHANGED <<blocked, follows, friends, row, loose>>

PurgeCommit(p) ==
    LET a == req[p].actor  b == req[p].peer
        asked == Pending(a, b) \cup Pending(b, a) IN
    /\ At(p, "friendship")
    /\ \A r \in asked : ~RowLocked(r)
    /\ follows' = follows \ req[p].edges
    /\ friends' = friends \ req[p].pair
    /\ row' = [r \in Row |-> IF r \in asked
                             THEN [row[r] EXCEPT !.state = "cancelled"] ELSE row[r]]
    /\ RowInserted(p, "commit", a, b)
    /\ Answer(p)
    /\ UNCHANGED loose

Unblock(a, b) ==
    /\ <<a, b>> \in blocked
    /\ blocked' = blocked \ {<<a, b>>}
    /\ UNCHANGED <<follows, friends, row, loose, req>>

\* A statement fails, a deadlock ends a transaction, or the process stops: an
\* open transaction leaves nothing.
Fail(p) ==
    /\ ~Idle(p)
    /\ Answer(p)
    /\ loose' = IF req[p].pc \in {"follows", "friendship"}
                THEN loose \cup {Between(p)} ELSE loose
    /\ UNCHANGED <<blocked, follows, friends, row>>

-----------------------------------------------------------------------------

Next ==
    \/ \E p \in Request :
         \/ \E a \in User : \E b \in User \ {a} :
              Follow(p, a, b) \/ RequestFriend(p, a, b) \/ Block(p, a, b)
         \/ \E u \in User, r \in Row :
              Accept(p, u, r) \/ Decline(p, u, r) \/ Cancel(p, u, r)
         \/ FollowInsert(p) \/ ReadFriendship(p) \/ ReadInbound(p)
         \/ RequestInsert(p) \/ AcceptLock(p) \/ AcceptCommit(p) \/ Close(p)
         \/ PurgeFollows(p) \/ PurgeFriendship(p) \/ PurgeCommit(p) \/ Fail(p)
    \/ \E a \in User : \E b \in User \ {a} :
         Unfollow(a, b) \/ Unfriend(a, b) \/ Unblock(a, b)

Spec == Init /\ [][Next]_vars

-----------------------------------------------------------------------------
(* Properties *)

\* A friendship comes from a question that stands when it is agreed to: one
\* withdrawn, declined or ended by a block makes no friends, however the
\* answers overlap.
Promise == INSTANCE Consent
               WITH asked <- {<<row[r].from, row[r].to>> :
                                r \in {s \in Row : row[s].state = "pending"}}
KeepsConsent == Promise!Spec

\* A block that ran to its end leaves the pair no follow, no friendship and no
\* question, but for what a handler that had read the blocks before writes
\* after the purge.
BlockClears ==
    \A e \in blocked :
        {e[1], e[2]} \notin loose
          /\ (\A p \in Request : Between(p) = {e[1], e[2]}
                => req[p].pc \notin {"blocked", "follows", "friendship"})
        => /\ follows \cap Both(e[1], e[2]) = {}
           /\ {e[1], e[2]} \notin friends
           /\ Pending(e[1], e[2]) \cup Pending(e[2], e[1]) = {}

=============================================================================
