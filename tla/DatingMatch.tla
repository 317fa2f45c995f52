---------------------------- MODULE DatingMatch ----------------------------
(***************************************************************************)
(* Dating likes and passes.  A like is one transaction: it writes its row, *)
(* looks for the other side's, and makes the match when it finds it.  A    *)
(* pass is two statements of their own.  Transactions read what is         *)
(* committed, and nothing orders the two likes of a pair.                  *)
(***************************************************************************)
EXTENDS Naturals, FiniteSets

CONSTANTS
    User, NoUser,
    Request,        \* calls under way at once
    MaxCalls,       \* bound: calls made
    MaxFailures     \* bound: transactions rolled back

\* What is assumed of the constants.
SoundConstants == NoUser \notin User /\ MaxCalls \in Nat /\ MaxFailures \in Nat

VARIABLES
    likes,      \* dating_likes: <<from, to>>
    passes,     \* dating_passes: <<from, to>>
    matches,    \* dating_matches: {a, b}
    threads,    \* conversations of two: {a, b}
    blocked,    \* user_blocks, as pairs
    told,       \* pairs dating:match_created was emitted for
    req,        \* req[r]: a call
    calls, failures,
    crossed,    \* history: pairs whose two likes were in transactions at once
    mixed,      \* history: <<from, to>> liked and passed at once
    undone,     \* history: pairs whose like was rolled back after the notice
    meant       \* history: every <<from, to>> ever liked

rows == <<likes, passes, matches, threads>>
histories == <<crossed, mixed, undone, meant>>
vars == <<rows, blocked, told, req, calls, failures, histories>>

Way == {w \in User \X User : w[1] # w[2]}
Pair == {{w[1], w[2]} : w \in Way}
Back(w) == <<w[2], w[1]>>
Of(w) == {w[1], w[2]}

NoWay == <<NoUser, NoUser>>
Call == [pc : {"idle", "vetted", "inserted", "looked", "passing", "unliking"},
         way : Way \cup {NoWay}, cleared : BOOLEAN, found : BOOLEAN]
Idle == [pc |-> "idle", way |-> NoWay, cleared |-> FALSE, found |-> FALSE]

TypeOK ==
    /\ likes \subseteq Way /\ passes \subseteq Way /\ meant \subseteq Way
    /\ mixed \subseteq Way
    /\ matches \subseteq Pair /\ threads \subseteq Pair /\ blocked \subseteq Pair
    /\ told \subseteq Pair /\ crossed \subseteq Pair /\ undone \subseteq Pair
    /\ req \in [Request -> Call]
    /\ calls \in 0..MaxCalls /\ failures \in 0..MaxFailures
    \* dating_likes_unique: of two transactions one waits before its insert
    /\ \A r, s \in Request :
          {req[r].pc, req[s].pc} \subseteq {"inserted", "looked"} /\ r # s
             => req[r].way # req[s].way

Init ==
    /\ likes = {} /\ passes = {} /\ matches = {} /\ threads = {}
    /\ blocked = {} /\ told = {}
    /\ req = [r \in Request |-> Idle]
    /\ calls = 0 /\ failures = 0
    /\ crossed = {} /\ mixed = {} /\ undone = {} /\ meant = {}

\* A like whose row is inserted and not committed.  In the variant there is no
\* dating_likes_unique to wait for.
Unindexed(w) == FALSE
InTransaction(w) ==
    \E r \in Request : req[r].pc \in {"inserted", "looked"} /\ req[r].way = w
Passing(w) ==
    \E r \in Request : req[r].pc \in {"passing", "unliking"} /\ req[r].way = w

Begin(r, w, pc) ==
    /\ req[r].pc = "idle" /\ calls < MaxCalls
    /\ Of(w) \notin blocked
    /\ req' = [req EXCEPT ![r] = [Idle EXCEPT !.pc = pc, !.way = w]]
    /\ calls' = calls + 1

-----------------------------------------------------------------------------
(* like *)

\* The block and both profiles are looked at before the transaction.
Like(r, w) ==
    /\ Begin(r, w, "vetted")
    /\ mixed' = IF Passing(w) THEN mixed \cup {w} ELSE mixed
    /\ UNCHANGED <<rows, blocked, told, failures, crossed, undone, meant>>

\* dating.like.duplicate
LikeTwice(r) ==
    /\ req[r].pc = "vetted" /\ req[r].way \in likes
    /\ req' = [req EXCEPT ![r] = Idle]
    /\ UNCHANGED <<rows, blocked, told, calls, failures, histories>>

\* The pass of before goes with the like.  The variant keeps it.
KeepPass(w) == FALSE
ClearPass(w) == w \in passes

\* The insert waits for one of the same row.
LikeInsert(r) ==
    LET w == req[r].way IN
    /\ req[r].pc = "vetted" /\ w \notin likes /\ ~InTransaction(w)
    /\ req' = [req EXCEPT ![r].pc = "inserted", ![r].cleared = ClearPass(w)]
    /\ crossed' = IF InTransaction(Back(w)) THEN crossed \cup {Of(w)} ELSE crossed
    /\ UNCHANGED <<rows, blocked, told, calls, failures, mixed, undone, meant>>

\* Whether the other side's like is there.  One variant reads the row just
\* written, one does not count a like whose owner is passed.
OwnRow(w) == TRUE
UnlessPassed(w) == Back(w) \in likes /\ w \notin passes
Reciprocal(w) == Back(w) \in likes

\* Who hears of a match before its transaction commits.  The variant tells
\* of every like.
EveryLike(w, found) == told \cup {Of(w)}
Announce(w, found) == IF found THEN told \cup {Of(w)} ELSE told

LikeLooks(r) ==
    LET w == req[r].way IN
    /\ req[r].pc = "inserted"
    /\ req' = [req EXCEPT ![r].pc = "looked", ![r].found = Reciprocal(w)]
    /\ told' = Announce(w, Reciprocal(w))
    /\ UNCHANGED <<rows, blocked, calls, failures, histories>>

LikeCommits(r) ==
    LET w == req[r].way IN
    /\ req[r].pc = "looked"
    /\ likes' = likes \cup {w} /\ meant' = meant \cup {w}
    /\ passes' = IF req[r].cleared THEN passes \ {w} ELSE passes
    /\ matches' = IF req[r].found THEN matches \cup {Of(w)} ELSE matches
    /\ threads' = IF req[r].found THEN threads \cup {Of(w)} ELSE threads
    /\ req' = [req EXCEPT ![r] = Idle]
    /\ UNCHANGED <<blocked, told, calls, failures, crossed, mixed, undone>>

\* A statement or the commit fails; what was emitted stays emitted.
LikeRollsBack(r) ==
    /\ req[r].pc \in {"inserted", "looked"} /\ failures < MaxFailures
    /\ failures' = failures + 1
    /\ undone' = IF req[r].found THEN undone \cup {Of(req[r].way)} ELSE undone
    /\ req' = [req EXCEPT ![r] = Idle]
    /\ UNCHANGED <<rows, blocked, told, calls, crossed, mixed, meant>>

-----------------------------------------------------------------------------
(* pass, and the block of blocks.service *)

Pass(r, w) ==
    /\ Begin(r, w, "passing")
    /\ mixed' = IF \E s \in Request : req[s].pc \in {"vetted", "inserted", "looked"}
                                      /\ req[s].way = w
                THEN mixed \cup {w} ELSE mixed
    /\ UNCHANGED <<rows, blocked, told, failures, crossed, undone, meant>>

\* It waits for a like that deletes the row.
PassInsert(r) ==
    /\ req[r].pc = "passing"
    /\ \A s \in Request : ~(req[s].cleared /\ req[s].way = req[r].way)
    /\ passes' = passes \cup {req[r].way}
    /\ req' = [req EXCEPT ![r].pc = "unliking"]
    /\ UNCHANGED <<likes, matches, threads, blocked, told, calls, failures, histories>>

DropLike(w) == likes \ {w}

PassUnlikes(r) ==
    /\ req[r].pc = "unliking"
    /\ likes' = DropLike(req[r].way)
    /\ req' = [req EXCEPT ![r] = Idle]
    /\ UNCHANGED <<passes, matches, threads, blocked, told, calls, failures, histories>>

\* The process ends between the two statements of a pass.
PassFails(r) ==
    /\ req[r].pc \in {"passing", "unliking"} /\ failures < MaxFailures
    /\ failures' = failures + 1
    /\ mixed' = mixed \cup {req[r].way}
    /\ req' = [req EXCEPT ![r] = Idle]
    /\ UNCHANGED <<rows, blocked, told, calls, crossed, undone, meant>>

Block(p) ==
    /\ p \notin blocked /\ blocked' = blocked \cup {p}
    /\ UNCHANGED <<rows, told, req, calls, failures, histories>>

\* Calls of a blocked pair are refused and change nothing.
Refused(p) == p \in blocked /\ UNCHANGED vars

Next ==
    \/ \E r \in Request :
         \/ \E w \in Way : Like(r, w) \/ Pass(r, w)
         \/ LikeTwice(r) \/ LikeInsert(r) \/ LikeLooks(r) \/ LikeCommits(r)
         \/ LikeRollsBack(r) \/ PassInsert(r) \/ PassUnlikes(r) \/ PassFails(r)
    \/ \E p \in Pair : Block(p) \/ Refused(p)

Spec == Init /\ [][Next]_vars

-----------------------------------------------------------------------------
(* Properties *)

Mutual(p) == \A w \in Way : Of(w) = p => w \in likes

\* What the tables' comment says: a mutual pair becomes a match.  Two likes
\* at once do not see each other, and nobody looks again.
MutualIsMatched == \A p \in Pair : Mutual(p) => p \in matches

\* Except for them, every mutual pair is matched and has its conversation,
\* through passes, second thoughts and failures.
OnlyCrossedAreLost ==
    \A p \in Pair : Mutual(p) => p \in crossed \/ p \in matches \cap threads

\* Nobody is matched who has not liked.
MatchWasMutual == \A w \in Way : Of(w) \in matches => w \in meant

\* Who is told of a match is matched or about to be, unless the transaction
\* failed after the notice.
NoticeComesTrue ==
    \A p \in told : p \in matches \cup undone
        \/ \E r \in Request : req[r].pc = "looked" /\ Of(req[r].way) = p

\* The last word of one person about another is a like or a pass, never
\* both, unless the two calls overlapped or a pass was cut short.
LikeOrPass == likes \cap passes \subseteq mixed
    \cup {w \in Way : Passing(w)}

\* What becomes of likes along every overlap, change of mind and failure: the
\* pair's match is there when both like, is not without both, is what they
\* were told, and a like does not live beside a pass.
LikesAreKept ==
    /\ OnlyCrossedAreLost
    /\ MatchWasMutual
    /\ NoticeComesTrue
    /\ LikeOrPass
=============================================================================
