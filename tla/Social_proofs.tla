--------------------------- MODULE Social_proofs ---------------------------
(***************************************************************************)
(* Proofs about dating, the group conversations, the verification ladder   *)
(* and the ledger of experience points, for any number of users, groups,   *)
(* submissions, gifts, handlers under way and failures.                    *)
(***************************************************************************)
EXTENDS MCSocial, FiniteSetTheorems, WellFoundedInduction, TLAPS

-----------------------------------------------------------------------------
(* Type correctness *)

RowTypes ==
    /\ likes \subseteq Way /\ passes \subseteq Way /\ meant \subseteq Way
    /\ mixed \subseteq Way
    /\ matches \subseteq Pair /\ threads \subseteq Pair /\ blocked \subseteq Pair
    /\ told \subseteq Pair /\ crossed \subseteq Pair /\ undone \subseteq Pair

Counted == calls \in 0..MaxCalls /\ failures \in 0..MaxFailures

OneInsertAtATime ==
    \A r, s \in Request :
       {req[r].pc, req[s].pc} \subseteq {"inserted", "looked"} /\ r # s
          => req[r].way # req[s].way

LEMMA TypeParts ==
    TypeOK <=> RowTypes /\ req \in [Request -> Call] /\ Counted /\ OneInsertAtATime
BY DEF TypeOK, RowTypes, Counted, OneInsertAtATime

\* The way back is a way, of the same pair.
LEMMA WayBack ==
    ASSUME NEW w \in Way
    PROVE  Back(w) \in Way /\ Of(Back(w)) = Of(w) /\ Of(w) \in Pair /\ Back(Back(w)) = w
BY DEF Way, Back, Of, Pair

\* A pair has two ways.
LEMMA TwoWays ==
    ASSUME NEW v \in Way, NEW w \in Way, Of(v) = Of(w)
    PROVE  v = w \/ v = Back(w)
BY DEF Way, Back, Of

LEMMA IdleType == Idle \in Call
BY DEF Idle, Call

\* A call past "idle" is about a way.
WayKnown == \A r \in Request : req[r].pc # "idle" => req[r].way \in Way

LEMMA InitTypeOK == SoundConstants /\ Init => TypeOK /\ WayKnown
<1> SUFFICES ASSUME SoundConstants, Init PROVE TypeOK /\ WayKnown
    OBVIOUS
<1>1. req \in [Request -> Call]
    BY IdleType DEF Init
<1>2. \A r \in Request : req[r].pc = "idle"
    BY DEF Init, Idle
<1>3. RowTypes /\ Counted
    BY DEF Init, RowTypes, Counted, SoundConstants
<1> QED BY <1>1, <1>2, <1>3, TypeParts DEF OneInsertAtATime, WayKnown

\* Each action gives one call a new state of the type, and sets nothing else in
\* the calls.
Becomes(r, h) == h \in Call /\ req' = [req EXCEPT ![r] = h]

LEMMA BeginType ==
    ASSUME TypeOK, NEW r \in Request, NEW w \in Way, NEW pc \in {"vetted", "passing"},
           Begin(r, w, pc)
    PROVE  Becomes(r, [Idle EXCEPT !.pc = pc, !.way = w])
<1>1. [Idle EXCEPT !.pc = pc, !.way = w] \in Call
    BY DEF Idle, Call
<1> QED BY <1>1 DEF Begin, Becomes

LEMMA InsertType ==
    ASSUME TypeOK, WayKnown, NEW r \in Request, LikeInsert(r)
    PROVE  Becomes(r, [req[r] EXCEPT !.pc = "inserted", !.cleared = ClearPass(req[r].way)])
<1>1. req[r] \in Call
    BY DEF TypeOK
<1>2. ClearPass(req[r].way) \in BOOLEAN
    BY DEF ClearPass
<1>3. [req[r] EXCEPT !.pc = "inserted", !.cleared = ClearPass(req[r].way)] \in Call
    BY <1>1, <1>2 DEF Call
<1>4. req' = [req EXCEPT ![r] = [req[r] EXCEPT !.pc = "inserted",
                                              !.cleared = ClearPass(req[r].way)]]
    BY DEF LikeInsert, TypeOK
<1> QED BY <1>3, <1>4 DEF Becomes

LEMMA LookType ==
    ASSUME TypeOK, WayKnown, NEW r \in Request, LikeLooks(r)
    PROVE  Becomes(r, [req[r] EXCEPT !.pc = "looked", !.found = Reciprocal(req[r].way)])
<1>1. req[r] \in Call
    BY DEF TypeOK
<1>2. Reciprocal(req[r].way) \in BOOLEAN
    BY DEF Reciprocal
<1>3. [req[r] EXCEPT !.pc = "looked", !.found = Reciprocal(req[r].way)] \in Call
    BY <1>1, <1>2 DEF Call
<1>4. req' = [req EXCEPT ![r] = [req[r] EXCEPT !.pc = "looked",
                                              !.found = Reciprocal(req[r].way)]]
    BY DEF LikeLooks, TypeOK
<1> QED BY <1>3, <1>4 DEF Becomes

LEMMA PassInsertType ==
    ASSUME TypeOK, WayKnown, NEW r \in Request, PassInsert(r)
    PROVE  Becomes(r, [req[r] EXCEPT !.pc = "unliking"])
<1>1. req[r] \in Call
    BY DEF TypeOK
<1>2. [req[r] EXCEPT !.pc = "unliking"] \in Call
    BY <1>1 DEF Call
<1> QED BY <1>2 DEF Becomes, PassInsert, TypeOK

\* The actions after which a call is over.
LEMMA EndType ==
    ASSUME NEW r \in Request,
           LikeTwice(r) \/ LikeCommits(r) \/ LikeRollsBack(r) \/ PassUnlikes(r) \/ PassFails(r)
    PROVE  Becomes(r, Idle)
BY IdleType DEF Becomes, LikeTwice, LikeCommits, LikeRollsBack, PassUnlikes, PassFails

\* Every step keeps the rows and the counts in their sets.
LEMMA NextRowTypes ==
    ASSUME SoundConstants, TypeOK, WayKnown, [Next]_vars
    PROVE  RowTypes' /\ Counted'
<1> USE TypeParts DEF RowTypes, Counted
<1>w. \A r \in Request : req[r].pc # "idle" => req[r].way \in Way /\ Of(req[r].way) \in Pair
    BY WayBack DEF WayKnown
<1>1. ASSUME NEW r \in Request, NEW w \in Way, Like(r, w) \/ Pass(r, w)
      PROVE  RowTypes' /\ Counted'
    BY <1>1 DEF Like, Pass, Begin, rows, SoundConstants
<1>2. ASSUME NEW r \in Request, LikeTwice(r)
      PROVE  RowTypes' /\ Counted'
    BY <1>2 DEF LikeTwice, rows, histories
<1>3. ASSUME NEW r \in Request, LikeInsert(r)
      PROVE  RowTypes' /\ Counted'
    BY <1>3, <1>w DEF LikeInsert, rows
<1>4. ASSUME NEW r \in Request, LikeLooks(r)
      PROVE  RowTypes' /\ Counted'
    BY <1>4, <1>w DEF LikeLooks, rows, histories, Announce
<1>5. ASSUME NEW r \in Request, LikeCommits(r)
      PROVE  RowTypes' /\ Counted'
    BY <1>5, <1>w DEF LikeCommits
<1>6. ASSUME NEW r \in Request, LikeRollsBack(r) \/ PassFails(r)
      PROVE  RowTypes' /\ Counted'
    BY <1>6, <1>w DEF LikeRollsBack, PassFails, rows, SoundConstants
<1>7. ASSUME NEW r \in Request, PassInsert(r) \/ PassUnlikes(r)
      PROVE  RowTypes' /\ Counted'
    BY <1>7, <1>w DEF PassInsert, PassUnlikes, DropLike, histories
<1>8. ASSUME NEW p \in Pair, Block(p) \/ Refused(p)
      PROVE  RowTypes' /\ Counted'
    BY <1>8 DEF Block, Refused, rows, histories, vars
<1>9. CASE UNCHANGED vars
    BY <1>9 DEF vars, rows, histories
<1> QED BY <1>1, <1>2, <1>3, <1>4, <1>5, <1>6, <1>7, <1>8, <1>9 DEF Next

\* What a step does to the calls: none changes, or one begins, goes on with
\* the same way, or ends.
LEMMA Steps ==
    ASSUME SoundConstants, TypeOK, WayKnown, [Next]_vars
    PROVE  \/ UNCHANGED req
           \/ \E r \in Request : \E h \in Call :
                /\ Becomes(r, h)
                /\ \/ h.pc = "idle"
                   \/ h.pc \in {"vetted", "passing"} /\ h.way \in Way
                   \/ /\ h.way = req[r].way /\ req[r].pc # "idle"
                      /\ \/ h.pc = "unliking"
                         \/ h.pc = "looked" /\ req[r].pc = "inserted"
                         \/ h.pc = "inserted" /\ ~InTransaction(req[r].way)
<1>t. \A r \in Request : req[r] \in Call
    BY DEF TypeOK
<1> DEFINE Moves(r, h) ==
        /\ Becomes(r, h)
        /\ \/ h.pc = "idle"
           \/ h.pc \in {"vetted", "passing"} /\ h.way \in Way
           \/ /\ h.way = req[r].way /\ req[r].pc # "idle"
              /\ \/ h.pc = "unliking"
                 \/ h.pc = "looked" /\ req[r].pc = "inserted"
                 \/ h.pc = "inserted" /\ ~InTransaction(req[r].way)
<1>1. ASSUME NEW r \in Request, NEW w \in Way, Like(r, w) \/ Pass(r, w)
      PROVE  \E h \in Call : Moves(r, h)
    <2>1. PICK pc \in {"vetted", "passing"} : Begin(r, w, pc)
        BY <1>1 DEF Like, Pass
    <2>2. Becomes(r, [Idle EXCEPT !.pc = pc, !.way = w])
        BY <2>1, BeginType
    <2>3. [Idle EXCEPT !.pc = pc, !.way = w].pc = pc /\ [Idle EXCEPT !.pc = pc, !.way = w].way = w
        BY DEF Idle
    <2> QED BY <2>2, <2>3 DEF Becomes
<1>2. ASSUME NEW r \in Request, LikeInsert(r)
      PROVE  \E h \in Call : Moves(r, h)
    <2> DEFINE h == [req[r] EXCEPT !.pc = "inserted", !.cleared = ClearPass(req[r].way)]
    <2>1. Becomes(r, h)
        BY <1>2, InsertType
    <2>2. h.pc = "inserted" /\ h.way = req[r].way
        BY <1>t DEF Call
    <2>3. req[r].pc # "idle" /\ ~InTransaction(req[r].way)
        BY <1>2 DEF LikeInsert
    <2> HIDE DEF h
    <2> QED BY <2>1, <2>2, <2>3 DEF Becomes
<1>3. ASSUME NEW r \in Request, LikeLooks(r)
      PROVE  \E h \in Call : Moves(r, h)
    <2> DEFINE h == [req[r] EXCEPT !.pc = "looked", !.found = Reciprocal(req[r].way)]
    <2>1. Becomes(r, h)
        BY <1>3, LookType
    <2>2. h.pc = "looked" /\ h.way = req[r].way /\ req[r].pc = "inserted"
        BY <1>3, <1>t DEF Call, LikeLooks
    <2> HIDE DEF h
    <2> QED BY <2>1, <2>2 DEF Becomes
<1>4. ASSUME NEW r \in Request, PassInsert(r)
      PROVE  \E h \in Call : Moves(r, h)
    <2> DEFINE h == [req[r] EXCEPT !.pc = "unliking"]
    <2>1. Becomes(r, h)
        BY <1>4, PassInsertType
    <2>2. h.pc = "unliking" /\ h.way = req[r].way /\ req[r].pc # "idle"
        BY <1>4, <1>t DEF Call, PassInsert
    <2> HIDE DEF h
    <2> QED BY <2>1, <2>2 DEF Becomes
<1>5. ASSUME NEW r \in Request,
             LikeTwice(r) \/ LikeCommits(r) \/ LikeRollsBack(r) \/ PassUnlikes(r) \/ PassFails(r)
      PROVE  \E h \in Call : Moves(r, h)
    <2>1. Becomes(r, Idle) /\ Idle.pc = "idle"
        BY <1>5, EndType DEF Idle
    <2> QED BY <2>1 DEF Becomes
<1>6. ASSUME NEW p \in Pair, Block(p) \/ Refused(p)
      PROVE  UNCHANGED req
    BY <1>6 DEF Block, Refused, vars
<1>7. CASE UNCHANGED vars
    BY <1>7 DEF vars
<1> HIDE DEF Moves
<1>8. CASE Next
    <2>1. ASSUME NEW r \in Request,
                 \/ \E w \in Way : Like(r, w) \/ Pass(r, w)
                 \/ LikeTwice(r) \/ LikeInsert(r) \/ LikeLooks(r) \/ LikeCommits(r)
                 \/ LikeRollsBack(r) \/ PassInsert(r) \/ PassUnlikes(r) \/ PassFails(r)
          PROVE  \E h \in Call : Moves(r, h)
        BY <2>1, <1>1, <1>2, <1>3, <1>4, <1>5
    <2> QED BY <2>1, <1>6, <1>8 DEF Next, Moves
<1> QED BY <1>7, <1>8

\* The calls keep their type, each past "idle" its way, and two transactions
\* never insert the same row.
LEMMA NextTypeOK ==
    ASSUME SoundConstants, TypeOK, WayKnown, [Next]_vars
    PROVE  TypeOK' /\ WayKnown'
<1>t. req \in [Request -> Call] /\ OneInsertAtATime
    BY TypeParts
<1>1. CASE UNCHANGED req
    <2>1. req' \in [Request -> Call] /\ OneInsertAtATime' /\ WayKnown'
        BY <1>1, <1>t DEF OneInsertAtATime, WayKnown
    <2> QED BY <2>1, NextRowTypes, TypeParts DEF TypeOK, RowTypes, Counted, OneInsertAtATime
<1>2. ASSUME NEW r \in Request, NEW h \in Call, Becomes(r, h),
             \/ h.pc = "idle"
             \/ h.pc \in {"vetted", "passing"} /\ h.way \in Way
             \/ /\ h.way = req[r].way /\ req[r].pc # "idle"
                /\ \/ h.pc = "unliking"
                   \/ h.pc = "looked" /\ req[r].pc = "inserted"
                   \/ h.pc = "inserted" /\ ~InTransaction(req[r].way)
      PROVE  TypeOK' /\ WayKnown'
    <2>1. req' \in [Request -> Call]
        BY <1>2, <1>t DEF Becomes
    <2>2. req'[r] = h /\ \A s \in Request \ {r} : req'[s] = req[s]
        BY <1>2, <1>t DEF Becomes
    <2>3. WayKnown'
        BY <1>2, <2>2 DEF WayKnown
    <2>4. OneInsertAtATime'
        <3> SUFFICES ASSUME NEW s \in Request, NEW q \in Request, s # q,
                            {req'[s].pc, req'[q].pc} \subseteq {"inserted", "looked"}
                     PROVE  req'[s].way # req'[q].way
            BY DEF OneInsertAtATime
        <3>1. CASE s # r /\ q # r
            BY <3>1, <2>2, <1>t DEF OneInsertAtATime
        <3>2. CASE s = r
            BY <3>2, <2>2, <1>2, <1>t DEF OneInsertAtATime, InTransaction
        <3>3. CASE q = r
            BY <3>3, <2>2, <1>2, <1>t DEF OneInsertAtATime, InTransaction
        <3> QED BY <3>1, <3>2, <3>3
    <2> QED BY <2>1, <2>3, <2>4, NextRowTypes DEF TypeOK, RowTypes, Counted, OneInsertAtATime
<1> QED BY <1>1, <1>2, Steps

\* Every reachable state has its type, a call under way names its two people,
\* and no two transactions insert the like of one person for another.
THEOREM TypeCorrect == ASSUME SoundConstants PROVE Spec => [](TypeOK /\ WayKnown)
<1>1. Init => TypeOK /\ WayKnown
    BY InitTypeOK
<1>2. TypeOK /\ WayKnown /\ [Next]_vars => TypeOK' /\ WayKnown'
    BY NextTypeOK
<1> QED BY <1>1, <1>2, PTL DEF Spec

-----------------------------------------------------------------------------
(* What each action does to the calls, field by field *)

Others(r) == \A s \in Request \ {r} : req'[s] = req[s]

LEMMA BeginCalls ==
    ASSUME TypeOK, NEW r \in Request, NEW w \in Way, NEW pc \in {"vetted", "passing"},
           Begin(r, w, pc)
    PROVE  /\ req'[r].pc = pc /\ req'[r].way = w
           /\ ~req'[r].cleared /\ ~req'[r].found /\ Others(r) /\ req[r].pc = "idle"
BY DEF Begin, TypeOK, Idle, Others

LEMMA InsertCalls ==
    ASSUME TypeOK, WayKnown, NEW r \in Request, LikeInsert(r)
    PROVE  /\ req'[r].pc = "inserted" /\ req'[r].way = req[r].way
           /\ req'[r].cleared = ClearPass(req[r].way) /\ req'[r].found = req[r].found
           /\ Others(r)
<1>1. req' = [req EXCEPT ![r] = [req[r] EXCEPT !.pc = "inserted",
                                              !.cleared = ClearPass(req[r].way)]]
    BY InsertType DEF Becomes
<1>2. req[r] \in Call /\ req \in [Request -> Call]
    BY DEF TypeOK
<1>3. ClearPass(req[r].way) \in BOOLEAN
    BY DEF ClearPass
<1> QED BY <1>1, <1>2, <1>3 DEF Call, Others

LEMMA LookCalls ==
    ASSUME TypeOK, WayKnown, NEW r \in Request, LikeLooks(r)
    PROVE  /\ req'[r].pc = "looked" /\ req'[r].way = req[r].way
           /\ req'[r].cleared = req[r].cleared
           /\ req'[r].found = Reciprocal(req[r].way)
           /\ Others(r)
<1>1. req' = [req EXCEPT ![r] = [req[r] EXCEPT !.pc = "looked",
                                              !.found = Reciprocal(req[r].way)]]
    BY LookType DEF Becomes
<1>2. req[r] \in Call /\ req \in [Request -> Call]
    BY DEF TypeOK
<1>3. Reciprocal(req[r].way) \in BOOLEAN
    BY DEF Reciprocal
<1> QED BY <1>1, <1>2, <1>3 DEF Call, Others

LEMMA PassInsertCalls ==
    ASSUME TypeOK, WayKnown, NEW r \in Request, PassInsert(r)
    PROVE  /\ req'[r].pc = "unliking" /\ req'[r].way = req[r].way
           /\ req'[r].cleared = req[r].cleared /\ req'[r].found = req[r].found
           /\ Others(r)
<1>1. req' = [req EXCEPT ![r] = [req[r] EXCEPT !.pc = "unliking"]]
    BY PassInsertType DEF Becomes
<1>2. req[r] \in Call /\ req \in [Request -> Call]
    BY DEF TypeOK
<1> QED BY <1>1, <1>2 DEF Call, Others

LEMMA EndCalls ==
    ASSUME TypeOK, NEW r \in Request,
           LikeTwice(r) \/ LikeCommits(r) \/ LikeRollsBack(r) \/ PassUnlikes(r) \/ PassFails(r)
    PROVE  req'[r].pc = "idle" /\ ~req'[r].found /\ ~req'[r].cleared /\ Others(r)
BY EndType DEF Becomes, TypeOK, Idle, Others

-----------------------------------------------------------------------------
(* A match was mutual, and its notice comes true *)

\* Only a call that has looked has found, and what it found was liked.
FoundMeans ==
    \A r \in Request : req[r].found => req[r].pc = "looked" /\ Back(req[r].way) \in meant

\* A notice stands for a match, for one about to be, or for one that failed.
NoticeStands ==
    \A p \in told : p \in matches \cup undone
        \/ \E r \in Request : req[r].pc = "looked" /\ req[r].found /\ Of(req[r].way) = p

MatchInv == likes \subseteq meant /\ FoundMeans /\ MatchWasMutual /\ NoticeStands

LEMMA InitMatchInv == Init => MatchInv
BY DEF Init, Idle, MatchInv, FoundMeans, MatchWasMutual, NoticeStands, Way, Of

LEMMA NextMatchInv ==
    ASSUME SoundConstants, TypeOK, WayKnown, MatchInv, [Next]_vars
    PROVE  MatchInv'
<1> USE DEF MatchInv, FoundMeans, MatchWasMutual, NoticeStands, Others
<1>1. ASSUME NEW r \in Request, NEW w \in Way, NEW pc \in {"vetted", "passing"},
             Begin(r, w, pc), UNCHANGED <<likes, meant, matches, told, undone>>
      PROVE  MatchInv'
    BY <1>1, BeginCalls
<1>2. ASSUME NEW r \in Request, LikeTwice(r)
      PROVE  MatchInv'
    <2>1. UNCHANGED <<likes, meant, matches, told, undone>> /\ req[r].pc = "vetted"
        BY <1>2 DEF LikeTwice, rows, histories
    <2>2. req'[r].pc = "idle" /\ ~req'[r].found /\ Others(r)
        BY <1>2, EndCalls
    <2> QED BY <2>1, <2>2
<1>3. ASSUME NEW r \in Request, LikeInsert(r)
      PROVE  MatchInv'
    <2>1. UNCHANGED <<likes, meant, matches, told, undone>> /\ req[r].pc = "vetted"
        BY <1>3 DEF LikeInsert, rows
    <2>2. req'[r].found = req[r].found /\ Others(r)
        BY <1>3, InsertCalls
    <2> QED BY <2>1, <2>2
<1>4. ASSUME NEW r \in Request, LikeLooks(r)
      PROVE  MatchInv'
    <2>1. UNCHANGED <<likes, meant, matches, undone>>
        BY <1>4 DEF LikeLooks, rows, histories
    <2>2. /\ req'[r].pc = "looked" /\ req'[r].way = req[r].way
          /\ req'[r].found = Reciprocal(req[r].way) /\ Others(r)
        BY <1>4, LookCalls
    <2>3. Reciprocal(req[r].way) => Back(req[r].way) \in meant
        BY DEF Reciprocal
    <2>4. FoundMeans'
        BY <2>1, <2>2, <2>3
    <2>5. NoticeStands'
        <3> SUFFICES ASSUME NEW p \in told'
                     PROVE  p \in matches' \cup undone'
                        \/ \E s \in Request : req'[s].pc = "looked" /\ req'[s].found
                                              /\ Of(req'[s].way) = p
            OBVIOUS
        <3>1. p \in told \/ (Reciprocal(req[r].way) /\ p = Of(req[r].way))
            BY <1>4 DEF LikeLooks, Announce
        <3>2. CASE p \in told
            <4>1. req[r].pc = "inserted"
                BY <1>4 DEF LikeLooks
            <4> QED BY <3>2, <2>1, <2>2, <4>1
        <3> QED BY <3>1, <3>2, <2>2
    <2> QED BY <2>1, <2>4, <2>5
<1>5. ASSUME NEW r \in Request, LikeCommits(r)
      PROVE  MatchInv'
    <2> DEFINE w == req[r].way
    <2>1. w \in Way /\ req[r].pc = "looked"
        BY <1>5 DEF LikeCommits, WayKnown
    <2>2. /\ likes' = likes \cup {w} /\ meant' = meant \cup {w} /\ UNCHANGED <<told, undone>>
          /\ matches' = IF req[r].found THEN matches \cup {Of(w)} ELSE matches
        BY <1>5 DEF LikeCommits
    <2>3. req'[r].pc = "idle" /\ ~req'[r].found /\ Others(r)
        BY <1>5, EndCalls
    <2>4. MatchWasMutual'
        BY <2>1, <2>2, TwoWays
    <2>5. NoticeStands'
        BY <2>1, <2>2, <2>3
    <2> QED BY <2>2, <2>3, <2>4, <2>5
<1>6. ASSUME NEW r \in Request, LikeRollsBack(r) \/ PassFails(r)
      PROVE  MatchInv'
    <2>1. req'[r].pc = "idle" /\ ~req'[r].found /\ Others(r)
        BY <1>6, EndCalls
    <2>2. UNCHANGED <<likes, meant, matches, told>> /\ undone \subseteq undone'
        BY <1>6 DEF LikeRollsBack, PassFails, rows
    <2>3. req[r].pc = "looked" /\ req[r].found => Of(req[r].way) \in undone'
        BY <1>6 DEF LikeRollsBack, PassFails
    <2> QED BY <2>1, <2>2, <2>3
<1>7. ASSUME NEW r \in Request, PassInsert(r)
      PROVE  MatchInv'
    BY <1>7, PassInsertCalls DEF PassInsert, histories
<1>8. ASSUME NEW r \in Request, PassUnlikes(r)
      PROVE  MatchInv'
    <2>1. likes' \subseteq likes /\ UNCHANGED <<meant, matches, told, undone>>
          /\ req[r].pc = "unliking"
        BY <1>8 DEF PassUnlikes, DropLike, histories
    <2> QED BY <2>1, <1>8, EndCalls
<1>9. ASSUME NEW p \in Pair, Block(p) \/ Refused(p)
      PROVE  MatchInv'
    BY <1>9 DEF Block, Refused, rows, histories, vars
<1>10. CASE UNCHANGED vars
    BY <1>10 DEF vars, rows, histories
<1>11. ASSUME NEW r \in Request, NEW w \in Way, Like(r, w) \/ Pass(r, w)
       PROVE  MatchInv'
    BY <1>11, <1>1 DEF Like, Pass, rows
<1> HIDE DEF MatchInv
<1> QED BY <1>2, <1>3, <1>4, <1>5, <1>6, <1>7, <1>8, <1>9, <1>10, <1>11 DEF Next

\* Whatever calls overlap, are rolled back or cut short, a match joins two
\* people who have each liked the other.
THEOREM MatchesWereMutual == ASSUME SoundConstants PROVE Spec => []MatchWasMutual
<1>1. Init => MatchInv
    BY InitMatchInv
<1>2. TypeOK /\ WayKnown /\ MatchInv /\ [Next]_vars => MatchInv'
    BY NextMatchInv
<1>3. MatchInv => MatchWasMutual
    BY DEF MatchInv
<1> QED BY <1>1, <1>2, <1>3, TypeCorrect, PTL DEF Spec

\* A notice of a match comes true, or its transaction failed.
THEOREM NoticesComeTrue == ASSUME SoundConstants PROVE Spec => []NoticeComesTrue
<1>1. Init => MatchInv
    BY InitMatchInv
<1>2. TypeOK /\ WayKnown /\ MatchInv /\ [Next]_vars => MatchInv'
    BY NextMatchInv
<1>3. MatchInv => NoticeComesTrue
    BY DEF MatchInv, NoticeStands, NoticeComesTrue
<1> QED BY <1>1, <1>2, <1>3, TypeCorrect, PTL DEF Spec

-----------------------------------------------------------------------------
(* Only likes that crossed are lost *)

\* Two transactions of a pair at once have crossed; so has one that did not
\* find the like which is there.
Crossing ==
    \A r, s \in Request :
          /\ req[r].pc \in {"inserted", "looked"} /\ req[s].pc \in {"inserted", "looked"}
          /\ req[s].way = Back(req[r].way)
       => Of(req[r].way) \in crossed

Missed ==
    \A r \in Request :
       req[r].pc = "looked" /\ ~req[r].found /\ Back(req[r].way) \in likes
          => Of(req[r].way) \in crossed

MutualKept ==
    \A w \in Way : w \in likes /\ Back(w) \in likes
        => Of(w) \in crossed \/ Of(w) \in matches \cap threads

CrossInv == Crossing /\ Missed /\ MutualKept

LEMMA InitCrossInv == Init => CrossInv
<1> SUFFICES ASSUME Init PROVE CrossInv
    OBVIOUS
<1>1. \A r \in Request : req[r].pc = "idle"
    BY DEF Init, Idle
<1>2. Crossing
    BY <1>1 DEF Crossing
<1>3. Missed
    BY <1>1 DEF Missed
<1>4. MutualKept
    BY DEF Init, MutualKept
<1> QED BY <1>2, <1>3, <1>4 DEF CrossInv

\* A call that is not in its transaction disturbs nothing.
LEMMA OutsideCrossInv ==
    ASSUME TypeOK, WayKnown, CrossInv, NEW r \in Request, Others(r),
           req'[r].pc \notin {"inserted", "looked"},
           likes' \subseteq likes, crossed \subseteq crossed',
           UNCHANGED <<matches, threads>>
    PROVE  CrossInv'
<1>1. \A s \in Request : req'[s].pc \in {"inserted", "looked"} => req'[s] = req[s]
    BY DEF Others
<1>2. Crossing'
    BY <1>1 DEF CrossInv, Crossing
<1>3. Missed'
    BY <1>1 DEF CrossInv, Missed
<1>4. MutualKept'
    BY DEF CrossInv, MutualKept
<1> QED BY <1>2, <1>3, <1>4 DEF CrossInv

LEMMA NextCrossInv ==
    ASSUME SoundConstants, TypeOK, WayKnown, CrossInv, [Next]_vars
    PROVE  CrossInv'
<1>w. \A r \in Request : req[r].pc # "idle" => req[r].way \in Way
    BY DEF WayKnown
<1>1. ASSUME NEW r \in Request, NEW w \in Way, NEW pc \in {"vetted", "passing"},
             Begin(r, w, pc), UNCHANGED <<likes, matches, threads, crossed>>
      PROVE  CrossInv'
    BY <1>1, BeginCalls, OutsideCrossInv
<1>2. ASSUME NEW r \in Request, LikeTwice(r) \/ LikeRollsBack(r) \/ PassUnlikes(r) \/ PassFails(r)
      PROVE  CrossInv'
    <2>1. likes' \subseteq likes /\ UNCHANGED <<matches, threads, crossed>>
        BY <1>2 DEF LikeTwice, LikeRollsBack, PassUnlikes, PassFails, DropLike, rows, histories
    <2>2. req'[r].pc = "idle" /\ Others(r)
        BY <1>2, EndCalls
    <2> QED BY <2>1, <2>2, OutsideCrossInv
<1>3. ASSUME NEW r \in Request, PassInsert(r)
      PROVE  CrossInv'
    <2>1. UNCHANGED <<likes, matches, threads, crossed>>
        BY <1>3 DEF PassInsert, histories
    <2> QED BY <1>3, <2>1, PassInsertCalls, OutsideCrossInv
<1>4. ASSUME NEW r \in Request, LikeInsert(r)
      PROVE  CrossInv'
    <2> DEFINE w == req[r].way
    <2>1. w \in Way /\ UNCHANGED <<likes, matches, threads>> /\ crossed \subseteq crossed'
          /\ (InTransaction(Back(w)) => Of(w) \in crossed')
        BY <1>4, <1>w DEF LikeInsert, rows
    <2>2. req'[r].pc = "inserted" /\ req'[r].way = w /\ Others(r)
        BY <1>4, InsertCalls
    <2>3. ASSUME NEW s \in Request, NEW q \in Request,
                 req'[s].pc \in {"inserted", "looked"}, req'[q].pc \in {"inserted", "looked"},
                 req'[q].way = Back(req'[s].way)
          PROVE  Of(req'[s].way) \in crossed'
        <3>1. CASE s # r /\ q # r
            BY <3>1, <2>1, <2>2, <2>3 DEF CrossInv, Crossing, Missed, Others
        <3>2. CASE s = r /\ q # r
            BY <3>2, <2>1, <2>2, <2>3 DEF InTransaction, Others
        <3>3. CASE s # r /\ q = r
            <4>1. req[s].pc \in {"inserted", "looked"} /\ w = Back(req[s].way)
                BY <3>3, <2>2, <2>3 DEF Others
            <4>2. req[s].way \in Way
                BY <4>1, <1>w
            <4>3. req[s].way = Back(w) /\ Of(req[s].way) = Of(w)
                BY <4>1, <4>2, WayBack
            <4>4. InTransaction(Back(w))
                BY <4>1, <4>3 DEF InTransaction
            <4> QED BY <4>3, <4>4, <2>1, <2>2, <3>3 DEF Others
        <3>4. CASE s = r /\ q = r
            BY <3>4, <2>1, <2>2, <2>3 DEF Way, Back
        <3> QED BY <3>1, <3>2, <3>3, <3>4
    <2>4. ASSUME NEW s \in Request, req'[s].pc = "looked", ~req'[s].found,
                 Back(req'[s].way) \in likes'
          PROVE  Of(req'[s].way) \in crossed'
        BY <2>1, <2>2, <2>4 DEF CrossInv, Crossing, Missed, Others
    <2>5. MutualKept'
        BY <2>1 DEF CrossInv, MutualKept
    <2>6. Crossing'
        BY <2>3 DEF Crossing
    <2>7. Missed'
        BY <2>4 DEF Missed
    <2> QED BY <2>6, <2>7, <2>5 DEF CrossInv
<1>5. ASSUME NEW r \in Request, LikeLooks(r)
      PROVE  CrossInv'
    <2> DEFINE w == req[r].way
    <2>1. req[r].pc = "inserted" /\ UNCHANGED <<likes, matches, threads, crossed>>
        BY <1>5 DEF LikeLooks, rows, histories
    <2>2. /\ req'[r].pc = "looked" /\ req'[r].way = w /\ Others(r)
          /\ req'[r].found = Reciprocal(w)
        BY <1>5, LookCalls
    <2>3. ~req'[r].found => Back(w) \notin likes
        BY <2>2 DEF Reciprocal
    <2>4. \A s \in Request : req'[s].way = req[s].way
          /\ (req'[s].pc \in {"inserted", "looked"} => req[s].pc \in {"inserted", "looked"})
        BY <2>1, <2>2 DEF Others
    <2>5. ASSUME NEW s \in Request, NEW q \in Request,
                 req'[s].pc \in {"inserted", "looked"}, req'[q].pc \in {"inserted", "looked"},
                 req'[q].way = Back(req'[s].way)
          PROVE  Of(req'[s].way) \in crossed'
        BY <2>1, <2>4, <2>5 DEF CrossInv, Crossing, Missed
    <2>6. ASSUME NEW s \in Request, req'[s].pc = "looked", ~req'[s].found,
                 Back(req'[s].way) \in likes'
          PROVE  Of(req'[s].way) \in crossed'
        BY <2>1, <2>2, <2>3, <2>6 DEF CrossInv, Crossing, Missed, Others
    <2>7. MutualKept'
        BY <2>1 DEF CrossInv, MutualKept
    <2>8. Crossing'
        BY <2>5 DEF Crossing
    <2>9. Missed'
        BY <2>6 DEF Missed
    <2> QED BY <2>8, <2>9, <2>7 DEF CrossInv
<1>6. ASSUME NEW r \in Request, LikeCommits(r)
      PROVE  CrossInv'
    <2> DEFINE w == req[r].way
    <2>1. w \in Way /\ req[r].pc = "looked" /\ likes' = likes \cup {w} /\ UNCHANGED crossed
          /\ matches \subseteq matches' /\ threads \subseteq threads'
          /\ (req[r].found => Of(w) \in matches' \cap threads')
        BY <1>6, <1>w DEF LikeCommits
    <2>2. req'[r].pc = "idle" /\ Others(r)
        BY <1>6, EndCalls
    <2>3. ASSUME NEW s \in Request, NEW q \in Request,
                 req'[s].pc \in {"inserted", "looked"}, req'[q].pc \in {"inserted", "looked"},
                 req'[q].way = Back(req'[s].way)
          PROVE  Of(req'[s].way) \in crossed'
        BY <2>1, <2>2, <2>3 DEF CrossInv, Crossing, Missed, Others
    <2>4. ASSUME NEW s \in Request, req'[s].pc = "looked", ~req'[s].found,
                 Back(req'[s].way) \in likes'
          PROVE  Of(req'[s].way) \in crossed'
        <3>1. s # r /\ req[s].pc = "looked" /\ ~req[s].found /\ req'[s].way = req[s].way
            BY <2>2, <2>4 DEF Others
        <3>2. CASE Back(req[s].way) \in likes
            BY <3>1, <3>2, <2>1 DEF CrossInv, Crossing, Missed
        <3>3. CASE w = Back(req[s].way)
            BY <3>1, <3>3, <2>1 DEF CrossInv, Crossing, Missed
        <3> QED BY <3>1, <3>2, <3>3, <2>1, <2>4
    <2>5. ASSUME NEW v \in Way, v \in likes', Back(v) \in likes'
          PROVE  Of(v) \in crossed' \/ Of(v) \in matches' \cap threads'
        <3>1. CASE v \in likes /\ Back(v) \in likes
            BY <3>1, <2>1 DEF CrossInv, MutualKept
        <3>2. CASE v = w \/ Back(v) = w
            <4>1. Of(v) = Of(w) /\ (Back(w) \in likes \/ Back(w) = w)
                BY <3>2, <2>1, <2>5, WayBack
            <4>2. Back(w) # w
                BY <2>1 DEF Way, Back
            <4>3. req[r].found \/ Of(w) \in crossed
                BY <4>1, <4>2, <2>1 DEF CrossInv, Crossing, Missed
            <4> QED BY <4>1, <4>3, <2>1
        <3> QED BY <3>1, <3>2, <2>1, <2>5
    <2>6. Crossing'
        BY <2>3 DEF Crossing
    <2>7. Missed'
        BY <2>4 DEF Missed
    <2>8. MutualKept'
        BY <2>5 DEF MutualKept
    <2> QED BY <2>6, <2>7, <2>8 DEF CrossInv
<1>7. ASSUME NEW p \in Pair, Block(p) \/ Refused(p)
      PROVE  CrossInv'
    BY <1>7 DEF Block, Refused, rows, histories, vars, CrossInv, Crossing, Missed, MutualKept
<1>8. CASE UNCHANGED vars
    BY <1>8 DEF vars, rows, histories, CrossInv, Crossing, Missed, MutualKept
<1>9. ASSUME NEW r \in Request, NEW w \in Way, Like(r, w) \/ Pass(r, w)
      PROVE  CrossInv'
    BY <1>9, <1>1 DEF Like, Pass, rows
<1> QED BY <1>2, <1>3, <1>4, <1>5, <1>6, <1>7, <1>8, <1>9 DEF Next

\* Whoever likes, passes and likes again, a mutual pair has its match and its
\* conversation, unless two likes of theirs were in their transactions at once.
THEOREM OnlyCrossedLikesAreLost == ASSUME SoundConstants PROVE Spec => []OnlyCrossedAreLost
<1>1. Init => CrossInv
    BY InitCrossInv
<1>2. TypeOK /\ WayKnown /\ CrossInv /\ [Next]_vars => CrossInv'
    BY NextCrossInv
<1>3. CrossInv => OnlyCrossedAreLost
    <2> SUFFICES ASSUME CrossInv, NEW p \in Pair, Mutual(p)
                 PROVE  p \in crossed \/ p \in matches \cap threads
        BY DEF OnlyCrossedAreLost
    <2>1. PICK w \in Way : p = Of(w)
        BY DEF Pair, Of
    <2>2. w \in likes /\ Back(w) \in likes
        BY <2>1, WayBack DEF Mutual
    <2> QED BY <2>1, <2>2 DEF CrossInv, MutualKept
<1> QED BY <1>1, <1>2, <1>3, TypeCorrect, PTL DEF Spec

-----------------------------------------------------------------------------
(* The last word *)

\* A like and a pass of one way that overlap are mixed.
OverlapKnown ==
    \A r, s \in Request :
          /\ req[r].pc \in {"vetted", "inserted", "looked"}
          /\ req[s].pc \in {"passing", "unliking"} /\ req[s].way = req[r].way
       => req[r].way \in mixed

\* A like that has not cleared the pass found none, or one came meanwhile.
ClearedKnown ==
    \A r \in Request :
          /\ req[r].pc \in {"inserted", "looked"} /\ ~req[r].cleared
          /\ req[r].way \in passes
       => req[r].way \in mixed

LastWord == \A w \in Way : w \in likes /\ w \in passes => w \in mixed \/ Passing(w)

WordInv == OverlapKnown /\ ClearedKnown /\ LastWord

LEMMA InitWordInv == Init => WordInv
<1> SUFFICES ASSUME Init PROVE WordInv
    OBVIOUS
<1>1. \A r \in Request : req[r].pc = "idle"
    BY DEF Init, Idle
<1> QED BY <1>1 DEF Init, WordInv, OverlapKnown, ClearedKnown, LastWord

\* A call that ends takes nothing with it that the others rest on.
LEMMA EndWordInv ==
    ASSUME TypeOK, WordInv, NEW r \in Request, Others(r), req'[r].pc = "idle",
           likes' \subseteq likes, passes' = passes, mixed \subseteq mixed',
           req[r].pc \in {"passing", "unliking"} =>
              req[r].way \notin likes' \/ req[r].way \in mixed'
    PROVE  WordInv'
<1>1. OverlapKnown'
    BY DEF WordInv, OverlapKnown, Others
<1>2. ClearedKnown'
    BY DEF WordInv, ClearedKnown, Others
<1>3. LastWord'
    <2> SUFFICES ASSUME NEW w \in Way, w \in likes', w \in passes', w \notin mixed'
                 PROVE  Passing(w)'
        BY DEF LastWord
    <2>1. PICK s \in Request : req[s].pc \in {"passing", "unliking"} /\ req[s].way = w
        BY DEF WordInv, LastWord, Passing
    <2> QED BY <2>1 DEF Passing, Others
<1> QED BY <1>1, <1>2, <1>3 DEF WordInv

\* A call that goes on keeps its way.
LEMMA MoveWordInv ==
    ASSUME TypeOK, WordInv, NEW r \in Request, Others(r), req'[r].way = req[r].way,
           \/ /\ req[r].pc \in {"vetted", "inserted"} /\ req'[r].pc \in {"inserted", "looked"}
              /\ passes' = passes
              /\ ~req'[r].cleared /\ req[r].way \in passes => req[r].pc = "inserted" /\ ~req[r].cleared
           \/ /\ req[r].pc = "passing" /\ req'[r].pc = "unliking"
              /\ passes' = passes \cup {req[r].way},
           UNCHANGED <<likes, mixed>>
    PROVE  WordInv'
<1>0. \A s \in Request : req'[s].way = req[s].way
    BY DEF Others
<1>p. \A s \in Request :
         req'[s].pc \in {"passing", "unliking"} <=> req[s].pc \in {"passing", "unliking"}
    BY DEF Others
<1>1. OverlapKnown'
    BY <1>0, <1>p DEF WordInv, OverlapKnown, Others
<1>2. ClearedKnown'
    <2> SUFFICES ASSUME NEW s \in Request, req'[s].pc \in {"inserted", "looked"},
                        ~req'[s].cleared, req'[s].way \in passes'
                 PROVE  req'[s].way \in mixed'
        BY DEF ClearedKnown
    <2>1. CASE s = r
        BY <2>1, <1>0 DEF WordInv, ClearedKnown
    <2>2. CASE s # r /\ req[s].way \in passes
        BY <2>2 DEF WordInv, ClearedKnown, Others
    <2>3. CASE s # r /\ req[s].way \notin passes
        <3>1. req[r].pc = "passing" /\ req[s].way = req[r].way
            BY <2>3, <1>0
        <3>2. req[s].pc \in {"inserted", "looked"}
            BY <2>3 DEF Others
        <3> QED BY <3>1, <3>2, <1>0 DEF WordInv, OverlapKnown
    <2> QED BY <2>1, <2>2, <2>3
<1>3. LastWord'
    <2> SUFFICES ASSUME NEW w \in Way, w \in likes', w \in passes', w \notin mixed'
                 PROVE  Passing(w)'
        BY DEF LastWord
    <2>1. CASE w \in passes
        <3>1. PICK s \in Request : req[s].pc \in {"passing", "unliking"} /\ req[s].way = w
            BY <2>1 DEF WordInv, LastWord, Passing
        <3> QED BY <3>1, <1>0, <1>p DEF Passing
    <2>2. CASE w \notin passes
        BY <2>2, <1>0 DEF Passing
    <2> QED BY <2>1, <2>2
<1> QED BY <1>1, <1>2, <1>3 DEF WordInv

LEMMA NextWordInv ==
    ASSUME SoundConstants, TypeOK, WayKnown, WordInv, [Next]_vars
    PROVE  WordInv'
<1>1. ASSUME NEW r \in Request, NEW w \in Way, Like(r, w) \/ Pass(r, w)
      PROVE  WordInv'
    <2>0. \E pc \in {"vetted", "passing"} :
             /\ Begin(r, w, pc)
             /\ (pc = "vetted" /\ Like(r, w)) \/ (pc = "passing" /\ Pass(r, w))
        <3>1. CASE Like(r, w)
            BY <3>1 DEF Like
        <3>2. CASE Pass(r, w)
            BY <3>2 DEF Pass
        <3> QED BY <1>1, <3>1, <3>2
    <2>1. PICK pc \in {"vetted", "passing"} :
             /\ Begin(r, w, pc)
             /\ (pc = "vetted" /\ Like(r, w)) \/ (pc = "passing" /\ Pass(r, w))
        BY <2>0
    <2>2. req'[r].pc = pc /\ req'[r].way = w /\ Others(r) /\ req[r].pc = "idle"
        BY <2>1, BeginCalls
    <2>3. UNCHANGED <<likes, passes>> /\ mixed \subseteq mixed'
        BY <1>1 DEF Like, Pass, rows
    <2>4. ASSUME NEW s \in Request, s # r, req[s].way = w,
                 \/ pc = "vetted" /\ req[s].pc \in {"passing", "unliking"}
                 \/ pc = "passing" /\ req[s].pc \in {"vetted", "inserted", "looked"}
          PROVE  w \in mixed'
        BY <2>1, <2>4 DEF Like, Pass, Passing
    <2>5. OverlapKnown'
        <3> SUFFICES ASSUME NEW q \in Request, NEW s \in Request,
                            req'[q].pc \in {"vetted", "inserted", "looked"},
                            req'[s].pc \in {"passing", "unliking"}, req'[s].way = req'[q].way
                     PROVE  req'[q].way \in mixed'
            BY DEF OverlapKnown
        <3>1. CASE q # r /\ s # r
            BY <3>1, <2>2, <2>3 DEF WordInv, OverlapKnown, Others
        <3>2. CASE q = r \/ s = r
            BY <3>2, <2>2, <2>4 DEF Others
        <3> QED BY <3>1, <3>2
    <2>6. ClearedKnown'
        BY <2>2, <2>3 DEF WordInv, ClearedKnown, Others
    <2>7. LastWord'
        <3> SUFFICES ASSUME NEW v \in Way, v \in likes', v \in passes', v \notin mixed'
                     PROVE  Passing(v)'
            BY DEF LastWord
        <3>1. PICK s \in Request : req[s].pc \in {"passing", "unliking"} /\ req[s].way = v
            BY <2>3 DEF WordInv, LastWord, Passing
        <3> QED BY <3>1, <2>2 DEF Passing, Others
    <2> QED BY <2>5, <2>6, <2>7 DEF WordInv
<1>2. ASSUME NEW r \in Request, LikeTwice(r) \/ LikeRollsBack(r) \/ PassUnlikes(r) \/ PassFails(r)
      PROVE  WordInv'
    <2>1. req'[r].pc = "idle" /\ Others(r)
        BY <1>2, EndCalls
    <2>2. likes' \subseteq likes /\ passes' = passes /\ mixed \subseteq mixed'
        BY <1>2 DEF LikeTwice, LikeRollsBack, PassUnlikes, PassFails, DropLike, rows, histories
    <2>3. req[r].pc \in {"passing", "unliking"} =>
              req[r].way \notin likes' \/ req[r].way \in mixed'
        BY <1>2 DEF LikeTwice, LikeRollsBack, PassUnlikes, PassFails, DropLike
    <2> QED BY <2>1, <2>2, <2>3, EndWordInv
<1>3. ASSUME NEW r \in Request, LikeInsert(r)
      PROVE  WordInv'
    <2>1. /\ req'[r].pc = "inserted" /\ req'[r].way = req[r].way
          /\ req'[r].cleared = ClearPass(req[r].way) /\ Others(r)
        BY <1>3, InsertCalls
    <2>2. req[r].pc = "vetted" /\ UNCHANGED <<likes, passes, mixed>>
        BY <1>3 DEF LikeInsert, rows
    <2>3. ~req'[r].cleared => req[r].way \notin passes
        BY <2>1 DEF ClearPass
    <2> QED BY <2>1, <2>2, <2>3, MoveWordInv
<1>4. ASSUME NEW r \in Request, LikeLooks(r)
      PROVE  WordInv'
    <2>1. /\ req'[r].pc = "looked" /\ req'[r].way = req[r].way
          /\ req'[r].cleared = req[r].cleared /\ Others(r)
        BY <1>4, LookCalls
    <2>2. req[r].pc = "inserted" /\ UNCHANGED <<likes, passes, mixed>>
        BY <1>4 DEF LikeLooks, rows, histories
    <2> QED BY <2>1, <2>2, MoveWordInv
<1>5. ASSUME NEW r \in Request, PassInsert(r)
      PROVE  WordInv'
    <2>1. req'[r].pc = "unliking" /\ req'[r].way = req[r].way /\ Others(r)
        BY <1>5, PassInsertCalls
    <2>2. /\ req[r].pc = "passing" /\ passes' = passes \cup {req[r].way}
          /\ UNCHANGED <<likes, mixed>>
        BY <1>5 DEF PassInsert, histories
    <2> QED BY <2>1, <2>2, MoveWordInv
<1>6. ASSUME NEW r \in Request, LikeCommits(r)
      PROVE  WordInv'
    <2> DEFINE w == req[r].way
    <2>1. req[r].pc = "looked" /\ likes' = likes \cup {w} /\ UNCHANGED mixed
          /\ passes' = IF req[r].cleared THEN passes \ {w} ELSE passes
        BY <1>6 DEF LikeCommits
    <2>2. req'[r].pc = "idle" /\ Others(r)
        BY <1>6, EndCalls
    <2>3. passes' \subseteq passes /\ (w \in passes' => w \in mixed)
        BY <2>1 DEF WordInv, ClearedKnown
    <2>4. OverlapKnown'
        BY <2>1, <2>2 DEF WordInv, OverlapKnown, Others
    <2>5. ClearedKnown'
        BY <2>1, <2>2, <2>3 DEF WordInv, ClearedKnown, Others
    <2>6. LastWord'
        <3> SUFFICES ASSUME NEW v \in Way, v \in likes', v \in passes', v \notin mixed'
                     PROVE  Passing(v)'
            BY DEF LastWord
        <3>1. v # w
            BY <2>1, <2>3
        <3>2. PICK s \in Request : req[s].pc \in {"passing", "unliking"} /\ req[s].way = v
            BY <3>1, <2>1, <2>3 DEF WordInv, LastWord, Passing
        <3> QED BY <3>2, <2>1, <2>2 DEF Passing, Others
    <2> QED BY <2>4, <2>5, <2>6 DEF WordInv
<1>7. ASSUME UNCHANGED <<likes, passes, mixed, req>>
      PROVE  WordInv'
    BY <1>7 DEF WordInv, OverlapKnown, ClearedKnown, LastWord, Passing
<1>8. ASSUME NEW p \in Pair, Block(p) \/ Refused(p)
      PROVE  WordInv'
    BY <1>7, <1>8 DEF Block, Refused, rows, histories, vars
<1>9. CASE UNCHANGED vars
    BY <1>7, <1>9 DEF vars, rows, histories
<1> QED BY <1>1, <1>2, <1>3, <1>4, <1>5, <1>6, <1>8, <1>9 DEF Next

\* Second thoughts in any order leave a person liked or passed and not both,
\* unless a like and a pass of them overlapped, or a pass was cut short.
THEOREM LastWordCounts == ASSUME SoundConstants PROVE Spec => []LikeOrPass
<1>1. Init => WordInv
    BY InitWordInv
<1>2. TypeOK /\ WayKnown /\ WordInv /\ [Next]_vars => WordInv'
    BY NextWordInv
<1>3. TypeOK /\ WordInv => LikeOrPass
    BY DEF TypeOK, WordInv, LastWord, LikeOrPass
<1> QED BY <1>1, <1>2, <1>3, TypeCorrect, PTL DEF Spec

\* The four facts of likes, together.
THEOREM LikesKept == ASSUME SoundConstants PROVE Spec => []LikesAreKept
<1>1. OnlyCrossedAreLost /\ MatchWasMutual /\ NoticeComesTrue /\ LikeOrPass => LikesAreKept
    BY DEF LikesAreKept
<1> QED BY <1>1, OnlyCrossedLikesAreLost, MatchesWereMutual, NoticesComeTrue, LastWordCounts, PTL

-----------------------------------------------------------------------------
(* The group conversations *)

\* The instance counts as the library does.
LEMMA GroupCountsAlike == \A S : Groups!Cardinality(S) = Cardinality(S)
BY DEF Groups!Cardinality, Cardinality

Naming == {"lookup", "eligible", "pairs", "insert", "members", "lock", "read", "succession", "leave"}
Holding == {"read", "succession", "leave", "leaving"}

\* What a handler knows.  The roles it has read under the group's lock are still
\* those of the group when it writes.
GroupHandlerKnows(h) ==
    /\ h.pc \in Naming => \E g \in Groups!Group : h.groups = {g}
    /\ h.pc \in {"lookup", "eligible", "pairs", "insert", "members"} => h.actor \in Member
    /\ h.pc \in {"lock", "read", "succession", "leave"} => h.peer \in Member
    /\ h.pc \in {"lock", "shared"} \cup Holding => h.groups \subseteq made
    /\ h.pc = "members" => h.groups \cap made = {}
    /\ h.pc \in {"blocked", "shared", "leaving", "onBlock"} =>
          h.actor \in Member /\ h.peer \in Member /\ h.actor # h.peer
    /\ h.pc \in {"lock", "read", "succession"} => h.heir = Groups!Nobody
    /\ h.pc = "succession" => \A g \in h.groups : role[g][h.peer] = "owner"
    /\ h.pc = "leave" =>
          \A g \in h.groups :
             \/ role[g][h.peer] = "member" /\ h.heir = Groups!Nobody
             \/ role[g][h.peer] = "owner" /\ h.heir = Groups!Heir(g, h.peer)
    /\ h.pc \in {"insert", "members"} =>
          \A e \in gBlocked : {e[1], e[2]} \subseteq h.invited \cup {h.actor} => h.late
GroupHandlersKnow == \A p \in Request : GroupHandlerKnows(gReq[p])

\* No group is locked by two handlers, or made by two.
LocksApart ==
    \A p \in Request : \A q \in Request \ {p} :
        gReq[p].pc \in Holding /\ gReq[q].pc \in Holding => gReq[p].groups \cap gReq[q].groups = {}
MakersApart ==
    \A p \in Request : \A q \in Request \ {p} :
        gReq[p].pc = "members" /\ gReq[q].pc = "members" => gReq[p].groups \cap gReq[q].groups = {}

OwnerIsOne == \A g \in Groups!Group : \A u, v \in Groups!Owners(g) : u = v
OwnerIsThere == \A g \in made : Groups!Active(g) # {} /\ g \notin orphaned => Groups!Owners(g) # {}
BlocksAreOfTwo == \A e \in gBlocked : e[1] # e[2]

\* A group that a blocked pair still shares is on the list of the block that is
\* under way.
Sees(h, a, b, g) ==
    h.pc \in {"shared", "leaving"} /\ {h.actor, h.peer} = {a, b} /\ g \in h.groups
BlocksLeave ==
    \A e \in gBlocked : {e[1], e[2]} \notin gLoose =>
        \A g \in Groups!Shared(e[1], e[2]) : \E p \in Request : Sees(gReq[p], e[1], e[2], g)

GroupInv ==
    /\ Groups!TypeOK /\ GroupHandlersKnow /\ LocksApart /\ MakersApart /\ OwnerIsOne /\ OwnerIsThere
    /\ BlocksAreOfTwo /\ BlocksLeave

\* A set of users that is not empty has a least one.
LEMMA LeastExists ==
    ASSUME NEW S, S \subseteq Nat, S # {}
    PROVE  \E v \in S : \A w \in S : v <= w
<1> DEFINE Before == {p \in Nat \X Nat : p[1] < p[2]}
<1>1. IsWellFoundedOn(Before, Nat)
    BY NatLessThanWellFounded DEF OpToRel
<1>2. PICK v \in S : \A w \in S : <<w, v>> \notin Before
    BY <1>1, WFMin
<1>3. ASSUME NEW w \in S PROVE v <= w
    <2>1. v \in Nat /\ w \in Nat
        OBVIOUS
    <2>2. ~(w < v)
        BY <1>2, <2>1
    <2> QED BY <2>1, <2>2
<1> QED BY <1>3

LEMMA PairOfTwo ==
    ASSUME NEW a \in Member, NEW b \in Member, a # b
    PROVE  {a, b} \in Groups!Pair
<1>1. IsFiniteSet({a}) /\ Groups!Cardinality({a}) = 1
    BY FS_Singleton, GroupCountsAlike
<1>2. {a, b} = {a} \cup {b} /\ b \notin {a}
    OBVIOUS
<1>3. Groups!Cardinality({a, b}) = 1 + 1
    BY <1>1, <1>2, FS_AddElement, GroupCountsAlike
<1> QED BY <1>3 DEF Groups!Pair

LEMMA SharedAlike ==
    ASSUME NEW a, NEW b, NEW c, NEW d, {a, b} = {c, d}
    PROVE  Groups!Shared(a, b) = Groups!Shared(c, d)
BY DEF Groups!Shared

LEMMA GroupTidyHandler == Groups!Tidy \in Groups!Handler /\ Groups!Tidy.pc = "idle" /\ GroupHandlerKnows(Groups!Tidy)
<1>1. Groups!Tidy \in Groups!Handler
    BY DEF Groups!Tidy, Groups!Handler, Groups!Role
<1> QED BY <1>1 DEF Groups!Tidy, GroupHandlerKnows, Naming, Holding

\* Before anybody has made a group.
LEMMA InitGroups == ASSUME Groups!SoundConstants PROVE Groups!Init => GroupInv
<1> SUFFICES ASSUME Groups!Init PROVE GroupInv
    OBVIOUS
<1>1. \A p \in Request : gReq[p] = Groups!Tidy /\ gReq[p].pc = "idle"
    BY GroupTidyHandler DEF Groups!Init
<1>2. Groups!TypeOK
    <2>1. gReq \in [Request -> Groups!Handler]
        BY GroupTidyHandler DEF Groups!Init
    <2>2. role \in [Groups!Group -> [Member -> Groups!Role]] /\ \A g \in Groups!Group, u \in Member : role[g][u] = "none"
        BY DEF Groups!Init, Groups!Role
    <2> QED BY <2>1, <2>2 DEF Groups!Init, Groups!TypeOK
<1>3. GroupHandlersKnow /\ LocksApart /\ MakersApart
    BY <1>1, GroupTidyHandler DEF GroupHandlersKnow, LocksApart, MakersApart, Holding
<1>4. OwnerIsOne
    BY DEF Groups!Init, OwnerIsOne, Groups!Owners
<1>5. OwnerIsThere /\ BlocksAreOfTwo /\ BlocksLeave
    BY DEF Groups!Init, OwnerIsThere, BlocksAreOfTwo, BlocksLeave
<1> QED BY <1>2, <1>3, <1>4, <1>5 DEF GroupInv

LEMMA GroupHandlerIs ==
    ASSUME GroupInv, NEW p \in Request
    PROVE  Groups!TypeOK /\ gReq[p] \in Groups!Handler /\ GroupHandlerKnows(gReq[p])
BY DEF GroupInv, Groups!TypeOK, GroupHandlersKnow

LEMMA ItsGroup ==
    ASSUME GroupInv, NEW p \in Request, gReq[p].pc \in Naming
    PROVE  Groups!Its(p) \in Groups!Group /\ gReq[p].groups = {Groups!Its(p)}
<1>1. PICK g \in Groups!Group : gReq[p].groups = {g}
    BY GroupHandlerIs DEF GroupHandlerKnows
<1> QED BY <1>1 DEF Groups!Its

\* A handler goes on, and no group changes.
LEMMA GroupHandlerMoves ==
    ASSUME GroupInv, NEW p \in Request, NEW h \in Groups!Handler, GroupHandlerKnows(h),
           gReq' = [gReq EXCEPT ![p] = h],
           UNCHANGED <<gBlocked, role, made, gone, orphaned>>,
           gFriends' \subseteq gFriends, gLoose' \subseteq Groups!Pair,
           \A q \in Request \ {p} :
               /\ h.pc \in Holding /\ gReq[q].pc \in Holding => h.groups \cap gReq[q].groups = {}
               /\ h.pc = "members" /\ gReq[q].pc = "members" => h.groups \cap gReq[q].groups = {},
           \A e \in gBlocked : {e[1], e[2]} \notin gLoose' =>
               \A g \in Groups!Shared(e[1], e[2]) :
                   \/ Sees(h, e[1], e[2], g)
                   \/ {e[1], e[2]} \notin gLoose /\ ~Sees(gReq[p], e[1], e[2], g)
    PROVE  GroupInv'
<1>1. /\ gReq' \in [Request -> Groups!Handler] /\ gReq'[p] = h
      /\ \A q \in Request \ {p} : gReq'[q] = gReq[q]
    BY DEF GroupInv, Groups!TypeOK
<1>2. Groups!TypeOK'
    BY <1>1 DEF GroupInv, Groups!TypeOK
<1>3. GroupHandlersKnow'
    <2>1. ASSUME NEW q \in Request PROVE GroupHandlerKnows(gReq[q])'
        <3>1. GroupHandlerKnows(gReq'[q])
            BY <1>1 DEF GroupInv, GroupHandlersKnow
        <3> QED BY <3>1 DEF GroupHandlerKnows, Groups!Heir, Groups!Active, Groups!Owners
    <2> QED BY <2>1 DEF GroupHandlersKnow
<1>4. LocksApart' /\ MakersApart'
    BY <1>1 DEF GroupInv, LocksApart, MakersApart
<1>5. OwnerIsOne' /\ OwnerIsThere' /\ BlocksAreOfTwo'
    BY DEF GroupInv, OwnerIsOne, OwnerIsThere, BlocksAreOfTwo, Groups!Owners, Groups!Active
<1>6. BlocksLeave'
    <2> SUFFICES ASSUME NEW e \in gBlocked, {e[1], e[2]} \notin gLoose', NEW g \in Groups!Shared(e[1], e[2])
                 PROVE  \E q \in Request : Sees(gReq'[q], e[1], e[2], g)
        <3>1. \A e \in gBlocked : Groups!Shared(e[1], e[2])' = Groups!Shared(e[1], e[2])
            BY DEF Groups!Shared, Groups!Active
        <3>2. \A q \in Request : \A a, b, g : Sees(gReq[q], a, b, g)' <=> Sees(gReq'[q], a, b, g)
            BY DEF Sees
        <3> QED BY <3>1, <3>2 DEF BlocksLeave
    <2>1. CASE Sees(h, e[1], e[2], g)
        BY <1>1, <2>1
    <2>2. CASE {e[1], e[2]} \notin gLoose /\ ~Sees(gReq[p], e[1], e[2], g)
        <3>1. PICK q \in Request : Sees(gReq[q], e[1], e[2], g)
            BY <2>2 DEF GroupInv, BlocksLeave
        <3> QED BY <1>1, <2>2, <3>1
    <2> QED BY <2>1, <2>2
<1> QED BY <1>2, <1>3, <1>4, <1>5, <1>6 DEF GroupInv

\* The same for a handler that no block is waiting for.
LEMMA QuietMoves ==
    ASSUME GroupInv, NEW p \in Request, NEW h \in Groups!Handler, GroupHandlerKnows(h),
           gReq' = [gReq EXCEPT ![p] = h],
           UNCHANGED <<gBlocked, role, made, gone, orphaned, gLoose>>,
           gFriends' \subseteq gFriends,
           gReq[p].pc \notin {"shared", "leaving"},
           \A q \in Request \ {p} :
               /\ h.pc \in Holding /\ gReq[q].pc \in Holding => h.groups \cap gReq[q].groups = {}
               /\ h.pc = "members" /\ gReq[q].pc = "members" => h.groups \cap gReq[q].groups = {}
    PROVE  GroupInv'
<1>1. gLoose' \subseteq Groups!Pair /\ gLoose' = gLoose
    BY DEF GroupInv, Groups!TypeOK
<1>2. \A e \in gBlocked : {e[1], e[2]} \notin gLoose' =>
          \A g \in Groups!Shared(e[1], e[2]) :
              {e[1], e[2]} \notin gLoose /\ ~Sees(gReq[p], e[1], e[2], g)
    BY <1>1 DEF Sees
<1> QED BY <1>1, <1>2, GroupHandlerMoves

LEMMA GroupAnswerKeeps ==
    ASSUME GroupInv, NEW p \in Request, Groups!Answer(p),
           UNCHANGED <<gBlocked, role, made, gone, orphaned, gLoose>>,
           gFriends' \subseteq gFriends, gReq[p].pc \notin {"shared", "leaving"}
    PROVE  GroupInv'
BY GroupTidyHandler, QuietMoves DEF Groups!Answer, Holding

\* A handler of which nothing but its place changes.
SameBut(h, k) ==
    /\ h.actor = k.actor /\ h.peer = k.peer /\ h.groups = k.groups
    /\ h.invited = k.invited /\ h.heir = k.heir /\ (h.late <=> k.late)

LEMMA HandlerGoes ==
    ASSUME GroupInv, NEW p \in Request,
           NEW x \in {"lookup", "eligible", "pairs", "insert", "members", "read"}, Groups!Go(p, x)
    PROVE  \E h \in Groups!Handler : /\ gReq' = [gReq EXCEPT ![p] = h]
                                     /\ h.pc = x /\ SameBut(h, gReq[p])
<1> DEFINE h == [gReq[p] EXCEPT !.pc = x]
<1>1. gReq[p] \in Groups!Handler
    BY GroupHandlerIs
<1>2. h \in Groups!Handler
    BY <1>1, Zenon DEF Groups!Handler
<1>3. h.pc = x /\ SameBut(h, gReq[p])
    BY <1>1 DEF Groups!Handler, SameBut
<1>4. gReq' = [gReq EXCEPT ![p] = h]
    BY DEF Groups!Go, GroupInv, Groups!TypeOK
<1> QED BY <1>2, <1>3, <1>4

\* A request comes in.
LEMMA GroupBeginKeeps ==
    ASSUME Groups!SoundConstants, GroupInv, NEW p \in Request, NEW g \in Groups!Group,
           \/ \E S \in SUBSET Member : Groups!Create(p, g, S)
           \/ \E a, u \in Member : Groups!RemoveMember(p, a, g, u)
    PROVE  GroupInv'
<1>1. gReq[p].pc = "idle" /\ UNCHANGED <<gFriends, gBlocked, role, made, gone, orphaned, gLoose>>
    BY DEF Groups!Create, Groups!RemoveMember, Groups!Idle
<1>2. CASE \E S \in SUBSET Member : Groups!Create(p, g, S)
    <2>1. PICK S \in SUBSET Member : Groups!Create(p, g, S)
        BY <1>2
    <2> DEFINE h == [Groups!Tidy EXCEPT !.pc = "lookup", !.actor = g[1], !.groups = {g}, !.invited = S]
    <2>2. gReq' = [gReq EXCEPT ![p] = h]
        BY <2>1 DEF Groups!Create
    <2>3. g[1] \in Member /\ {g} \in SUBSET Groups!Group
        BY DEF Groups!Group, Groups!SoundConstants
    <2>4. h \in Groups!Handler
        BY <2>3, GroupTidyHandler, Zenon DEF Groups!Handler
    <2>5. h.pc = "lookup" /\ h.actor = g[1] /\ h.groups = {g}
        BY GroupTidyHandler DEF Groups!Handler
    <2> HIDE DEF h
    <2>6. GroupHandlerKnows(h)
        BY <2>3, <2>5 DEF GroupHandlerKnows, Naming, Holding
    <2> QED BY <1>1, <2>2, <2>4, <2>5, <2>6, QuietMoves DEF Holding
<1>3. CASE \E a, u \in Member : Groups!RemoveMember(p, a, g, u)
    <2>1. PICK a \in Member, u \in Member : Groups!RemoveMember(p, a, g, u)
        BY <1>3
    <2> DEFINE h == [Groups!Tidy EXCEPT !.pc = "lock", !.actor = a, !.peer = u, !.groups = {g}]
    <2>2. gReq' = [gReq EXCEPT ![p] = h] /\ g \in made
        BY <2>1 DEF Groups!RemoveMember
    <2>3. {g} \in SUBSET Groups!Group
        OBVIOUS
    <2>4. h \in Groups!Handler
        BY <2>3, GroupTidyHandler, Zenon DEF Groups!Handler
    <2>5. h.pc = "lock" /\ h.peer = u /\ h.groups = {g} /\ h.heir = Groups!Nobody
        BY GroupTidyHandler DEF Groups!Handler, Groups!Tidy
    <2> HIDE DEF h
    <2>6. GroupHandlerKnows(h)
        BY <2>2, <2>5 DEF GroupHandlerKnows, Naming, Holding
    <2> QED BY <1>1, <2>2, <2>4, <2>5, <2>6, QuietMoves DEF Holding
<1> QED BY <1>2, <1>3

\* The checks of a creation, and the row that makes it the only one of its key.
LEMMA CheckKeeps ==
    ASSUME Groups!SoundConstants, GroupInv, NEW p \in Request,
           Groups!Lookup(p) \/ Groups!CheckInvitees(p) \/ Groups!CheckPairs(p) \/ Groups!InsertGroup(p)
    PROVE  GroupInv'
<1>1. /\ gReq[p].pc \in {"lookup", "eligible", "pairs", "insert"}
      /\ UNCHANGED <<gFriends, gBlocked, role, made, gone, orphaned, gLoose>>
    BY DEF Groups!Lookup, Groups!CheckInvitees, Groups!CheckPairs, Groups!InsertGroup, Groups!At
<1>2. Groups!Its(p) \in Groups!Group /\ gReq[p].groups = {Groups!Its(p)} /\ gReq[p].actor \in Member /\ Groups!TypeOK
    BY <1>1, ItsGroup, GroupHandlerIs DEF Naming, GroupHandlerKnows
<1>3. CASE Groups!Answer(p)
    BY <1>1, <1>3, GroupAnswerKeeps
<1>4. ASSUME NEW x \in {"lookup", "eligible", "pairs", "insert", "members"}, Groups!Go(p, x),
             x \in {"insert", "members"} =>
               \A e \in gBlocked : {e[1], e[2]} \subseteq gReq[p].invited \cup {gReq[p].actor}
                                  => gReq[p].late,
             x = "members" => /\ Groups!Its(p) \notin made
                              /\ \A q \in Request : gReq[q].pc = "members" => Groups!Its(q) # Groups!Its(p)
      PROVE  GroupInv'
    <2>1. PICK h \in Groups!Handler : /\ gReq' = [gReq EXCEPT ![p] = h] /\ h.pc = x /\ SameBut(h, gReq[p])
        BY <1>4, HandlerGoes
    <2>2. h.groups = {Groups!Its(p)} /\ h.actor = gReq[p].actor /\ h.invited = gReq[p].invited
          /\ (h.late <=> gReq[p].late)
        BY <1>2, <2>1 DEF SameBut
    <2>3. GroupHandlerKnows(h)
        BY <1>2, <1>4, <2>1, <2>2 DEF GroupHandlerKnows, Naming, Holding
    <2>4. \A q \in Request \ {p} :
              h.pc = "members" /\ gReq[q].pc = "members" => h.groups \cap gReq[q].groups = {}
        BY <1>4, <2>1, <2>2, ItsGroup DEF Naming
    <2> QED BY <1>1, <2>1, <2>3, <2>4, QuietMoves DEF Holding
<1>5. CASE Groups!Lookup(p)
    BY <1>3, <1>4, <1>5 DEF Groups!Lookup
<1>6. CASE Groups!CheckInvitees(p)
    BY <1>3, <1>4, <1>6 DEF Groups!CheckInvitees
<1>7. CASE Groups!CheckPairs(p)
    <2>1. Groups!PairsApart(p) =>
             \A e \in gBlocked : ~({e[1], e[2]} \subseteq gReq[p].invited \cup {gReq[p].actor})
        <3> SUFFICES ASSUME Groups!PairsApart(p), NEW e \in gBlocked,
                            {e[1], e[2]} \subseteq gReq[p].invited \cup {gReq[p].actor}
                     PROVE  FALSE
            OBVIOUS
        <3>1. e = <<e[1], e[2]>>
            BY <1>2 DEF Groups!TypeOK
        <3>2. e \in Groups!Invited(p) \X Groups!Invited(p)
            BY <3>1 DEF Groups!Invited
        <3> QED BY <3>2 DEF Groups!PairsApart, Groups!Blocks
    <2> QED BY <1>3, <1>4, <1>7, <2>1 DEF Groups!CheckPairs
<1>8. CASE Groups!InsertGroup(p)
    <2>1. gReq[p].pc = "insert" /\ (\A q \in Request : gReq[q].pc = "members" => Groups!Its(q) # Groups!Its(p))
          /\ Groups!Go(p, IF Groups!Its(p) \in made THEN "lookup" ELSE "members")
        BY <1>8 DEF Groups!InsertGroup, Groups!At, Groups!Conflict
    <2>2. \A e \in gBlocked : {e[1], e[2]} \subseteq gReq[p].invited \cup {gReq[p].actor}
                             => gReq[p].late
        BY <2>1, GroupHandlerIs DEF GroupHandlerKnows
    <2>3. CASE Groups!Its(p) \in made
        BY <1>4, <2>1, <2>3
    <2>4. CASE Groups!Its(p) \notin made
        BY <1>4, <2>1, <2>2, <2>4
    <2> QED BY <2>3, <2>4
<1> QED BY <1>5, <1>6, <1>7, <1>8

\* The heir depends on who is in the group and who owns it.
HeirOf(active, owners, u) ==
    LET rest == active \ {u}
        first == IF rest \cap owners # {} THEN rest \cap owners ELSE rest IN
    IF first = {} THEN Groups!Nobody ELSE CHOOSE v \in first : \A w \in first : v <= w

\* The heir is somebody who stays, unless nobody does.
LEMMA HeirIs ==
    ASSUME Groups!SoundConstants, role \in [Groups!Group -> [Member -> Groups!Role]], NEW g \in Groups!Group, NEW u
    PROVE  /\ Groups!Heir(g, u) \in Member \cup {Groups!Nobody}
           /\ Groups!Active(g) \ {u} # {} => Groups!Heir(g, u) \in Groups!Active(g) \ {u}
           /\ Groups!Active(g) \ {u} = {} => Groups!Heir(g, u) = Groups!Nobody
<1> DEFINE rest == Groups!Active(g) \ {u}
           first == IF rest \cap Groups!Owners(g) # {} THEN rest \cap Groups!Owners(g) ELSE rest
<1>1. first \subseteq rest /\ (first = {} <=> rest = {}) /\ rest \subseteq Member /\ first \subseteq Nat
    BY DEF Groups!Active, Groups!SoundConstants
<1>2. Groups!Heir(g, u) = IF first = {} THEN Groups!Nobody ELSE CHOOSE v \in first : \A w \in first : v <= w
    BY DEF Groups!Heir
<1> HIDE DEF first
<1>3. first # {} => Groups!Heir(g, u) \in first
    <2> SUFFICES ASSUME first # {} PROVE Groups!Heir(g, u) \in first
        OBVIOUS
    <2>1. \E v \in first : \A w \in first : v <= w
        BY <1>1, LeastExists
    <2> QED BY <1>2, <2>1
<1> QED BY <1>1, <1>2, <1>3

\* What is left of a group when somebody leaves it: at most one owner, and one if
\* there was one and anybody stays.
LEMMA AfterIs ==
    ASSUME Groups!SoundConstants, GroupInv, NEW g \in Groups!Group, NEW u \in Member, NEW h, NEW s,
           h = IF role[g][u] = "owner" THEN Groups!Heir(g, u) ELSE Groups!Nobody,
           s = Groups!After(role[g], u, h)
    PROVE  /\ s \in [Member -> Groups!Role]
           /\ \A v \in Member : s[v] \in {"owner", "member"} <=>
                                 v # u /\ role[g][v] \in {"owner", "member"}
           /\ \A v, w \in Member : s[v] = "owner" /\ s[w] = "owner" => v = w
           /\ (\E v \in Member : role[g][v] = "owner")
              /\ (\E v \in Member : s[v] \in {"owner", "member"})
              => \E v \in Member : s[v] = "owner"
           /\ \A v \in Member : role[g][v] \in {"none", "left"} => s[v] = role[g][v]
<1>1. role \in [Groups!Group -> [Member -> Groups!Role]] /\ role[g] \in [Member -> Groups!Role] /\ Groups!Nobody \notin Member
    BY DEF GroupInv, Groups!TypeOK, Groups!SoundConstants, Groups!Nobody
<1>2. \A v \in Member : role[g][v] \in Groups!Role
    BY <1>1
<1>3. s = [v \in Member |-> IF v = u /\ role[g][v] \in {"owner", "member"} THEN "left"
                          ELSE IF v = h /\ role[g][v] = "member" THEN "owner"
                          ELSE role[g][v]]
    BY DEF Groups!After
<1>4. s \in [Member -> Groups!Role]
    BY <1>2, <1>3 DEF Groups!Role
<1>5. \A v \in Member : s[v] = IF v = u /\ role[g][v] \in {"owner", "member"} THEN "left"
                             ELSE IF v = h /\ role[g][v] = "member" THEN "owner"
                             ELSE role[g][v]
    BY <1>3
<1>6. \A v \in Member : s[v] \in {"owner", "member"} <=> v # u /\ role[g][v] \in {"owner", "member"}
    BY <1>5
<1>7. \A v \in Member : role[g][v] \in {"none", "left"} => s[v] = role[g][v]
    BY <1>5
<1>8. \A v, w \in Member : role[g][v] = "owner" /\ role[g][w] = "owner" => v = w
    BY DEF GroupInv, OwnerIsOne, Groups!Owners
<1>9. CASE role[g][u] = "owner"
    <2>1. h = Groups!Heir(g, u) /\ \A v \in Member \ {u} : role[g][v] # "owner"
        BY <1>8, <1>9
    <2>2. \A v, w \in Member : s[v] = "owner" /\ s[w] = "owner" => v = w
        BY <1>5, <1>9, <2>1
    <2>3. (\E v \in Member : s[v] \in {"owner", "member"}) => \E v \in Member : s[v] = "owner"
        <3> SUFFICES ASSUME NEW v \in Member, s[v] \in {"owner", "member"}
                     PROVE  \E w \in Member : s[w] = "owner"
            OBVIOUS
        <3>1. v \in Groups!Active(g) \ {u}
            BY <1>6 DEF Groups!Active
        <3>2. h \in Groups!Active(g) \ {u}
            BY <1>1, <2>1, <3>1, HeirIs
        <3>3. h \in Member /\ h # u /\ role[g][h] = "member"
            BY <2>1, <3>2 DEF Groups!Active
        <3> QED BY <1>5, <3>3
    <2> QED BY <1>4, <1>6, <1>7, <2>2, <2>3
<1>10. CASE role[g][u] # "owner"
    <2>1. \A v \in Member : v # h
        BY <1>1, <1>10
    <2>2. \A v \in Member : s[v] = "owner" <=> role[g][v] = "owner"
        BY <1>5, <1>10, <2>1
    <2> QED BY <1>4, <1>6, <1>7, <1>8, <2>2
<1> QED BY <1>9, <1>10

\* Somebody leaves the groups that the handler has locked.
LEMMA GroupsLeft ==
    ASSUME Groups!SoundConstants, GroupInv, NEW p \in Request, NEW h \in Groups!Handler, GroupHandlerKnows(h),
           h.pc \in {"idle", "onBlock"}, gReq[p].pc \in {"leave", "leaving"},
           NEW u \in Member, gReq[p].pc = "leaving" => u = gReq[p].actor,
           role' = [g \in Groups!Group |->
                      IF g \in gReq[p].groups
                      THEN Groups!After(role[g], u, IF role[g][u] = "owner" THEN Groups!Heir(g, u) ELSE Groups!Nobody)
                      ELSE role[g]],
           gReq' = [gReq EXCEPT ![p] = h],
           UNCHANGED <<gFriends, gBlocked, made, gone, orphaned, gLoose>>
    PROVE  GroupInv'
<1>1. /\ gReq' \in [Request -> Groups!Handler] /\ gReq'[p] = h
      /\ \A q \in Request \ {p} : gReq'[q] = gReq[q]
    BY DEF GroupInv, Groups!TypeOK
<1>2. role \in [Groups!Group -> [Member -> Groups!Role]]
    BY DEF GroupInv, Groups!TypeOK
<1>3. \A g \in Groups!Group :
          role'[g] = IF g \in gReq[p].groups
                     THEN Groups!After(role[g], u, IF role[g][u] = "owner" THEN Groups!Heir(g, u) ELSE Groups!Nobody)
                     ELSE role[g]
    BY <1>2
<1>4. ASSUME NEW g \in Groups!Group
      PROVE  /\ role'[g] \in [Member -> Groups!Role]
             /\ \A v \in Member : role'[g][v] \in {"owner", "member"} =>
                                   role[g][v] \in {"owner", "member"}
             /\ g \in gReq[p].groups => role'[g][u] \notin {"owner", "member"}
             /\ \A v, w \in Member : role'[g][v] = "owner" /\ role'[g][w] = "owner" => v = w
             /\ (\E v \in Member : role[g][v] = "owner")
                /\ (\E v \in Member : role'[g][v] \in {"owner", "member"})
                => \E v \in Member : role'[g][v] = "owner"
             /\ \A v \in Member : role[g][v] = "none" => role'[g][v] = "none"
    <2>1. CASE g \in gReq[p].groups
        <3> DEFINE k == IF role[g][u] = "owner" THEN Groups!Heir(g, u) ELSE Groups!Nobody
                   s == Groups!After(role[g], u, k)
        <3>1. role'[g] = s
            BY <1>3, <2>1
        <3>2. k = IF role[g][u] = "owner" THEN Groups!Heir(g, u) ELSE Groups!Nobody
            OBVIOUS
        <3> HIDE DEF k
        <3>3. s = Groups!After(role[g], u, k)
            OBVIOUS
        <3> HIDE DEF s
        <3>4. /\ s \in [Member -> Groups!Role]
              /\ \A v \in Member : s[v] \in {"owner", "member"} <=>
                                    v # u /\ role[g][v] \in {"owner", "member"}
              /\ \A v, w \in Member : s[v] = "owner" /\ s[w] = "owner" => v = w
              /\ (\E v \in Member : role[g][v] = "owner")
                 /\ (\E v \in Member : s[v] \in {"owner", "member"})
                 => \E v \in Member : s[v] = "owner"
              /\ \A v \in Member : role[g][v] \in {"none", "left"} => s[v] = role[g][v]
            BY <3>2, <3>3, AfterIs
        <3>5. \A v \in Member : role[g][v] = "none" => s[v] = "none"
            BY <3>4
        <3> QED BY <3>1, <3>4, <3>5
    <2>2. CASE g \notin gReq[p].groups
        <3>1. role'[g] = role[g] /\ role[g] \in [Member -> Groups!Role]
            BY <1>2, <1>3, <2>2
        <3>2. \A v, w \in Member : role[g][v] = "owner" /\ role[g][w] = "owner" => v = w
            BY DEF GroupInv, OwnerIsOne, Groups!Owners
        <3> QED BY <2>2, <3>1, <3>2
    <2> QED BY <2>1, <2>2
<1>5. Groups!TypeOK'
    <2>1. role' \in [Groups!Group -> [Member -> Groups!Role]]
        BY <1>4
    <2>2. \A g \in Groups!Group : (\E v \in Member : role'[g][v] # "none") => g \in made
        BY <1>4 DEF GroupInv, Groups!TypeOK
    <2> QED BY <1>1, <2>1, <2>2 DEF GroupInv, Groups!TypeOK
<1>6. GroupHandlersKnow'
    <2>1. GroupHandlerKnows(gReq[p])'
        BY <1>1 DEF GroupHandlerKnows, Naming, Holding
    <2>2. ASSUME NEW q \in Request \ {p} PROVE GroupHandlerKnows(gReq[q])'
        <3>1. gReq'[q] = gReq[q] /\ GroupHandlerKnows(gReq[q])
            BY <1>1 DEF GroupInv, GroupHandlersKnow
        <3>2. gReq[q].pc \in Holding => gReq[q].groups \cap gReq[p].groups = {}
            BY DEF GroupInv, LocksApart, Holding
        <3>3. gReq[q].groups \subseteq Groups!Group
            BY DEF GroupInv, Groups!TypeOK, Groups!Handler
        <3>4. gReq[q].pc \in {"succession", "leave"} =>
                 \A g \in gReq[q].groups : role'[g] = role[g]
            BY <1>3, <3>2, <3>3 DEF Holding
        <3>5. ASSUME NEW g, NEW v, role'[g] = role[g] PROVE Groups!Heir(g, v)' = Groups!Heir(g, v)
            <4>1. Groups!Active(g)' = Groups!Active(g) /\ Groups!Owners(g)' = Groups!Owners(g)
                BY <3>5 DEF Groups!Active, Groups!Owners
            <4>2. Groups!Heir(g, v)' = HeirOf(Groups!Active(g)', Groups!Owners(g)', v)
                BY DEF Groups!Heir, HeirOf
            <4>3. Groups!Heir(g, v) = HeirOf(Groups!Active(g), Groups!Owners(g), v)
                BY DEF Groups!Heir, HeirOf
            <4> QED BY <4>1, <4>2, <4>3
        <3>6. gReq[q].pc = "succession" => \A g \in gReq[q].groups : role'[g][gReq[q].peer] = "owner"
            BY <3>1, <3>4 DEF GroupHandlerKnows
        <3>7. gReq[q].pc = "leave" =>
                 \A g \in gReq[q].groups :
                    \/ role'[g][gReq[q].peer] = "member" /\ gReq[q].heir = Groups!Nobody
                    \/ role'[g][gReq[q].peer] = "owner" /\ gReq[q].heir = Groups!Heir(g, gReq[q].peer)
            BY <3>1, <3>4 DEF GroupHandlerKnows
        <3>8. gReq[q].pc = "leave" =>
                 \A g \in gReq[q].groups :
                    \/ role'[g][gReq'[q].peer] = "member" /\ gReq'[q].heir = Groups!Nobody
                    \/ role'[g][gReq'[q].peer] = "owner" /\ gReq'[q].heir = Groups!Heir(g, gReq[q].peer)'
            BY <3>1, <3>4, <3>5, <3>7
        <3> QED BY <3>1, <3>6, <3>8 DEF GroupHandlerKnows
    <2> QED BY <2>1, <2>2 DEF GroupHandlersKnow
<1>7. LocksApart' /\ MakersApart'
    BY <1>1 DEF GroupInv, LocksApart, MakersApart, Holding
<1>8. OwnerIsOne' /\ BlocksAreOfTwo'
    BY <1>4 DEF GroupInv, OwnerIsOne, Groups!Owners, BlocksAreOfTwo
<1>9. OwnerIsThere'
    <2>1. made \subseteq Groups!Group
        BY DEF GroupInv, Groups!TypeOK
    <2> QED BY <1>4, <2>1 DEF GroupInv, OwnerIsThere, Groups!Active, Groups!Owners
<1>10. BlocksLeave'
    <2> SUFFICES ASSUME NEW e \in gBlocked, {e[1], e[2]} \notin gLoose, NEW g \in made,
                        {e[1], e[2]} \subseteq Groups!Active(g)'
                 PROVE  \E q \in Request : Sees(gReq'[q], e[1], e[2], g)
        <3>1. \A q \in Request : \A a, b, g : Sees(gReq[q], a, b, g)' <=> Sees(gReq'[q], a, b, g)
            BY DEF Sees
        <3> QED BY <3>1 DEF BlocksLeave, Groups!Shared
    <2>1. g \in Groups!Group
        BY DEF GroupInv, Groups!TypeOK
    <2>2. g \in Groups!Shared(e[1], e[2]) /\ (g \in gReq[p].groups => u \notin {e[1], e[2]})
        BY <1>4, <2>1 DEF Groups!Shared, Groups!Active
    <2>3. PICK q \in Request : Sees(gReq[q], e[1], e[2], g)
        BY <2>2 DEF GroupInv, BlocksLeave
    <2>4. q # p
        BY <2>2, <2>3 DEF Sees
    <2> QED BY <1>1, <2>3, <2>4
<1> QED BY <1>5, <1>6, <1>7, <1>8, <1>9, <1>10 DEF GroupInv

\* A member leaves or is removed under the lock of the group.
LEMMA LeaveCommitIs ==
    ASSUME Groups!SoundConstants, GroupInv, NEW p \in Request, Groups!LeaveCommit(p)
    PROVE  /\ gReq[p].pc = "leave" /\ gReq[p].peer \in Member
           /\ gReq' = [gReq EXCEPT ![p] = Groups!Tidy]
           /\ UNCHANGED <<gFriends, gBlocked, made, gone, orphaned, gLoose>>
           /\ role' = [g \in Groups!Group |->
                         IF g \in gReq[p].groups
                         THEN Groups!After(role[g], gReq[p].peer,
                                    IF role[g][gReq[p].peer] = "owner" THEN Groups!Heir(g, gReq[p].peer)
                                    ELSE Groups!Nobody)
                         ELSE role[g]]
<1> DEFINE i == Groups!Its(p)
           u == gReq[p].peer
<1>1. /\ gReq[p].pc = "leave" /\ gReq' = [gReq EXCEPT ![p] = Groups!Tidy]
      /\ UNCHANGED <<gFriends, gBlocked, made, gone, orphaned, gLoose>>
      /\ role' = [role EXCEPT ![i] = Groups!After(@, u, gReq[p].heir)]
    BY DEF Groups!LeaveCommit, Groups!At, Groups!Answer
<1>2. i \in Groups!Group /\ gReq[p].groups = {i} /\ u \in Member /\ role \in [Groups!Group -> [Member -> Groups!Role]]
    BY <1>1, ItsGroup, GroupHandlerIs DEF Naming, GroupHandlerKnows, Groups!TypeOK
<1>3. gReq[p].heir = IF role[i][u] = "owner" THEN Groups!Heir(i, u) ELSE Groups!Nobody
    BY <1>1, <1>2, GroupHandlerIs DEF GroupHandlerKnows
<1> HIDE DEF i, u
<1>4. role' = [g \in Groups!Group |->
                  IF g \in gReq[p].groups
                  THEN Groups!After(role[g], u, IF role[g][u] = "owner" THEN Groups!Heir(g, u) ELSE Groups!Nobody)
                  ELSE role[g]]
    BY <1>1, <1>2, <1>3
<1> QED BY <1>1, <1>2, <1>4 DEF u

LEMMA LeaveKeeps ==
    ASSUME Groups!SoundConstants, GroupInv, NEW p \in Request,
           Groups!LockGroup(p) \/ Groups!ReadMembers(p) \/ Groups!ChooseHeir(p) \/ Groups!LeaveCommit(p)
    PROVE  GroupInv'
<1>1. CASE Groups!LeaveCommit(p)
    <2>1. Groups!Tidy \in Groups!Handler /\ Groups!Tidy.pc = "idle" /\ GroupHandlerKnows(Groups!Tidy)
        BY GroupTidyHandler
    <2> QED BY <1>1, <2>1, LeaveCommitIs, GroupsLeft
<1>2. CASE ~Groups!LeaveCommit(p)
    <2> DEFINE i == Groups!Its(p)
               u == gReq[p].peer
    <2>1. /\ gReq[p].pc \in {"lock", "read", "succession"}
          /\ UNCHANGED <<gFriends, gBlocked, role, made, gone, orphaned, gLoose>>
        BY <1>2 DEF Groups!LockGroup, Groups!ReadMembers, Groups!ChooseHeir, Groups!At
    <2>2. i \in Groups!Group /\ gReq[p].groups = {i} /\ u \in Member /\ Groups!TypeOK /\ gReq[p] \in Groups!Handler
          /\ GroupHandlerKnows(gReq[p]) /\ gReq[p].heir = Groups!Nobody /\ i \in made
        BY <2>1, ItsGroup, GroupHandlerIs DEF Naming, GroupHandlerKnows, Holding
    <2> HIDE DEF i
    <2>3. CASE Groups!LockGroup(p)
        <3>1. Groups!Free(p, i) /\ Groups!Go(p, "read") /\ gReq[p].pc = "lock"
            BY <2>3 DEF Groups!LockGroup, i, Groups!At
        <3>2. PICK h \in Groups!Handler : /\ gReq' = [gReq EXCEPT ![p] = h] /\ h.pc = "read" /\ SameBut(h, gReq[p])
            BY <3>1, HandlerGoes
        <3>3. h.groups = {i} /\ h.peer = u /\ h.heir = Groups!Nobody
            BY <2>2, <3>2 DEF SameBut
        <3>4. GroupHandlerKnows(h)
            BY <2>2, <3>2, <3>3 DEF GroupHandlerKnows, Naming, Holding
        <3>5. \A q \in Request \ {p} : gReq[q].pc \in Holding => h.groups \cap gReq[q].groups = {}
            BY <3>1, <3>3 DEF Groups!Free, Holding
        <3> QED BY <2>1, <3>2, <3>4, <3>5, QuietMoves
    <2>4. \A q \in Request \ {p} : gReq[p].pc # "lock" /\ gReq[q].pc \in Holding
                                   => {i} \cap gReq[q].groups = {}
        BY <2>1, <2>2 DEF GroupInv, LocksApart, Holding
    <2>5. CASE Groups!ReadMembers(p)
        <3>1. gReq[p].pc = "read"
            BY <2>5 DEF Groups!ReadMembers, Groups!At
        <3>2. CASE Groups!Answer(p)
            BY <2>1, <3>1, <3>2, GroupAnswerKeeps
        <3>3. CASE ~Groups!Answer(p)
            <4> DEFINE x == IF role[i][u] = "owner" THEN "succession" ELSE "leave"
                       h == [gReq[p] EXCEPT !.pc = x, !.role = role[i][u]]
            <4>1. Groups!MayRemove(gReq[p].actor, u, i) /\ gReq' = [gReq EXCEPT ![p].pc = x, ![p].role = role[i][u]]
                BY <2>5, <3>3 DEF Groups!ReadMembers, i
            <4>2. gReq' = [gReq EXCEPT ![p] = h]
                BY <2>2, <4>1 DEF Groups!TypeOK
            <4>3. role[i][u] \in Groups!Role /\ role[i][u] \in {"owner", "member"}
                BY <2>2, <4>1 DEF Groups!TypeOK, Groups!MayRemove, Groups!Active
            <4>4. x \in {"succession", "leave"}
                OBVIOUS
            <4>5. x = "succession" <=> role[i][u] = "owner"
                OBVIOUS
            <4> HIDE DEF x
            <4>6. h \in Groups!Handler
                BY <2>2, <4>3, <4>4, Zenon DEF Groups!Handler
            <4>7. h.pc = x /\ h.groups = {i} /\ h.peer = u /\ h.heir = Groups!Nobody
                BY <2>2 DEF Groups!Handler
            <4> HIDE DEF h, u
            <4>8. GroupHandlerKnows(h)
                BY <2>2, <4>3, <4>4, <4>5, <4>7 DEF GroupHandlerKnows, Naming, Holding
            <4> QED BY <2>1, <2>4, <3>1, <4>2, <4>4, <4>6, <4>7, <4>8, QuietMoves
        <3> QED BY <3>2, <3>3
    <2>6. CASE Groups!ChooseHeir(p)
        <3> DEFINE k == Groups!Heir(i, u)
                   h == [gReq[p] EXCEPT !.pc = "leave", !.heir = k]
        <3>1. gReq[p].pc = "succession" /\ gReq' = [gReq EXCEPT ![p].pc = "leave", ![p].heir = k]
            BY <2>6 DEF Groups!ChooseHeir, Groups!At, i
        <3>2. gReq' = [gReq EXCEPT ![p] = h]
            BY <2>2, <3>1 DEF Groups!TypeOK
        <3>3. k \in Member \cup {Groups!Nobody}
            BY <2>2, HeirIs DEF Groups!TypeOK
        <3>4. role[i][u] = "owner"
            BY <2>2, <3>1 DEF GroupHandlerKnows
        <3>5. k = Groups!Heir(i, u)
            OBVIOUS
        <3> HIDE DEF k
        <3>6. h \in Groups!Handler
            BY <2>2, <3>3, Zenon DEF Groups!Handler
        <3>7. h.pc = "leave" /\ h.groups = {i} /\ h.peer = u /\ h.heir = k
            BY <2>2 DEF Groups!Handler
        <3> HIDE DEF h, u
        <3>8. GroupHandlerKnows(h)
            BY <2>2, <3>4, <3>5, <3>7 DEF GroupHandlerKnows, Naming, Holding
        <3>9. \A q \in Request \ {p} :
                 /\ h.pc \in Holding /\ gReq[q].pc \in Holding => h.groups \cap gReq[q].groups = {}
                 /\ h.pc = "members" /\ gReq[q].pc = "members" => h.groups \cap gReq[q].groups = {}
            BY <2>4, <3>1, <3>7
        <3>10. gReq[p].pc \notin {"shared", "leaving"} /\ gFriends' \subseteq gFriends
            BY <2>1
        <3> QED BY <2>1, <3>2, <3>6, <3>8, <3>9, <3>10, QuietMoves
    <2> QED BY <1>2, <2>3, <2>5, <2>6
<1> QED BY <1>1, <1>2

\* A creation commits: the group is new, and a pair blocked since its check is
\* on record.
LEMMA CreateKeeps ==
    ASSUME Groups!SoundConstants, GroupInv, NEW p \in Request, Groups!CreateCommit(p)
    PROVE  GroupInv'
<1> DEFINE i == Groups!Its(p)
           a == gReq[p].actor
           s == gReq[p].invited
           r == [u \in Member |-> IF u = a THEN "owner" ELSE IF u \in s THEN "member" ELSE "none"]
<1>1. /\ gReq[p].pc = "members" /\ gReq' = [gReq EXCEPT ![p] = Groups!Tidy]
      /\ made' = made \cup {i} /\ role' = [role EXCEPT ![i] = r]
      /\ gLoose' = IF gReq[p].late
                  THEN gLoose \cup {e \in Groups!Pair : e \subseteq s \cup {a} /\ Groups!Blocks(e)}
                  ELSE gLoose
      /\ UNCHANGED <<gFriends, gBlocked, gone, orphaned>>
    BY DEF Groups!CreateCommit, Groups!At, Groups!Answer, Groups!Invited
<1>2. /\ i \in Groups!Group /\ gReq[p].groups = {i} /\ a \in Member /\ Groups!TypeOK /\ i \notin made
      /\ \A e \in gBlocked : {e[1], e[2]} \subseteq s \cup {a} => gReq[p].late
    BY <1>1, ItsGroup, GroupHandlerIs DEF Naming, GroupHandlerKnows
<1>3. /\ r \in [Member -> Groups!Role] /\ r[a] = "owner" /\ \A v \in Member : r[v] = "owner" => v = a
      /\ \A v \in Member : r[v] \in {"owner", "member"} => v \in s \cup {a}
    BY <1>2 DEF Groups!Role
<1> HIDE DEF i, a, s, r
<1>4. role' \in [Groups!Group -> [Member -> Groups!Role]] /\ role'[i] = r /\ \A g \in Groups!Group \ {i} : role'[g] = role[g]
    BY <1>1, <1>2, <1>3 DEF Groups!TypeOK
<1>5. /\ gReq' \in [Request -> Groups!Handler] /\ gReq'[p] = Groups!Tidy
      /\ \A q \in Request \ {p} : gReq'[q] = gReq[q]
    BY <1>1, <1>2, GroupTidyHandler DEF Groups!TypeOK
<1>6. Groups!TypeOK'
    <2>1. gLoose' \subseteq Groups!Pair /\ made' \subseteq Groups!Group /\ orphaned' \subseteq made'
        BY <1>1, <1>2 DEF Groups!TypeOK
    <2>2. \A g \in Groups!Group : (\E u \in Member : role'[g][u] # "none") => g \in made'
        BY <1>1, <1>2, <1>4 DEF Groups!TypeOK
    <2> QED BY <1>1, <1>2, <1>4, <1>5, <2>1, <2>2 DEF Groups!TypeOK
<1>7. GroupHandlersKnow'
    <2>1. GroupHandlerKnows(gReq[p])'
        BY <1>5, GroupTidyHandler DEF GroupHandlerKnows, Naming, Holding
    <2>2. ASSUME NEW q \in Request \ {p} PROVE GroupHandlerKnows(gReq[q])'
        <3>1. gReq'[q] = gReq[q] /\ GroupHandlerKnows(gReq[q])
            BY <1>5 DEF GroupInv, GroupHandlersKnow
        <3>2. gReq[q].pc = "members" => i \notin gReq[q].groups
            BY <1>1, <1>2 DEF GroupInv, MakersApart
        <3>3. gReq[q].groups \subseteq Groups!Group
            BY <1>2 DEF Groups!TypeOK, Groups!Handler
        <3>4. gReq[q].pc \in {"succession", "leave"} =>
                 \A g \in gReq[q].groups : role'[g] = role[g]
            BY <1>2, <1>4, <3>1, <3>3 DEF GroupHandlerKnows, Holding
        <3>5. ASSUME NEW g, NEW v, role'[g] = role[g] PROVE Groups!Heir(g, v)' = Groups!Heir(g, v)
            <4>1. Groups!Active(g)' = Groups!Active(g) /\ Groups!Owners(g)' = Groups!Owners(g)
                BY <3>5 DEF Groups!Active, Groups!Owners
            <4>2. Groups!Heir(g, v)' = HeirOf(Groups!Active(g)', Groups!Owners(g)', v)
                BY DEF Groups!Heir, HeirOf
            <4>3. Groups!Heir(g, v) = HeirOf(Groups!Active(g), Groups!Owners(g), v)
                BY DEF Groups!Heir, HeirOf
            <4> QED BY <4>1, <4>2, <4>3
        <3>6. gReq[q].pc = "succession" => \A g \in gReq[q].groups : role'[g][gReq[q].peer] = "owner"
            BY <3>1, <3>4 DEF GroupHandlerKnows
        <3>7. gReq[q].pc = "leave" =>
                 \A g \in gReq[q].groups :
                    \/ role'[g][gReq[q].peer] = "member" /\ gReq[q].heir = Groups!Nobody
                    \/ role'[g][gReq[q].peer] = "owner" /\ gReq[q].heir = Groups!Heir(g, gReq[q].peer)
            BY <3>1, <3>4 DEF GroupHandlerKnows
        <3>8. gReq[q].pc = "leave" =>
                 \A g \in gReq[q].groups :
                    \/ role'[g][gReq'[q].peer] = "member" /\ gReq'[q].heir = Groups!Nobody
                    \/ role'[g][gReq'[q].peer] = "owner" /\ gReq'[q].heir = Groups!Heir(g, gReq[q].peer)'
            BY <3>1, <3>4, <3>5, <3>7
        <3> QED BY <1>1, <3>1, <3>2, <3>6, <3>8 DEF GroupHandlerKnows
    <2> QED BY <2>1, <2>2 DEF GroupHandlersKnow
<1>8. LocksApart' /\ MakersApart'
    BY <1>5, GroupTidyHandler DEF GroupInv, LocksApart, MakersApart, Holding
<1>9. OwnerIsOne' /\ BlocksAreOfTwo'
    BY <1>1, <1>3, <1>4 DEF GroupInv, OwnerIsOne, Groups!Owners, BlocksAreOfTwo
<1>10. OwnerIsThere'
    <2> SUFFICES ASSUME NEW g \in made', Groups!Active(g)' # {}, g \notin orphaned PROVE Groups!Owners(g)' # {}
        BY <1>1 DEF OwnerIsThere
    <2>1. CASE g = i
        BY <1>2, <1>3, <1>4, <2>1 DEF Groups!Owners
    <2>2. CASE g # i
        <3>1. g \in made /\ role'[g] = role[g]
            BY <1>1, <1>2, <1>4, <2>2 DEF Groups!TypeOK
        <3>2. Groups!Active(g)' = Groups!Active(g) /\ Groups!Owners(g)' = Groups!Owners(g)
            BY <3>1 DEF Groups!Active, Groups!Owners
        <3> QED BY <3>1, <3>2 DEF GroupInv, OwnerIsThere
    <2> QED BY <2>1, <2>2
<1>11. BlocksLeave'
    <2> SUFFICES ASSUME NEW e \in gBlocked, {e[1], e[2]} \notin gLoose', NEW g \in made',
                        {e[1], e[2]} \subseteq Groups!Active(g)'
                 PROVE  \E q \in Request : Sees(gReq'[q], e[1], e[2], g)
        <3>1. \A q \in Request : \A x, y, g : Sees(gReq[q], x, y, g)' <=> Sees(gReq'[q], x, y, g)
            BY DEF Sees
        <3> QED BY <1>1, <3>1 DEF BlocksLeave, Groups!Shared
    <2>1. {e[1], e[2]} \notin gLoose
        BY <1>1
    <2>2. CASE g = i
        <3>1. {e[1], e[2]} \subseteq s \cup {a}
            BY <1>2, <1>3, <1>4, <2>2 DEF Groups!Active
        <3>2. gReq[p].late /\ e = <<e[1], e[2]>> /\ e[1] \in Member /\ e[2] \in Member /\ e[1] # e[2]
            BY <1>2, <3>1 DEF Groups!TypeOK, GroupInv, BlocksAreOfTwo
        <3>3. Groups!Blocks({e[1], e[2]})
            BY <3>2 DEF Groups!Blocks
        <3>4. {e[1], e[2]} \in Groups!Pair
            BY <3>2, PairOfTwo
        <3> QED BY <1>1, <3>1, <3>2, <3>3, <3>4
    <2>3. CASE g # i
        <3>1. g \in made /\ role'[g] = role[g]
            BY <1>1, <1>2, <1>4, <2>3 DEF Groups!TypeOK
        <3>2. g \in Groups!Shared(e[1], e[2])
            BY <3>1 DEF Groups!Shared, Groups!Active
        <3>3. PICK q \in Request : Sees(gReq[q], e[1], e[2], g)
            BY <2>1, <3>2 DEF GroupInv, BlocksLeave
        <3>4. q # p
            BY <1>1, <3>3 DEF Sees
        <3> QED BY <1>5, <3>3, <3>4
    <2> QED BY <2>2, <2>3
<1> QED BY <1>6, <1>7, <1>8, <1>9, <1>10, <1>11 DEF GroupInv

\* A block begins; whoever is making a group with the two is too late to see it.
LEMMA BlockKeeps ==
    ASSUME Groups!SoundConstants, GroupInv, NEW p \in Request, NEW a \in Member, NEW b \in Member, a # b,
           Groups!Block(p, a, b)
    PROVE  GroupInv'
<1> DEFINE h == [Groups!Tidy EXCEPT !.pc = "blocked", !.actor = a, !.peer = b]
           k(q) == [gReq[q] EXCEPT !.late = @ \/ {a, b} \subseteq Groups!Invited(q)]
<1>1. /\ gReq[p].pc = "idle" /\ gBlocked' = gBlocked \cup {<<a, b>>} /\ gLoose' = gLoose \cup {{a, b}}
      /\ gReq' = [q \in Request |-> IF q = p THEN h ELSE k(q)]
      /\ UNCHANGED <<gFriends, role, made, gone, orphaned>>
    BY DEF Groups!Block, Groups!Idle
<1>2. Groups!TypeOK /\ gReq \in [Request -> Groups!Handler]
    BY DEF GroupInv, Groups!TypeOK
<1>3. h \in Groups!Handler
    BY GroupTidyHandler, Zenon DEF Groups!Handler
<1>4. h.pc = "blocked" /\ h.actor = a /\ h.peer = b
    BY GroupTidyHandler DEF Groups!Handler
<1>5. ASSUME NEW q \in Request
      PROVE  /\ k(q) \in Groups!Handler /\ k(q).pc = gReq[q].pc /\ k(q).actor = gReq[q].actor
             /\ k(q).peer = gReq[q].peer /\ k(q).groups = gReq[q].groups
             /\ k(q).invited = gReq[q].invited /\ k(q).heir = gReq[q].heir
             /\ k(q).late <=> (gReq[q].late \/ {a, b} \subseteq gReq[q].invited \cup {gReq[q].actor})
    <2> DEFINE B == gReq[q].late \/ {a, b} \subseteq Groups!Invited(q)
               m == [gReq[q] EXCEPT !.late = B]
    <2>1. gReq[q] \in Groups!Handler
        BY <1>2
    <2>2. B \in BOOLEAN
        OBVIOUS
    <2>3. k(q) = m
        OBVIOUS
    <2>4. B <=> (gReq[q].late \/ {a, b} \subseteq gReq[q].invited \cup {gReq[q].actor})
        BY DEF Groups!Invited
    <2> HIDE DEF B, k
    <2>5. m \in Groups!Handler
        BY <2>1, <2>2, Zenon DEF Groups!Handler
    <2>6. /\ m.pc = gReq[q].pc /\ m.actor = gReq[q].actor
          /\ m.peer = gReq[q].peer /\ m.groups = gReq[q].groups
          /\ m.invited = gReq[q].invited /\ m.heir = gReq[q].heir /\ (m.late <=> B)
        BY <2>1, <2>2 DEF Groups!Handler
    <2> HIDE DEF m
    <2> QED BY <2>3, <2>4, <2>5, <2>6
<1> HIDE DEF h, k
<1>6. /\ gReq' \in [Request -> Groups!Handler] /\ gReq'[p] = h
      /\ \A q \in Request \ {p} :
            /\ gReq'[q].pc = gReq[q].pc /\ gReq'[q].actor = gReq[q].actor
            /\ gReq'[q].peer = gReq[q].peer /\ gReq'[q].groups = gReq[q].groups
            /\ gReq'[q].invited = gReq[q].invited /\ gReq'[q].heir = gReq[q].heir
            /\ gReq'[q].late <=> (gReq[q].late \/ {a, b} \subseteq gReq[q].invited \cup {gReq[q].actor})
    BY <1>1, <1>3, <1>5
<1>7. Groups!TypeOK'
    <2>1. gBlocked' \subseteq Member \X Member /\ gLoose' \subseteq Groups!Pair
        BY <1>1, <1>2, PairOfTwo DEF Groups!TypeOK
    <2> QED BY <1>1, <1>2, <1>6, <2>1 DEF Groups!TypeOK
<1>8. GroupHandlersKnow'
    <2>1. GroupHandlerKnows(gReq[p])'
        BY <1>4, <1>6 DEF GroupHandlerKnows, Naming, Holding
    <2>2. ASSUME NEW q \in Request \ {p} PROVE GroupHandlerKnows(gReq[q])'
        <3>1. GroupHandlerKnows(gReq[q])
            BY DEF GroupInv, GroupHandlersKnow
        <3>2. gReq[q].pc \in {"insert", "members"} =>
                 \A e \in gBlocked' : {e[1], e[2]} \subseteq gReq'[q].invited \cup {gReq'[q].actor}
                                     => gReq'[q].late
            BY <1>1, <1>6, <3>1 DEF GroupHandlerKnows
        <3>3. /\ gReq'[q].pc \in Naming => \E g \in Groups!Group : gReq'[q].groups = {g}
              /\ gReq'[q].pc \in {"lookup", "eligible", "pairs", "insert", "members"} => gReq'[q].actor \in Member
              /\ gReq'[q].pc \in {"lock", "read", "succession", "leave"} => gReq'[q].peer \in Member
              /\ gReq'[q].pc \in {"lock", "shared"} \cup Holding => gReq'[q].groups \subseteq made
              /\ gReq'[q].pc = "members" => gReq'[q].groups \cap made = {}
              /\ gReq'[q].pc \in {"blocked", "shared", "leaving", "onBlock"} =>
                    gReq'[q].actor \in Member /\ gReq'[q].peer \in Member /\ gReq'[q].actor # gReq'[q].peer
              /\ gReq'[q].pc \in {"lock", "read", "succession"} => gReq'[q].heir = Groups!Nobody
              /\ gReq'[q].pc = "succession" => \A g \in gReq'[q].groups : role[g][gReq'[q].peer] = "owner"
            BY <1>6, <3>1 DEF GroupHandlerKnows
        <3>4. gReq'[q].pc = "leave" =>
                \A g \in gReq'[q].groups :
                   \/ role[g][gReq'[q].peer] = "member" /\ gReq'[q].heir = Groups!Nobody
                   \/ role[g][gReq'[q].peer] = "owner" /\ gReq'[q].heir = Groups!Heir(g, gReq'[q].peer)
            BY <1>6, <3>1 DEF GroupHandlerKnows
        <3>5. ASSUME NEW g, NEW v PROVE Groups!Heir(g, v)' = Groups!Heir(g, v)
            <4>1. Groups!Active(g)' = Groups!Active(g) /\ Groups!Owners(g)' = Groups!Owners(g)
                BY <1>1 DEF Groups!Active, Groups!Owners
            <4>2. Groups!Heir(g, v)' = HeirOf(Groups!Active(g)', Groups!Owners(g)', v)
                BY DEF Groups!Heir, HeirOf
            <4>3. Groups!Heir(g, v) = HeirOf(Groups!Active(g), Groups!Owners(g), v)
                BY DEF Groups!Heir, HeirOf
            <4> QED BY <4>1, <4>2, <4>3
        <3>6. gReq'[q].pc = "leave" =>
                \A g \in gReq'[q].groups :
                   \/ role'[g][gReq'[q].peer] = "member" /\ gReq'[q].heir = Groups!Nobody
                   \/ role'[g][gReq'[q].peer] = "owner" /\ gReq'[q].heir = Groups!Heir(g, gReq[q].peer)'
            <4>1. gReq'[q].peer = gReq[q].peer
                BY <1>6
            <4> QED BY <1>1, <3>4, <3>5, <4>1
        <3> QED BY <1>1, <1>6, <3>2, <3>3, <3>6 DEF GroupHandlerKnows
    <2> QED BY <2>1, <2>2 DEF GroupHandlersKnow
<1>9. LocksApart' /\ MakersApart'
    BY <1>4, <1>6 DEF GroupInv, LocksApart, MakersApart, Holding
<1>10. OwnerIsOne' /\ OwnerIsThere' /\ BlocksAreOfTwo'
    BY <1>1 DEF GroupInv, OwnerIsOne, OwnerIsThere, BlocksAreOfTwo, Groups!Owners, Groups!Active
<1>11. BlocksLeave'
    <2> SUFFICES ASSUME NEW e \in gBlocked', {e[1], e[2]} \notin gLoose', NEW g \in made,
                        {e[1], e[2]} \subseteq Groups!Active(g)
                 PROVE  \E q \in Request : Sees(gReq'[q], e[1], e[2], g)
        <3>1. \A q \in Request : \A x, y, g : Sees(gReq[q], x, y, g)' <=> Sees(gReq'[q], x, y, g)
            BY DEF Sees
        <3>2. \A g : Groups!Active(g)' = Groups!Active(g)
            BY <1>1 DEF Groups!Active
        <3> QED BY <1>1, <3>1, <3>2 DEF BlocksLeave, Groups!Shared
    <2>1. e \in gBlocked /\ {e[1], e[2]} \notin gLoose /\ g \in Groups!Shared(e[1], e[2])
        BY <1>1 DEF Groups!Shared
    <2>2. PICK q \in Request : Sees(gReq[q], e[1], e[2], g)
        BY <2>1 DEF GroupInv, BlocksLeave
    <2>3. q # p
        BY <1>1, <2>2 DEF Sees
    <2> QED BY <1>6, <2>2, <2>3 DEF Sees
<1> QED BY <1>7, <1>8, <1>9, <1>10, <1>11 DEF GroupInv

\* The block goes through the groups that the two share.
LEMMA SharedKeeps ==
    ASSUME Groups!SoundConstants, GroupInv, NEW p \in Request,
           Groups!ReadShared(p) \/ Groups!LockShared(p) \/ Groups!LeaveShared(p) \/ Groups!OnBlock(p)
    PROVE  GroupInv'
<1> DEFINE a == gReq[p].actor
           b == gReq[p].peer
           G == Groups!Shared(a, b)
<1>1. /\ gReq[p].pc \in {"blocked", "shared", "leaving", "onBlock"} /\ gReq[p] \in Groups!Handler
      /\ Groups!TypeOK /\ GroupHandlerKnows(gReq[p]) /\ a \in Member /\ b \in Member /\ a # b
      /\ UNCHANGED <<gBlocked, made, gone, orphaned>>
    BY GroupHandlerIs DEF Groups!ReadShared, Groups!LockShared, Groups!LeaveShared,
        Groups!OnBlock, Groups!At, GroupHandlerKnows
<1>2. G \subseteq made /\ G \in SUBSET Groups!Group /\ gLoose \subseteq Groups!Pair
    BY <1>1 DEF Groups!Shared, Groups!TypeOK
<1>3. \A e \in gBlocked : {a, b} = {e[1], e[2]} => Groups!Shared(e[1], e[2]) = G
    BY SharedAlike
<1>4. CASE Groups!ReadShared(p)
    <2> DEFINE h == [gReq[p] EXCEPT !.pc = "shared", !.groups = G]
    <2>1. /\ gReq[p].pc = "blocked" /\ gLoose' = gLoose \ {{a, b}} /\ UNCHANGED <<gFriends, role>>
          /\ gReq' = [gReq EXCEPT ![p].pc = "shared", ![p].groups = G]
        BY <1>4 DEF Groups!ReadShared, Groups!At
    <2>2. gReq' = [gReq EXCEPT ![p] = h]
        BY <1>1, <2>1 DEF Groups!TypeOK
    <2> HIDE DEF G
    <2>3. h \in Groups!Handler
        BY <1>1, <1>2, Zenon DEF Groups!Handler
    <2>4. h.pc = "shared" /\ h.actor = a /\ h.peer = b /\ h.groups = G
        BY <1>1 DEF Groups!Handler
    <2> HIDE DEF h, a, b
    <2>5. GroupHandlerKnows(h)
        BY <1>1, <1>2, <2>4 DEF GroupHandlerKnows, Naming, Holding
    <2>6. \A e \in gBlocked : {e[1], e[2]} \notin gLoose' =>
               \A g \in Groups!Shared(e[1], e[2]) :
                   \/ Sees(h, e[1], e[2], g)
                   \/ {e[1], e[2]} \notin gLoose /\ ~Sees(gReq[p], e[1], e[2], g)
        BY <1>3, <2>1, <2>4 DEF Sees
    <2>7. gLoose' \subseteq Groups!Pair /\ gFriends' \subseteq gFriends
        BY <1>2, <2>1
    <2>8. h.pc \notin Holding /\ h.pc # "members"
        BY <2>4 DEF Holding
    <2> QED BY <1>1, <2>1, <2>2, <2>3, <2>5, <2>6, <2>7, <2>8, GroupHandlerMoves
<1>5. CASE Groups!LockShared(p)
    <2> DEFINE S == gReq[p].groups \cap G
               h == [gReq[p] EXCEPT !.pc = "leaving", !.groups = S]
    <2>1. /\ gReq[p].pc = "shared" /\ UNCHANGED <<gFriends, role, gLoose>>
          /\ \A g \in gReq[p].groups : Groups!Free(p, g)
          /\ gReq' = [gReq EXCEPT ![p].pc = "leaving", ![p].groups = S]
        BY <1>5 DEF Groups!LockShared, Groups!At
    <2>2. gReq' = [gReq EXCEPT ![p] = h]
        BY <1>1, <2>1 DEF Groups!TypeOK
    <2>3. S \in SUBSET Groups!Group /\ S \subseteq made /\ S \subseteq gReq[p].groups /\ S \subseteq G
        BY <1>2
    <2>4. \A g \in G : g \in gReq[p].groups => g \in S
        OBVIOUS
    <2> HIDE DEF S, G
    <2>5. h \in Groups!Handler
        BY <1>1, <2>3, Zenon DEF Groups!Handler
    <2>6. h.pc = "leaving" /\ h.actor = a /\ h.peer = b /\ h.groups = S
        BY <1>1 DEF Groups!Handler
    <2> HIDE DEF h, a, b
    <2>7. GroupHandlerKnows(h)
        BY <1>1, <2>3, <2>6 DEF GroupHandlerKnows, Naming, Holding
    <2>8. \A e \in gBlocked : {e[1], e[2]} \notin gLoose' =>
               \A g \in Groups!Shared(e[1], e[2]) :
                   \/ Sees(h, e[1], e[2], g)
                   \/ {e[1], e[2]} \notin gLoose /\ ~Sees(gReq[p], e[1], e[2], g)
        <3> SUFFICES ASSUME NEW e \in gBlocked, NEW g \in Groups!Shared(e[1], e[2]), Sees(gReq[p], e[1], e[2], g)
                     PROVE  Sees(h, e[1], e[2], g)
            BY <2>1
        <3>1. {a, b} = {e[1], e[2]} /\ g \in gReq[p].groups
            BY DEF Sees, a, b
        <3>2. g \in S
            BY <1>3, <2>4, <3>1
        <3> QED BY <2>6, <3>1, <3>2 DEF Sees
    <2>9. \A q \in Request \ {p} : gReq[q].pc \in Holding => h.groups \cap gReq[q].groups = {}
        BY <2>1, <2>3, <2>6 DEF Groups!Free, Holding
    <2>10. gLoose' \subseteq Groups!Pair /\ gFriends' \subseteq gFriends /\ h.pc # "members"
        BY <1>2, <2>1, <2>6
    <2> QED BY <1>1, <2>1, <2>2, <2>5, <2>7, <2>8, <2>9, <2>10, GroupHandlerMoves
<1>6. CASE Groups!LeaveShared(p)
    <2> DEFINE h == [gReq[p] EXCEPT !.pc = "onBlock", !.groups = {}]
    <2>1. /\ gReq[p].pc = "leaving" /\ UNCHANGED <<gFriends, gLoose>>
          /\ gReq' = [gReq EXCEPT ![p].pc = "onBlock", ![p].groups = {}]
          /\ role' = [g \in Groups!Group |->
                        IF g \in gReq[p].groups
                        THEN Groups!After(role[g], a, IF role[g][a] = "owner" THEN Groups!Heir(g, a) ELSE Groups!Nobody)
                        ELSE role[g]]
        BY <1>6 DEF Groups!LeaveShared, Groups!At
    <2>2. gReq' = [gReq EXCEPT ![p] = h]
        BY <1>1, <2>1 DEF Groups!TypeOK
    <2>3. h \in Groups!Handler
        BY <1>1, Zenon DEF Groups!Handler
    <2>4. h.pc = "onBlock" /\ h.actor = a /\ h.peer = b
        BY <1>1 DEF Groups!Handler
    <2> HIDE DEF h
    <2>5. GroupHandlerKnows(h)
        BY <1>1, <2>4 DEF GroupHandlerKnows, Naming, Holding
    <2> QED BY <1>1, <2>1, <2>2, <2>3, <2>4, <2>5, GroupsLeft
<1>7. CASE Groups!OnBlock(p)
    <2>1. /\ gReq[p].pc = "onBlock" /\ gFriends' \subseteq gFriends /\ Groups!Answer(p) /\ UNCHANGED <<role, gLoose>>
        BY <1>7 DEF Groups!OnBlock, Groups!At
    <2> QED BY <1>1, <2>1, GroupAnswerKeeps
<1> QED BY <1>4, <1>5, <1>6, <1>7

\* A failure leaves the groups as they are, and a block that was cut off on record.
LEMMA GroupFailKeeps ==
    ASSUME Groups!SoundConstants, GroupInv, NEW p \in Request, Groups!Fail(p)
    PROVE  GroupInv'
<1> DEFINE pair == {gReq[p].actor, gReq[p].peer}
<1>1. /\ gReq' = [gReq EXCEPT ![p] = Groups!Tidy] /\ UNCHANGED <<gFriends, gBlocked, role, made, gone, orphaned>>
      /\ gLoose' = IF gReq[p].pc \in {"shared", "leaving"} THEN gLoose \cup {pair} ELSE gLoose
    BY DEF Groups!Fail, Groups!Answer
<1>2. gLoose \subseteq Groups!Pair /\ (gReq[p].pc \in {"shared", "leaving"} => pair \in Groups!Pair)
    BY GroupHandlerIs, PairOfTwo DEF GroupHandlerKnows, Groups!TypeOK
<1>3. \A e \in gBlocked : {e[1], e[2]} \notin gLoose' =>
          \A g \in Groups!Shared(e[1], e[2]) :
              \/ Sees(Groups!Tidy, e[1], e[2], g)
              \/ {e[1], e[2]} \notin gLoose /\ ~Sees(gReq[p], e[1], e[2], g)
    BY <1>1 DEF Sees
<1> HIDE DEF pair
<1>4. gLoose' \subseteq Groups!Pair
    BY <1>1, <1>2
<1> QED BY <1>1, <1>3, <1>4, GroupTidyHandler, GroupHandlerMoves DEF Holding

\* A block is lifted, which puts nobody back.
LEMMA UnblockKeeps ==
    ASSUME Groups!SoundConstants, GroupInv, NEW a, NEW b, Groups!Unblock(a, b)
    PROVE  GroupInv'
<1>1. gBlocked' \subseteq gBlocked /\ UNCHANGED <<gFriends, role, made, gone, orphaned, gLoose, gReq>>
    BY DEF Groups!Unblock
<1>2. Groups!TypeOK'
    BY <1>1 DEF GroupInv, Groups!TypeOK
<1>3. GroupHandlersKnow'
    <2>1. ASSUME NEW q \in Request PROVE GroupHandlerKnows(gReq[q])'
        <3>1. GroupHandlerKnows(gReq[q])
            BY DEF GroupInv, GroupHandlersKnow
        <3> QED BY <1>1, <3>1 DEF GroupHandlerKnows, Groups!Heir, Groups!Active, Groups!Owners
    <2> QED BY <2>1 DEF GroupHandlersKnow
<1>4. LocksApart' /\ MakersApart' /\ OwnerIsOne' /\ OwnerIsThere' /\ BlocksAreOfTwo'
    BY <1>1 DEF GroupInv, LocksApart, MakersApart, OwnerIsOne, OwnerIsThere, BlocksAreOfTwo,
        Groups!Owners,
                Groups!Active
<1>5. BlocksLeave'
    <2>1. \A e : Groups!Shared(e[1], e[2])' = Groups!Shared(e[1], e[2])
        BY <1>1 DEF Groups!Shared, Groups!Active
    <2>2. \A q \in Request : \A x, y, g : Sees(gReq[q], x, y, g)' <=> Sees(gReq[q], x, y, g)
        BY <1>1 DEF Sees
    <2> QED BY <1>1, <2>1, <2>2 DEF GroupInv, BlocksLeave
<1> QED BY <1>2, <1>3, <1>4, <1>5 DEF GroupInv

\* An account is deleted when no handler holds a group: the group has lost its
\* owner if it was theirs.
LEMMA DeleteKeeps ==
    ASSUME Groups!SoundConstants, GroupInv, NEW u \in Member, Groups!DeleteAccount(u)
    PROVE  GroupInv'
<1>1. /\ \A g \in made : Groups!Free(Groups!Nobody, g)
      /\ role' = [g \in Groups!Group |-> [role[g] EXCEPT ![u] = "none"]]
      /\ orphaned' = orphaned \cup {g \in made : role[g][u] = "owner"}
      /\ gFriends' \subseteq gFriends /\ gBlocked' \subseteq gBlocked /\ gone' = gone \cup {u}
      /\ UNCHANGED <<made, gLoose, gReq>>
    BY DEF Groups!DeleteAccount
<1>2. Groups!TypeOK /\ made \subseteq Groups!Group
    BY DEF GroupInv, Groups!TypeOK
<1>3. \A g \in Groups!Group : /\ role'[g] \in [Member -> Groups!Role] /\ role'[g][u] = "none"
                              /\ \A v \in Member \ {u} : role'[g][v] = role[g][v]
    BY <1>1, <1>2 DEF Groups!TypeOK, Groups!Role
<1>4. Groups!TypeOK'
    <2>1. role' \in [Groups!Group -> [Member -> Groups!Role]]
        BY <1>1, <1>3
    <2>2. \A g \in Groups!Group : (\E v \in Member : role'[g][v] # "none") => g \in made
        BY <1>2, <1>3 DEF Groups!TypeOK
    <2> QED BY <1>1, <1>2, <2>1, <2>2 DEF Groups!TypeOK
<1>5. GroupHandlersKnow'
    <2>1. ASSUME NEW q \in Request PROVE GroupHandlerKnows(gReq[q])'
        <3>1. GroupHandlerKnows(gReq[q])
            BY DEF GroupInv, GroupHandlersKnow
        <3>2. gReq[q].pc \notin {"succession", "leave"}
            <4> SUFFICES ASSUME gReq[q].pc \in {"succession", "leave"} PROVE FALSE
                OBVIOUS
            <4>1. PICK g \in Groups!Group : gReq[q].groups = {g}
                BY <3>1 DEF GroupHandlerKnows, Naming
            <4>2. g \in made
                BY <3>1, <4>1 DEF GroupHandlerKnows, Holding
            <4>3. q # Groups!Nobody
                BY DEF Groups!SoundConstants
            <4> QED BY <1>1, <4>1, <4>2, <4>3 DEF Groups!Free
        <3> QED BY <1>1, <3>1, <3>2 DEF GroupHandlerKnows
    <2> QED BY <2>1 DEF GroupHandlersKnow
<1>6. LocksApart' /\ MakersApart' /\ BlocksAreOfTwo'
    BY <1>1 DEF GroupInv, LocksApart, MakersApart, BlocksAreOfTwo
<1>7. OwnerIsOne'
    BY <1>3 DEF GroupInv, OwnerIsOne, Groups!Owners
<1>8. OwnerIsThere'
    <2> SUFFICES ASSUME NEW g \in made, Groups!Active(g)' # {}, g \notin orphaned' PROVE Groups!Owners(g)' # {}
        BY <1>1 DEF OwnerIsThere
    <2>1. g \notin orphaned /\ role[g][u] # "owner" /\ g \in Groups!Group
        BY <1>1, <1>2
    <2>2. PICK v \in Member : role'[g][v] \in {"owner", "member"}
        BY DEF Groups!Active
    <2>3. role[g][v] \in {"owner", "member"}
        BY <1>3, <2>1, <2>2
    <2>4. PICK w \in Member : role[g][w] = "owner"
        BY <2>1, <2>3 DEF GroupInv, OwnerIsThere, Groups!Active, Groups!Owners
    <2> QED BY <1>3, <2>1, <2>4 DEF Groups!Owners
<1>9. BlocksLeave'
    <2> SUFFICES ASSUME NEW e \in gBlocked, {e[1], e[2]} \notin gLoose, NEW g \in made,
                        {e[1], e[2]} \subseteq Groups!Active(g)'
                 PROVE  \E q \in Request : Sees(gReq[q], e[1], e[2], g)
        <3>1. \A q \in Request : \A x, y, g : Sees(gReq[q], x, y, g)' <=> Sees(gReq[q], x, y, g)
            BY <1>1 DEF Sees
        <3> QED BY <1>1, <3>1 DEF BlocksLeave, Groups!Shared
    <2>1. g \in Groups!Shared(e[1], e[2])
        BY <1>2, <1>3 DEF Groups!Shared, Groups!Active
    <2> QED BY <2>1 DEF GroupInv, BlocksLeave
<1> QED BY <1>4, <1>5, <1>6, <1>7, <1>8, <1>9 DEF GroupInv

\* Every step keeps the invariant.
LEMMA NextGroups ==
    ASSUME Groups!SoundConstants, GroupInv, [Groups!Next]_Groups!vars
    PROVE  GroupInv'
<1>1. CASE UNCHANGED Groups!vars
    <2>1. UNCHANGED <<gFriends, gBlocked, role, made, gone, orphaned, gLoose, gReq>>
        BY <1>1 DEF Groups!vars
    <2>2. Groups!TypeOK' /\ LocksApart' /\ MakersApart' /\ OwnerIsOne' /\ OwnerIsThere' /\ BlocksAreOfTwo'
        BY <2>1 DEF GroupInv, Groups!TypeOK, LocksApart, MakersApart, OwnerIsOne, OwnerIsThere,
            BlocksAreOfTwo,
                    Groups!Owners, Groups!Active
    <2>3. GroupHandlersKnow'
        BY <2>1 DEF GroupInv, GroupHandlersKnow, GroupHandlerKnows, Groups!Heir, Groups!Active,
            Groups!Owners
    <2>4. BlocksLeave'
        <3>1. \A e : Groups!Shared(e[1], e[2])' = Groups!Shared(e[1], e[2])
            BY <2>1 DEF Groups!Shared, Groups!Active
        <3>2. \A q \in Request : \A x, y, g : Sees(gReq[q], x, y, g)' <=> Sees(gReq[q], x, y, g)
            BY <2>1 DEF Sees
        <3> QED BY <2>1, <3>1, <3>2 DEF GroupInv, BlocksLeave
    <2> QED BY <2>2, <2>3, <2>4 DEF GroupInv
<1>2. ASSUME NEW p \in Request, NEW g \in Groups!Group,
             \/ \E S \in SUBSET Member : Groups!Create(p, g, S)
             \/ \E a, u \in Member : Groups!RemoveMember(p, a, g, u)
      PROVE  GroupInv'
    BY <1>2, GroupBeginKeeps
<1>3. ASSUME NEW p \in Request, NEW e \in Quarrel, Groups!Block(p, e[1], e[2]) PROVE GroupInv'
    <2>1. e[1] \in Member /\ e[2] \in Member /\ e[1] # e[2]
        BY DEF Groups!SoundConstants
    <2> QED BY <1>3, <2>1, BlockKeeps
<1>4. ASSUME NEW p \in Request, Groups!Lookup(p) \/ Groups!CheckInvitees(p) \/ Groups!CheckPairs(p) \/ Groups!InsertGroup(p)
      PROVE  GroupInv'
    BY <1>4, CheckKeeps
<1>5. ASSUME NEW p \in Request, Groups!CreateCommit(p) PROVE GroupInv'
    BY <1>5, CreateKeeps
<1>6. ASSUME NEW p \in Request, Groups!LockGroup(p) \/ Groups!ReadMembers(p) \/ Groups!ChooseHeir(p) \/ Groups!LeaveCommit(p)
      PROVE  GroupInv'
    BY <1>6, LeaveKeeps
<1>7. ASSUME NEW p \in Request, Groups!ReadShared(p) \/ Groups!LockShared(p) \/ Groups!LeaveShared(p) \/ Groups!OnBlock(p)
      PROVE  GroupInv'
    BY <1>7, SharedKeeps
<1>8. ASSUME NEW p \in Request, Groups!Fail(p) PROVE GroupInv'
    BY <1>8, GroupFailKeeps
<1>9. ASSUME NEW u \in Leaver, Groups!DeleteAccount(u) PROVE GroupInv'
    <2>1. u \in Member
        BY DEF Groups!SoundConstants
    <2> QED BY <1>9, <2>1, DeleteKeeps
<1>10. ASSUME NEW e \in Quarrel, Groups!Unblock(e[1], e[2]) PROVE GroupInv'
    BY <1>10, UnblockKeeps
<1> QED BY <1>1, <1>2, <1>3, <1>4, <1>5, <1>6, <1>7, <1>8, <1>9, <1>10 DEF Groups!Next

\* A group has at most one owner, and a blocked pair shares none.
LEMMA GroupsDecide == ASSUME GroupInv PROVE Groups!TypeOK /\ Groups!GroupsAreKept
<1>1. ASSUME NEW g \in made PROVE Groups!Cardinality(Groups!Owners(g)) <= 1
    <2>1. g \in Groups!Group
        BY DEF GroupInv, Groups!TypeOK
    <2>2. CASE Groups!Owners(g) = {}
        <3>1. Groups!Cardinality(Groups!Owners(g)) = 0
            BY <2>2, FS_EmptySet, GroupCountsAlike
        <3> QED BY <3>1
    <2>3. CASE Groups!Owners(g) # {}
        <3>1. PICK u \in Groups!Owners(g) : TRUE
            BY <2>3
        <3>2. Groups!Owners(g) = {u}
            BY <2>1, <3>1 DEF GroupInv, OwnerIsOne
        <3>3. Groups!Cardinality(Groups!Owners(g)) = 1
            BY <3>2, FS_Singleton, GroupCountsAlike
        <3> QED BY <3>3
    <2> QED BY <2>2, <2>3
<1>2. Groups!OneOwner
    BY <1>1 DEF Groups!OneOwner, GroupInv, OwnerIsThere
<1>3. Groups!BlockedNotTogether
    <2> SUFFICES ASSUME NEW e \in gBlocked, {e[1], e[2]} \notin gLoose,
                        \A p \in Request : {gReq[p].actor, gReq[p].peer} = {e[1], e[2]}
                           => gReq[p].pc \notin {"blocked", "shared", "leaving"},
                        NEW g \in Groups!Shared(e[1], e[2])
                 PROVE  FALSE
        BY DEF Groups!BlockedNotTogether
    <2>1. PICK p \in Request : Sees(gReq[p], e[1], e[2], g)
        BY DEF GroupInv, BlocksLeave
    <2> QED BY <2>1 DEF Sees
<1> QED BY <1>2, <1>3 DEF GroupInv, Groups!GroupsAreKept

\* No step makes a member of somebody who left.
LEMMA NobodyReturns ==
    ASSUME Groups!SoundConstants, GroupInv, [Groups!Next]_Groups!vars, NEW g \in made, NEW u \in Member,
           role[g][u] = "left"
    PROVE  role'[g][u] \in {"left", "none"}
<1>1. g \in Groups!Group /\ role \in [Groups!Group -> [Member -> Groups!Role]]
    BY DEF GroupInv, Groups!TypeOK
<1>2. CASE UNCHANGED role
    BY <1>2
<1>3. ASSUME NEW p \in Request, Groups!CreateCommit(p)
      PROVE  role'[g][u] \in {"left", "none"}
    <2>1. Groups!Its(p) \in Groups!Group /\ Groups!Its(p) \notin made
        BY <1>3, ItsGroup, GroupHandlerIs DEF Groups!CreateCommit, Groups!At, Naming,
            GroupHandlerKnows
    <2>2. role'[g] = role[g]
        BY <1>1, <1>3, <2>1 DEF Groups!CreateCommit
    <2> QED BY <2>2
<1>4. ASSUME NEW S, NEW v \in Member,
             role' = [x \in Groups!Group |->
                        IF x \in S
                        THEN Groups!After(role[x], v, IF role[x][v] = "owner" THEN Groups!Heir(x, v) ELSE Groups!Nobody)
                        ELSE role[x]]
      PROVE  role'[g][u] \in {"left", "none"}
    <2> DEFINE h == IF role[g][v] = "owner" THEN Groups!Heir(g, v) ELSE Groups!Nobody
               s == Groups!After(role[g], v, h)
    <2>1. role'[g] = s \/ role'[g] = role[g]
        BY <1>1, <1>4
    <2>2. h = IF role[g][v] = "owner" THEN Groups!Heir(g, v) ELSE Groups!Nobody
        OBVIOUS
    <2> HIDE DEF h
    <2>3. s = Groups!After(role[g], v, h)
        OBVIOUS
    <2> HIDE DEF s
    <2>4. s[u] = role[g][u]
        BY <1>1, <2>2, <2>3, AfterIs
    <2> QED BY <2>1, <2>4
<1>5. ASSUME NEW p \in Request, Groups!LeaveCommit(p)
      PROVE  role'[g][u] \in {"left", "none"}
    BY <1>4, <1>5, LeaveCommitIs
<1>6. ASSUME NEW p \in Request, Groups!LeaveShared(p)
      PROVE  role'[g][u] \in {"left", "none"}
    <2>1. gReq[p].actor \in Member
        BY <1>6, GroupHandlerIs DEF Groups!LeaveShared, Groups!At, GroupHandlerKnows
    <2>2. role' = [x \in Groups!Group |->
                     IF x \in gReq[p].groups
                     THEN Groups!After(role[x], gReq[p].actor,
                                IF role[x][gReq[p].actor] = "owner" THEN Groups!Heir(x, gReq[p].actor) ELSE Groups!Nobody)
                     ELSE role[x]]
        BY <1>6 DEF Groups!LeaveShared
    <2> QED BY <1>4, <2>1, <2>2
<1>7. ASSUME NEW v \in Member, Groups!DeleteAccount(v)
      PROVE  role'[g][u] \in {"left", "none"}
    BY <1>1, <1>7 DEF Groups!DeleteAccount
<1>8. \/ UNCHANGED role
      \/ \E p \in Request : Groups!CreateCommit(p) \/ Groups!LeaveCommit(p) \/ Groups!LeaveShared(p)
      \/ \E v \in Member : Groups!DeleteAccount(v)
    BY DEF Groups!Next, Groups!vars, Groups!Create, Groups!RemoveMember, Groups!Block,
        Groups!Lookup, Groups!CheckInvitees, Groups!CheckPairs, Groups!InsertGroup,
           Groups!LockGroup, Groups!ReadMembers, Groups!ChooseHeir, Groups!ReadShared, Groups!LockShared, Groups!OnBlock, Groups!Fail, Groups!Unblock,
           Groups!SoundConstants
<1> QED BY <1>2, <1>3, <1>5, <1>6, <1>7, <1>8

-----------------------------------------------------------------------------
(* The verification ladder *)

\* What a handler under way knows.  A decision it is about to push or to answer
\* with is on its submission, and is pushed by it alone.  When the driver answers
\* with a tuple, it may also have matched no submission.
HandlerKnows(h) ==
    /\ h.pc # "idle" => h.user \in User
    /\ h.pc = "phone" => h.phone \in Phone
    /\ h.pc \in {"told", "reread", "answer"} => h.decision \in Ladder!Decision
    /\ h.pc = "reread" => Ladder!Of(h.user) # {}
    /\ h.pc \in {"told", "answer"} =>
          \/ h.sub \in Ladder!Submission /\ sub[h.sub].state = h.decision
          \/ h.sub = Ladder!NoSubmission /\ Shape = "tuple"
    /\ h.pc = "told" /\ h.sub \in Ladder!Submission => vTold[h.sub] = 0
HandlersKnow == \A p \in Request : HandlerKnows(vReq[p])
TellsAlone ==
    \A p, q \in Request :
        /\ vReq[p].pc = "told" /\ vReq[q].pc = "told"
        /\ vReq[p].sub = vReq[q].sub /\ vReq[p].sub \in Ladder!Submission
        => p = q

\* Submissions are stored in order, and the one that is pending is the user's last.
StoredInOrder ==
    \A s, t \in Ladder!Submission : sub[s].owner # NoUser /\ t < s => sub[t].owner # NoUser
PendingIsLast ==
    \A s, t \in Ladder!Submission :
        sub[s].state = "pending" /\ sub[t].owner = sub[s].owner => t <= s
ToldWhenDecided ==
    \A s \in Ladder!Submission : /\ vTold[s] <= 1
                                 /\ sub[s].state \in {"unused", "pending"} => vTold[s] = 0

LadderInv ==
    /\ Ladder!TypeOK /\ HandlersKnow /\ TellsAlone /\ StoredInOrder /\ PendingIsLast
    /\ ToldWhenDecided
    /\ Shape = "rows" => Ladder!StatusIsLatest

\* A set of submissions that is not empty has a last one, and that is its Latest.
LEMMA LastExists ==
    ASSUME NEW S, S \subseteq Ladder!Submission, S # {}, MaxSubmissions \in Nat
    PROVE  \E s \in S : \A t \in S : t <= s
<1> DEFINE Before == {p \in Nat \X Nat : p[1] < p[2]}
           Distance == {MaxSubmissions - s : s \in S}
<1>1. IsWellFoundedOn(Before, Nat)
    BY NatLessThanWellFounded DEF OpToRel
<1>2. Distance \subseteq Nat /\ Distance # {}
    <2>1. \A s \in S : MaxSubmissions - s \in Nat
        BY DEF Ladder!Submission
    <2>2. PICK s \in S : TRUE
        OBVIOUS
    <2>3. MaxSubmissions - s \in Distance
        OBVIOUS
    <2> QED BY <2>1, <2>3
<1>3. PICK n \in Distance : \A m \in Distance : <<m, n>> \notin Before
    BY <1>1, <1>2, WFMin
<1>4. \A m \in Distance : ~(m < n)
    BY <1>2, <1>3
<1>5. PICK s \in S : n = MaxSubmissions - s
    OBVIOUS
<1>6. ASSUME NEW t \in S PROVE t <= s
    <2>1. MaxSubmissions - t \in Distance
        OBVIOUS
    <2>2. ~(MaxSubmissions - t < MaxSubmissions - s)
        BY <1>4, <1>5, <2>1
    <2>3. s \in Nat /\ t \in Nat
        BY DEF Ladder!Submission
    <2> QED BY <2>2, <2>3
<1> QED BY <1>6

LEMMA LatestIsLast ==
    ASSUME NEW S, S \subseteq Ladder!Submission, NEW s \in S, \A t \in S : t <= s
    PROVE  Ladder!Latest(S) = s
<1>1. Ladder!Latest(S) \in S /\ \A t \in S : t <= Ladder!Latest(S)
    BY DEF Ladder!Latest
<1>2. \A t \in S : t \in Int
    BY DEF Ladder!Submission
<1> QED BY <1>1, <1>2

LEMMA LatestKnown ==
    ASSUME NEW S, S \subseteq Ladder!Submission, S # {}, MaxSubmissions \in Nat
    PROVE  Ladder!Latest(S) \in S /\ \A t \in S : t <= Ladder!Latest(S)
BY LastExists, LatestIsLast

LEMMA NoneIsNoSubmission == Ladder!NoSubmission \notin Ladder!Submission
BY DEF Ladder!NoSubmission, Ladder!Submission

LEMMA NoneIsLatest == Ladder!Latest({}) = Ladder!NoSubmission
BY DEF Ladder!Latest

LEMMA TidyHandler == Ladder!Tidy \in Ladder!Handler /\ Ladder!Tidy.pc = "idle" /\ HandlerKnows(Ladder!Tidy)
BY DEF Ladder!Tidy, Ladder!Handler, HandlerKnows, Ladder!NoSubmission

\* The ladder before anybody has climbed it.
LEMMA InitLadder == ASSUME Ladder!SoundConstants PROVE Ladder!Init => LadderInv
<1> SUFFICES ASSUME Ladder!Init PROVE LadderInv
    OBVIOUS
<1>1. /\ \A s \in Ladder!Submission : sub[s].owner = NoUser /\ sub[s].state = "unused" /\ vTold[s] = 0
      /\ \A u \in User : user[u].level = "none" /\ user[u].status = "none" /\ user[u] \in Ladder!Account
      /\ \A p \in Request : vReq[p] = Ladder!Tidy
    BY DEF Ladder!Init, Ladder!Account
<1>2. \A u \in User : Ladder!Of(u) = {}
    BY <1>1 DEF Ladder!Of, Ladder!SoundConstants
<1>3. Ladder!TypeOK
    <2>1. user \in [User -> Ladder!Account] /\ vReq \in [Request -> Ladder!Handler]
        BY <1>1, TidyHandler DEF Ladder!Init
    <2>2. sub \in [Ladder!Submission -> Ladder!Row] /\ vTold \in [Ladder!Submission -> 0..2]
        BY DEF Ladder!Init, Ladder!Row
    <2> QED BY <1>1, <2>1, <2>2, TidyHandler DEF Ladder!TypeOK, Ladder!SoundConstants
<1>4. HandlersKnow /\ TellsAlone
    BY <1>1, TidyHandler DEF HandlersKnow, TellsAlone
<1>5. StoredInOrder /\ PendingIsLast /\ ToldWhenDecided
    BY <1>1 DEF StoredInOrder, PendingIsLast, ToldWhenDecided
<1>6. Ladder!StatusIsLatest
    BY <1>1, <1>2, NoneIsLatest DEF Ladder!StatusIsLatest
<1> QED BY <1>3, <1>4, <1>5, <1>6 DEF LadderInv

\* What a handler holds.
LEMMA HandlerIs ==
    ASSUME LadderInv, NEW p \in Request
    PROVE  Ladder!TypeOK /\ vReq[p] \in Ladder!Handler /\ HandlerKnows(vReq[p])
BY DEF LadderInv, Ladder!TypeOK, HandlersKnow

\* A handler goes on, and nothing but its locals changes.
LEMMA HandlerMoves ==
    ASSUME LadderInv, NEW p \in Request, NEW h \in Ladder!Handler, HandlerKnows(h), h.pc # "told",
           vReq' = [vReq EXCEPT ![p] = h], UNCHANGED <<user, sub, vTold>>
    PROVE  LadderInv'
<1>1. /\ vReq' \in [Request -> Ladder!Handler] /\ vReq'[p] = h
      /\ \A q \in Request \ {p} : vReq'[q] = vReq[q]
    BY DEF LadderInv, Ladder!TypeOK
<1>2. Ladder!TypeOK'
    BY <1>1 DEF LadderInv, Ladder!TypeOK, HandlerKnows
<1>3. HandlersKnow'
    BY <1>1 DEF LadderInv, HandlersKnow, HandlerKnows, Ladder!Of
<1>4. TellsAlone'
    BY <1>1 DEF LadderInv, TellsAlone
<1>5. StoredInOrder' /\ PendingIsLast' /\ ToldWhenDecided'
    BY DEF LadderInv, StoredInOrder, PendingIsLast, ToldWhenDecided
<1>6. Ladder!StatusIsLatest' <=> Ladder!StatusIsLatest
    BY DEF Ladder!StatusIsLatest, Ladder!Latest, Ladder!Of
<1>7. Shape = "rows" => Ladder!StatusIsLatest'
    BY <1>6 DEF LadderInv
<1> QED BY <1>2, <1>3, <1>4, <1>5, <1>7 DEF LadderInv

LEMMA AnswerKeeps ==
    ASSUME LadderInv, NEW p \in Request, Ladder!Answer(p), UNCHANGED <<user, sub, vTold>>
    PROVE  LadderInv'
BY TidyHandler, HandlerMoves DEF Ladder!Answer, Ladder!Become

\* A check or a submission begins; a retried decision is looked up and answered.
LEMMA LocalKeeps ==
    ASSUME Ladder!SoundConstants, LadderInv, NEW p \in Request,
           \/ \E u \in User : Ladder!CheckEmail(p, u) \/ Ladder!Submit(p, u) \/ \E n \in Phone : Ladder!CheckPhone(p, u, n)
           \/ Ladder!Reread(p) \/ Ladder!Return(p) \/ Ladder!Fail(p)
    PROVE  LadderInv'
<1>1. CASE Ladder!Return(p) \/ Ladder!Fail(p)
    BY <1>1, AnswerKeeps DEF Ladder!Return, Ladder!Fail
<1>2. CASE Ladder!Reread(p)
    <2> DEFINE u == vReq[p].user
               s == Ladder!Latest(Ladder!Of(u))
    <2>1. vReq[p].pc = "reread" /\ UNCHANGED <<user, sub, vTold>>
        BY <1>2 DEF Ladder!Reread
    <2>2. vReq[p].decision \in Ladder!Decision /\ Ladder!Of(u) # {} /\ Ladder!Of(u) \subseteq Ladder!Submission /\ u \in User
        BY <2>1, HandlerIs DEF HandlerKnows, Ladder!Of
    <2>3. s \in Ladder!Submission
        BY <2>2, LatestKnown DEF Ladder!SoundConstants
    <2>4. CASE Ladder!Answer(p)
        BY <2>1, <2>4, AnswerKeeps
    <2>5. CASE /\ sub[s].state = vReq[p].decision
               /\ vReq' = [vReq EXCEPT ![p].pc = Ladder!RetryAnswers, ![p].sub = s]
        <3> DEFINE h == [vReq[p] EXCEPT !.pc = "answer", !.sub = s]
        <3>1. vReq[p] \in Ladder!Handler /\ vReq \in [Request -> Ladder!Handler]
            BY HandlerIs DEF Ladder!TypeOK
        <3>2. h \in Ladder!Handler
            BY <2>3, <3>1 DEF Ladder!Handler
        <3>3. /\ h.pc = "answer" /\ h.sub = s /\ h.decision = vReq[p].decision
              /\ h.user = vReq[p].user
            BY <3>1 DEF Ladder!Handler
        <3>4. vReq' = [vReq EXCEPT ![p] = h]
            BY <2>5, <3>1 DEF Ladder!RetryAnswers
        <3> HIDE DEF h
        <3>5. HandlerKnows(h)
            BY <2>2, <2>3, <2>5, <3>3 DEF HandlerKnows
        <3> QED BY <2>1, <3>2, <3>3, <3>4, <3>5, HandlerMoves
    <2> QED BY <1>2, <2>4, <2>5 DEF Ladder!Reread
<1>3. CASE \E u \in User : Ladder!CheckEmail(p, u) \/ Ladder!Submit(p, u) \/ \E n \in Phone : Ladder!CheckPhone(p, u, n)
    <2>1. PICK u \in User : Ladder!CheckEmail(p, u) \/ Ladder!Submit(p, u) \/ \E n \in Phone : Ladder!CheckPhone(p, u, n)
        BY <1>3
    <2>2. UNCHANGED <<user, sub, vTold>>
        BY <2>1 DEF Ladder!CheckEmail, Ladder!Submit, Ladder!CheckPhone
    <2>3. \E h \in Ladder!Handler : /\ vReq' = [vReq EXCEPT ![p] = h] /\ h.pc # "told"
                                    /\ HandlerKnows(h)
        <3>1. CASE Ladder!CheckEmail(p, u) \/ Ladder!Submit(p, u)
            <4>1. PICK pc \in {"email", "upload"} :
                     vReq' = [vReq EXCEPT ![p] = [Ladder!Tidy EXCEPT !.pc = pc, !.user = u]]
                BY <3>1 DEF Ladder!CheckEmail, Ladder!Submit, Ladder!Become
            <4> DEFINE h == [Ladder!Tidy EXCEPT !.pc = pc, !.user = u]
            <4>2. h \in Ladder!Handler /\ h.pc = pc /\ h.user = u
                BY TidyHandler DEF Ladder!Handler
            <4> QED BY <4>1, <4>2 DEF HandlerKnows
        <3>2. CASE \E n \in Phone : Ladder!CheckPhone(p, u, n)
            <4>1. PICK n \in Phone :
                     vReq' = [vReq EXCEPT ![p] = [Ladder!Tidy EXCEPT !.pc = "phone", !.user = u, !.phone = n]]
                BY <3>2 DEF Ladder!CheckPhone, Ladder!Become
            <4> DEFINE h == [Ladder!Tidy EXCEPT !.pc = "phone", !.user = u, !.phone = n]
            <4>2. h \in Ladder!Handler /\ h.pc = "phone" /\ h.user = u /\ h.phone = n
                BY TidyHandler DEF Ladder!Handler
            <4> QED BY <4>1, <4>2 DEF HandlerKnows
        <3> QED BY <2>1, <3>1, <3>2
    <2> QED BY <2>2, <2>3, HandlerMoves
<1> QED BY <1>1, <1>2, <1>3

\* A confirmed code writes a rung, with what the rung stands for.
LEMMA RungKeeps ==
    ASSUME Ladder!SoundConstants, LadderInv, NEW p \in Request, Ladder!EmailWrite(p) \/ Ladder!PhoneWrite(p)
    PROVE  LadderInv'
<1> DEFINE u == vReq[p].user
<1>1. u \in User /\ user[u] \in Ladder!Account /\ UNCHANGED <<sub, vTold>>
    BY HandlerIs DEF Ladder!EmailWrite, Ladder!PhoneWrite, HandlerKnows, Ladder!TypeOK
<1>2. CASE UNCHANGED user
    BY <1>1, <1>2, AnswerKeeps DEF Ladder!EmailWrite, Ladder!PhoneWrite
<1>3. CASE ~UNCHANGED user
    <2>1. /\ user' \in [User -> Ladder!Account]
          /\ \A v \in User \ {u} : user'[v] = user[v]
          /\ user'[u].status = user[u].status
          /\ user'[u].level = "id" => user[u].level = "id"
          /\ Shape = "rows" => /\ user'[u].level = "phone" => user'[u].phone \in Phone
                               /\ user'[u].level = "email" => user'[u].email
        <3>1. CASE Ladder!EmailWrite(p)
            <4> DEFINE a == [user[u] EXCEPT !.email = TRUE, !.level = Ladder!Rung(u, "email")]
            <4>1. user' = [user EXCEPT ![u] = a]
                BY <1>1, <3>1 DEF Ladder!EmailWrite, LadderInv, Ladder!TypeOK
            <4>2. Ladder!Rung(u, "email") \in {"id", "phone", "email"}
                  /\ (Ladder!Rung(u, "email") = "id" => user[u].level = "id")
                  /\ (Ladder!Rung(u, "email") = "phone" => user[u].level = "phone")
                BY DEF Ladder!Rung
            <4>3. a \in Ladder!Account
                BY <1>1, <4>2, Zenon DEF Ladder!Account
            <4>4. /\ a.email /\ a.level = Ladder!Rung(u, "email") /\ a.phone = user[u].phone
                  /\ a.status = user[u].status
                BY <1>1 DEF Ladder!Account
            <4>5. /\ user \in [User -> Ladder!Account]
                  /\ Shape = "rows" => (user[u].level = "phone" => user[u].phone \in Phone)
                BY <1>1 DEF LadderInv, Ladder!TypeOK, Ladder!StatusIsLatest
            <4> HIDE DEF a, u
            <4> QED BY <1>1, <4>1, <4>2, <4>3, <4>4, <4>5
        <3>2. CASE Ladder!PhoneWrite(p)
            <4> DEFINE a == [user[u] EXCEPT !.phone = vReq[p].phone, !.level = Ladder!Rung(u, "phone")]
            <4>1. /\ user' = [user EXCEPT ![u] = a]
                  /\ vReq[p].phone \in Phone
                BY <1>1, <1>3, <3>2, HandlerIs DEF Ladder!PhoneWrite, LadderInv, Ladder!TypeOK,
                    HandlerKnows
            <4>2. Ladder!Rung(u, "phone") \in {"id", "phone"}
                  /\ (Ladder!Rung(u, "phone") = "id" => user[u].level = "id")
                BY DEF Ladder!Rung
            <4>3. a \in Ladder!Account
                BY <1>1, <4>1, <4>2, Zenon DEF Ladder!Account
            <4>4. a.phone \in Phone /\ a.level = Ladder!Rung(u, "phone") /\ a.status = user[u].status
                BY <1>1, <4>1 DEF Ladder!Account
            <4>5. user \in [User -> Ladder!Account]
                BY DEF LadderInv, Ladder!TypeOK
            <4> HIDE DEF a, u
            <4> QED BY <1>1, <4>1, <4>2, <4>3, <4>4, <4>5
        <3> QED BY <3>1, <3>2
    <2>2. vReq' = [vReq EXCEPT ![p] = Ladder!Tidy]
        BY DEF Ladder!EmailWrite, Ladder!PhoneWrite, Ladder!Answer, Ladder!Become
    <2> HIDE DEF u
    <2>3. /\ vReq' \in [Request -> Ladder!Handler] /\ vReq'[p] = Ladder!Tidy
          /\ \A q \in Request \ {p} : vReq'[q] = vReq[q]
        BY <2>2, TidyHandler DEF LadderInv, Ladder!TypeOK
    <2>4. Ladder!TypeOK'
        BY <1>1, <2>1, <2>3, TidyHandler DEF LadderInv, Ladder!TypeOK
    <2>5. HandlersKnow' /\ TellsAlone'
        BY <1>1, <2>3, TidyHandler DEF LadderInv, HandlersKnow, HandlerKnows, TellsAlone,
            Ladder!Of
    <2>6. StoredInOrder' /\ PendingIsLast' /\ ToldWhenDecided'
        BY <1>1 DEF LadderInv, StoredInOrder, PendingIsLast, ToldWhenDecided
    <2>7. Shape = "rows" => Ladder!StatusIsLatest'
        BY <1>1, <2>1 DEF LadderInv, Ladder!StatusIsLatest, Ladder!Of
    <2> QED BY <2>4, <2>5, <2>6, <2>7 DEF LadderInv
<1> QED BY <1>2, <1>3

\* A submission is stored: it is its user's last, and none other of the user pends.
LEMMA StoreKeeps ==
    ASSUME Ladder!SoundConstants, LadderInv, NEW p \in Request, Ladder!SubmitStore(p)
    PROVE  LadderInv'
<1> DEFINE u == vReq[p].user
<1>1. /\ u \in User /\ user[u] \in Ladder!Account /\ vReq' = [vReq EXCEPT ![p] = Ladder!Tidy] /\ vTold' = vTold
    BY HandlerIs DEF Ladder!SubmitStore, HandlerKnows, Ladder!TypeOK, Ladder!Answer, Ladder!Become
<1>2. CASE UNCHANGED <<user, sub>>
    BY <1>1, <1>2, AnswerKeeps DEF Ladder!Answer, Ladder!Become
<1>3. CASE ~UNCHANGED <<user, sub>>
    <2>1. PICK s \in Ladder!Submission :
             /\ sub[s].owner = NoUser
             /\ \A t \in Ladder!Submission : sub[t].owner = NoUser => s <= t
             /\ Ladder!Pending(u) = {}
             /\ sub' = [sub EXCEPT ![s] = [owner |-> u, state |-> "pending"]]
             /\ user' = [user EXCEPT ![u].status = "pending"]
        BY <1>3 DEF Ladder!SubmitStore, Ladder!MayStore
    <2> DEFINE a == [user[u] EXCEPT !.status = "pending"]
    <2>2. /\ a \in Ladder!Account /\ a.status = "pending" /\ a.level = user[u].level
          /\ a.phone = user[u].phone /\ (a.email <=> user[u].email)
        BY <1>1 DEF Ladder!Account
    <2>3. user' = [user EXCEPT ![u] = a]
        BY <2>1 DEF LadderInv, Ladder!TypeOK
    <2> HIDE DEF u, a
    <2>4. /\ user' \in [User -> Ladder!Account] /\ user'[u] = a
          /\ \A v \in User \ {u} : user'[v] = user[v]
        BY <1>1, <2>2, <2>3 DEF LadderInv, Ladder!TypeOK
    <2>5. /\ sub' \in [Ladder!Submission -> Ladder!Row] /\ sub'[s].owner = u /\ sub'[s].state = "pending"
          /\ \A t \in Ladder!Submission \ {s} : sub'[t] = sub[t]
        <3>1. [owner |-> u, state |-> "pending"] \in Ladder!Row
            BY <1>1 DEF Ladder!Row
        <3> QED BY <2>1, <3>1 DEF LadderInv, Ladder!TypeOK
    <2>6. /\ sub[s].state = "unused" /\ s \in Nat /\ u # NoUser
          /\ \A t \in Ladder!Submission : t \in Nat /\ (sub[t].owner # NoUser => t < s)
        BY <1>1, <2>1 DEF LadderInv, Ladder!TypeOK, Ladder!Row, StoredInOrder,
            Ladder!SoundConstants, Ladder!Submission
    <2>7. /\ vReq' \in [Request -> Ladder!Handler] /\ vReq'[p] = Ladder!Tidy
          /\ \A q \in Request \ {p} : vReq'[q] = vReq[q]
        BY <1>1, TidyHandler DEF LadderInv, Ladder!TypeOK
    <2> DEFINE Mine == [v \in User |-> {t \in Ladder!Submission : sub'[t].owner = v}]
    <2>8. Mine[u] = Ladder!Of(u) \cup {s} /\ \A v \in User \ {u} : Mine[v] = Ladder!Of(v)
        BY <1>1, <2>5, <2>6, <2>1 DEF Ladder!Of, Ladder!SoundConstants
    <2> HIDE DEF Mine
    <2>9. Ladder!TypeOK'
        BY <1>1, <2>4, <2>5, <2>7, TidyHandler DEF LadderInv, Ladder!TypeOK
    <2>10. HandlersKnow' /\ TellsAlone'
        <3>1. \A q \in Request : vReq[q].pc \in {"told", "answer"} => vReq[q].sub # s
            BY <2>6, HandlerIs, NoneIsNoSubmission DEF HandlerKnows, Ladder!Decision
        <3>2. \A v \in User : Ladder!Of(v) # {} => Mine[v] # {}
            BY <2>8
        <3>3. \A q \in Request \ {p} : HandlerKnows(vReq[q])'
            <4> SUFFICES ASSUME NEW q \in Request \ {p} PROVE HandlerKnows(vReq[q])'
                OBVIOUS
            <4>1. HandlerKnows(vReq[q])
                BY HandlerIs
            <4>2. vReq[q].pc = "reread" => Mine[vReq[q].user] # {}
                BY <3>2, <4>1 DEF HandlerKnows
            <4> QED BY <1>1, <2>5, <2>7, <3>1, <4>1, <4>2 DEF HandlerKnows, Ladder!Of, Mine
        <3>4. HandlerKnows(vReq[p])'
            BY <2>7, TidyHandler DEF HandlerKnows
        <3> QED BY <2>7, <3>3, <3>4, TidyHandler DEF LadderInv, HandlersKnow, TellsAlone
    <2>11. StoredInOrder'
        BY <2>1, <2>5, <2>6 DEF LadderInv, StoredInOrder
    <2>12. PendingIsLast'
        <3>1. \A t \in Ladder!Submission : sub[t].owner = u => sub[t].state # "pending"
            BY <2>1 DEF Ladder!Pending, Ladder!Of
        <3> SUFFICES ASSUME NEW x \in Ladder!Submission, NEW t \in Ladder!Submission,
                            sub'[x].state = "pending", sub'[t].owner = sub'[x].owner
                     PROVE  t <= x
            BY DEF PendingIsLast
        <3>2. CASE x = s
            BY <2>5, <2>6, <3>2
        <3>3. CASE x # s
            BY <2>5, <3>1, <3>3 DEF LadderInv, PendingIsLast
        <3> QED BY <3>2, <3>3
    <2>13. ToldWhenDecided'
        BY <1>1, <2>5, <2>6 DEF LadderInv, ToldWhenDecided
    <2>14. ASSUME Shape = "rows" PROVE Ladder!StatusIsLatest'
        <3>1. Ladder!Latest(Mine[u]) = s
            <4>1. Mine[u] \subseteq Ladder!Submission /\ \A t \in Mine[u] : t <= s
                <5>1. \A t \in Ladder!Of(u) : t \in Ladder!Submission /\ sub[t].owner # NoUser
                    BY <1>1 DEF Ladder!Of, Ladder!SoundConstants
                <5>2. Mine[u] = Ladder!Of(u) \cup {s}
                    BY <2>8
                <5>3. ASSUME NEW t \in Ladder!Of(u) PROVE t \in Ladder!Submission /\ t <= s
                    <6>1. t \in Ladder!Submission /\ t \in Nat /\ t < s /\ s \in Nat
                        BY <2>6, <5>1
                    <6> QED BY <6>1
                <5>4. s <= s
                    BY <2>6
                <5> QED BY <5>2, <5>3, <5>4
            <4> QED BY <2>8, <4>1, LatestIsLast
        <3>2. s # Ladder!NoSubmission
            BY DEF Ladder!Submission, Ladder!NoSubmission
        <3>3. \A t \in Ladder!Submission : sub[t].state = "verified" => sub'[t].state = "verified"
            BY <2>5, <2>6
        <3>4. \A v \in User : (\E t \in Ladder!Of(v) : sub[t].state = "verified")
                                => \E t \in Mine[v] : sub'[t].state = "verified"
            BY <2>8, <3>3 DEF Ladder!Of
        <3>5. \A v \in User \ {u} : Mine[v] = Ladder!Of(v) /\ user'[v] = user[v]
                                    /\ \A t \in Ladder!Of(v) : sub'[t] = sub[t]
            BY <2>4, <2>5, <2>6, <2>8 DEF Ladder!Of, Ladder!SoundConstants
        <3>6. \A v \in User \ {u} : Ladder!Latest(Ladder!Of(v)) # Ladder!NoSubmission => Ladder!Latest(Ladder!Of(v)) \in Ladder!Of(v)
            BY NoneIsLatest, LatestKnown DEF Ladder!Of, Ladder!SoundConstants
        <3>m. \A v \in User : Ladder!Of(v)' = Mine[v]
            BY DEF Ladder!Of, Mine
        <3>l. \A v \in User : Ladder!Latest(Ladder!Of(v))' = Ladder!Latest(Mine[v])
            BY DEF Ladder!Latest, Ladder!Of, Mine
        <3> SUFFICES ASSUME NEW v \in User
                     PROVE  LET l == Ladder!Latest(Mine[v]) IN
                            /\ user'[v].status = IF l = Ladder!NoSubmission THEN "none" ELSE sub'[l].state
                            /\ user'[v].level = "id" => \E t \in Mine[v] : sub'[t].state = "verified"
                            /\ user'[v].level = "phone" => user'[v].phone \in Phone
                            /\ user'[v].level = "email" => user'[v].email
            BY <3>m, <3>l DEF Ladder!StatusIsLatest
        <3>7. /\ user[v].status = IF Ladder!Latest(Ladder!Of(v)) = Ladder!NoSubmission THEN "none"
                                  ELSE sub[Ladder!Latest(Ladder!Of(v))].state
              /\ user[v].level = "id" => \E t \in Ladder!Of(v) : sub[t].state = "verified"
              /\ user[v].level = "phone" => user[v].phone \in Phone
              /\ user[v].level = "email" => user[v].email
            BY <2>14 DEF LadderInv, Ladder!StatusIsLatest
        <3>8. CASE v = u
            <4>1. Mine[v] = Mine[u] /\ user'[v] = a /\ user[v] = user[u]
                BY <2>4, <3>8
            <4>2. Ladder!Latest(Mine[v]) = s
                BY <3>1, <3>8
            <4>3. user'[v].level = "id" => \E t \in Mine[v] : sub'[t].state = "verified"
                BY <2>2, <3>4, <3>7, <4>1
            <4> QED BY <2>2, <2>5, <3>2, <3>7, <4>1, <4>2, <4>3
        <3>9. CASE v # u
            BY <3>4, <3>5, <3>6, <3>7, <3>9
        <3> QED BY <3>8, <3>9
    <2> QED BY <2>9, <2>10, <2>11, <2>12, <2>13, <2>14 DEF LadderInv
<1> QED BY <1>2, <1>3

\* An administrator decides the pending submission, which is the user's last, or
\* finds that another has decided.
LEMMA DecideKeeps ==
    ASSUME Ladder!SoundConstants, LadderInv, NEW p \in Request, NEW u \in User,
           NEW d \in Ladder!Decision, Ladder!Decide(p, u, d)
    PROVE  LadderInv'
<1>1. Ladder!Pending(u) \subseteq Ladder!Of(u) /\ Ladder!Of(u) \subseteq Ladder!Submission /\ MaxSubmissions \in Nat
    BY DEF Ladder!Pending, Ladder!Of, Ladder!SoundConstants
<1>2. CASE Ladder!Pending(u) = {} /\ Shape = "rows"
    <2>1. /\ Ladder!Of(u) # {} /\ UNCHANGED <<user, sub, vTold>>
          /\ vReq' = [vReq EXCEPT ![p] = [Ladder!Tidy EXCEPT !.pc = "reread", !.user = u, !.decision = d]]
        BY <1>2 DEF Ladder!Decide, Ladder!Matched, Ladder!Become
    <2> DEFINE h == [Ladder!Tidy EXCEPT !.pc = "reread", !.user = u, !.decision = d]
    <2>2. h \in Ladder!Handler /\ h.pc = "reread" /\ h.user = u /\ h.decision = d
        BY TidyHandler DEF Ladder!Handler
    <2> HIDE DEF h
    <2> QED BY <2>1, <2>2, HandlerMoves DEF HandlerKnows, h
<1>3. CASE Ladder!Pending(u) # {}
    <2> DEFINE s == Ladder!Latest(Ladder!Pending(u))
               h == [Ladder!Tidy EXCEPT !.pc = "told", !.user = u, !.decision = d, !.sub = s]
               a == [user[u] EXCEPT !.status = d, !.level = IF d = "verified" THEN "id" ELSE @]
    <2>1. /\ sub' = [t \in Ladder!Submission |-> IF t = s THEN [sub[t] EXCEPT !.state = d] ELSE sub[t]]
          /\ user' = [user EXCEPT ![u].status = d, ![u].level = IF d = "verified" THEN "id" ELSE @]
          /\ vReq' = [vReq EXCEPT ![p] = h] /\ vTold' = vTold
        BY <1>3 DEF Ladder!Decide, Ladder!Matched, Ladder!Promote, Ladder!Become
    <2>2. s \in Ladder!Submission /\ sub[s].owner = u /\ sub[s].state = "pending"
        BY <1>1, <1>3, LatestKnown DEF Ladder!Pending, Ladder!Of
    <2>3. /\ user \in [User -> Ladder!Account] /\ user[u] \in Ladder!Account /\ sub \in [Ladder!Submission -> Ladder!Row]
          /\ sub[s] \in Ladder!Row
        BY <2>2 DEF LadderInv, Ladder!TypeOK
    <2>4. /\ a \in Ladder!Account /\ a.status = d /\ a.level = IF d = "verified" THEN "id" ELSE user[u].level
          /\ a.phone = user[u].phone /\ (a.email <=> user[u].email)
        BY <2>3 DEF Ladder!Account
    <2>5. user' = [user EXCEPT ![u] = a]
        BY <2>1, <2>3
    <2> HIDE DEF s, a
    <2>6. /\ sub' \in [Ladder!Submission -> Ladder!Row] /\ sub'[s].owner = u /\ sub'[s].state = d
          /\ \A t \in Ladder!Submission \ {s} : sub'[t] = sub[t]
        <3>1. [sub[s] EXCEPT !.state = d] \in Ladder!Row
            BY <2>3 DEF Ladder!Row
        <3> QED BY <2>1, <2>2, <2>3, <3>1 DEF Ladder!Row
    <2>7. /\ user' \in [User -> Ladder!Account] /\ user'[u] = a
          /\ \A v \in User \ {u} : user'[v] = user[v]
        BY <2>3, <2>4, <2>5
    <2>8. h \in Ladder!Handler /\ h.pc = "told" /\ h.user = u /\ h.decision = d /\ h.sub = s
        BY <2>2, TidyHandler DEF Ladder!Handler
    <2> HIDE DEF h
    <2>9. /\ vReq' \in [Request -> Ladder!Handler] /\ vReq'[p] = h
          /\ \A q \in Request \ {p} : vReq'[q] = vReq[q]
        BY <2>1, <2>8 DEF LadderInv, Ladder!TypeOK
    <2> DEFINE Mine == [v \in User |-> {t \in Ladder!Submission : sub'[t].owner = v}]
    <2>10. \A v \in User : Mine[v] = Ladder!Of(v)
        BY <2>2, <2>6 DEF Ladder!Of
    <2> HIDE DEF Mine
    <2>11. d # "pending" /\ d # "unused" /\ vTold[s] = 0
        BY <2>2 DEF Ladder!Decision, LadderInv, ToldWhenDecided
    <2>12. Ladder!TypeOK'
        BY <2>1, <2>2, <2>6, <2>7, <2>8, <2>9, <2>11 DEF LadderInv, Ladder!TypeOK
    <2>13. HandlersKnow' /\ TellsAlone'
        <3>1. \A q \in Request : vReq[q].pc \in {"told", "answer"} => vReq[q].sub # s
            BY <2>2, HandlerIs, NoneIsNoSubmission DEF HandlerKnows, Ladder!Decision
        <3>2. \A q \in Request \ {p} : HandlerKnows(vReq[q])'
            <4> SUFFICES ASSUME NEW q \in Request \ {p} PROVE HandlerKnows(vReq[q])'
                OBVIOUS
            <4>1. HandlerKnows(vReq[q])
                BY HandlerIs
            <4>2. vReq[q].pc = "reread" => Mine[vReq[q].user] # {}
                BY <2>10, <4>1 DEF HandlerKnows
            <4> QED BY <2>1, <2>6, <2>9, <3>1, <4>1, <4>2 DEF HandlerKnows, Ladder!Of, Mine
        <3>3. HandlerKnows(vReq[p])'
            BY <2>1, <2>2, <2>6, <2>8, <2>9, <2>11 DEF HandlerKnows
        <3> QED BY <2>8, <2>9, <3>1, <3>2, <3>3 DEF LadderInv, HandlersKnow, TellsAlone
    <2>14. StoredInOrder' /\ PendingIsLast' /\ ToldWhenDecided'
        BY <2>1, <2>2, <2>6, <2>11 DEF LadderInv, StoredInOrder, PendingIsLast, ToldWhenDecided
    <2>15. ASSUME Shape = "rows" PROVE Ladder!StatusIsLatest'
        <3>1. Ladder!Latest(Ladder!Of(u)) = s /\ s # Ladder!NoSubmission
            <4>1. s \in Ladder!Of(u) /\ \A t \in Ladder!Of(u) : t <= s
                BY <2>2 DEF Ladder!Of, LadderInv, PendingIsLast
            <4> QED BY <1>1, <2>2, <4>1, LatestIsLast DEF Ladder!Submission, Ladder!NoSubmission
        <3>2. s \in Ladder!Of(u)
            BY <2>2 DEF Ladder!Of
        <3>3. \A v \in User : (\E t \in Ladder!Of(v) : sub[t].state = "verified")
                                => \E t \in Ladder!Of(v) : sub'[t].state = "verified"
            BY <2>2, <2>6 DEF Ladder!Of
        <3>4. \A v \in User \ {u} : \A t \in Ladder!Of(v) : sub'[t] = sub[t]
            BY <2>2, <2>6 DEF Ladder!Of
        <3>5. \A v \in User \ {u} : Ladder!Latest(Ladder!Of(v)) # Ladder!NoSubmission => Ladder!Latest(Ladder!Of(v)) \in Ladder!Of(v)
            BY <1>1, NoneIsLatest, LatestKnown DEF Ladder!Of
        <3> SUFFICES ASSUME NEW v \in User
                     PROVE  LET l == Ladder!Latest(Ladder!Of(v)) IN
                            /\ user'[v].status = IF l = Ladder!NoSubmission THEN "none" ELSE sub'[l].state
                            /\ user'[v].level = "id" => \E t \in Ladder!Of(v) : sub'[t].state = "verified"
                            /\ user'[v].level = "phone" => user'[v].phone \in Phone
                            /\ user'[v].level = "email" => user'[v].email
            <4>1. \A x \in User : Ladder!Of(x)' = Ladder!Of(x)
                BY <2>10 DEF Mine, Ladder!Of
            <4> QED BY <4>1 DEF Ladder!StatusIsLatest, Ladder!Latest
        <3>6. /\ user[v].status = IF Ladder!Latest(Ladder!Of(v)) = Ladder!NoSubmission THEN "none"
                                  ELSE sub[Ladder!Latest(Ladder!Of(v))].state
              /\ user[v].level = "id" => \E t \in Ladder!Of(v) : sub[t].state = "verified"
              /\ user[v].level = "phone" => user[v].phone \in Phone
              /\ user[v].level = "email" => user[v].email
            BY <2>15 DEF LadderInv, Ladder!StatusIsLatest
        <3>7. CASE v = u
            BY <2>4, <2>6, <2>7, <3>1, <3>2, <3>3, <3>6, <3>7 DEF Ladder!Decision
        <3>8. CASE v # u
            BY <2>7, <3>3, <3>4, <3>5, <3>6, <3>8
        <3> QED BY <3>7, <3>8
    <2> QED BY <2>12, <2>13, <2>14, <2>15 DEF LadderInv
<1>4. CASE Ladder!Pending(u) = {} /\ Shape = "tuple"
    <2> DEFINE h == [Ladder!Tidy EXCEPT !.pc = "told", !.user = u, !.decision = d, !.sub = Ladder!NoSubmission]
               a == [user[u] EXCEPT !.status = d, !.level = IF d = "verified" THEN "id" ELSE @]
    <2>1. Ladder!NoSubmission \notin Ladder!Submission
        BY NoneIsNoSubmission
    <2>2. user \in [User -> Ladder!Account] /\ user[u] \in Ladder!Account /\ sub \in [Ladder!Submission -> Ladder!Row]
        BY DEF LadderInv, Ladder!TypeOK
    <2>3. /\ sub' = sub /\ vTold' = vTold /\ user' = [user EXCEPT ![u] = a]
          /\ vReq' = [vReq EXCEPT ![p] = h]
        <3>1. Ladder!Latest(Ladder!Pending(u)) = Ladder!NoSubmission
            BY <1>4, NoneIsLatest
        <3>2. /\ sub' = [t \in Ladder!Submission |-> IF t = Ladder!NoSubmission THEN [sub[t] EXCEPT !.state = d]
                                                                 ELSE sub[t]]
              /\ Ladder!Promote(u, d) /\ vTold' = vTold
              /\ vReq' = [vReq EXCEPT ![p] = h]
            BY <1>4, <3>1 DEF Ladder!Decide, Ladder!Matched, Ladder!Become
        <3>3. sub' = [t \in Ladder!Submission |-> sub[t]]
            BY <2>1, <3>2
        <3>4. user' = [user EXCEPT ![u] = a]
            BY <2>2, <3>2 DEF Ladder!Promote
        <3> QED BY <2>2, <3>2, <3>3, <3>4
    <2>4. a \in Ladder!Account
        BY <2>2 DEF Ladder!Account
    <2>5. h \in Ladder!Handler /\ h.pc = "told" /\ h.user = u /\ h.decision = d /\ h.sub = Ladder!NoSubmission
        BY TidyHandler DEF Ladder!Handler
    <2> HIDE DEF a, h
    <2>6. /\ vReq' \in [Request -> Ladder!Handler] /\ vReq'[p] = h
          /\ \A q \in Request \ {p} : vReq'[q] = vReq[q]
        BY <2>3, <2>5 DEF LadderInv, Ladder!TypeOK
    <2>7. Ladder!TypeOK'
        BY <2>2, <2>3, <2>4, <2>5, <2>6 DEF LadderInv, Ladder!TypeOK
    <2>8. HandlersKnow'
        BY <1>4, <2>1, <2>3, <2>5, <2>6 DEF LadderInv, HandlersKnow, HandlerKnows, Ladder!Of
    <2>9. TellsAlone'
        BY <2>1, <2>5, <2>6 DEF LadderInv, TellsAlone
    <2>10. StoredInOrder' /\ PendingIsLast' /\ ToldWhenDecided'
        BY <2>3 DEF LadderInv, StoredInOrder, PendingIsLast, ToldWhenDecided
    <2> QED BY <1>4, <2>7, <2>8, <2>9, <2>10 DEF LadderInv
<1> QED BY <1>2, <1>3, <1>4 DEF Ladder!SoundConstants

\* The user is told of the decision.
LEMMA NotifyKeeps ==
    ASSUME Ladder!SoundConstants, LadderInv, NEW p \in Request, Ladder!Notify(p)
    PROVE  LadderInv'
<1> DEFINE s == vReq[p].sub
           h == [vReq[p] EXCEPT !.pc = "answer"]
<1>1. /\ vReq[p].pc = "told" /\ HandlerKnows(vReq[p]) /\ vReq[p] \in Ladder!Handler
      /\ vReq \in [Request -> Ladder!Handler] /\ vTold \in [Ladder!Submission -> 0..2]
    BY HandlerIs DEF Ladder!Notify, Ladder!TypeOK
<1>2. /\ vTold' = [t \in Ladder!Submission |-> IF t = s THEN vTold[t] + 1 ELSE vTold[t]]
      /\ UNCHANGED <<user, sub>> /\ vReq' = [vReq EXCEPT ![p] = h]
    BY <1>1 DEF Ladder!Notify
<1>3. /\ h \in Ladder!Handler /\ h.pc = "answer" /\ h.sub = s /\ h.decision = vReq[p].decision
      /\ h.user = vReq[p].user
    BY <1>1 DEF Ladder!Handler
<1>k. HandlerKnows(h)
    BY <1>1, <1>3 DEF HandlerKnows
<1>n. Ladder!NoSubmission \notin Ladder!Submission
    BY NoneIsNoSubmission
<1> HIDE DEF h
<1>a. CASE s \notin Ladder!Submission
    <2>1. vTold' = vTold
        BY <1>1, <1>2, <1>a
    <2> QED BY <1>2, <1>3, <1>k, <2>1, HandlerMoves
<1>b. CASE s \in Ladder!Submission
    <2>1. sub[s].state = vReq[p].decision /\ vTold[s] = 0 /\ vReq[p].decision \in Ladder!Decision
        BY <1>1, <1>b, <1>n DEF HandlerKnows
    <2>2. \A q \in Request \ {p} : vReq[q].pc = "told" => vReq[q].sub # s
        BY <1>1, <1>b DEF LadderInv, TellsAlone
    <2> HIDE DEF s
    <2>3. vTold' \in [Ladder!Submission -> 0..2] /\ vTold'[s] = 1 /\ \A t \in Ladder!Submission \ {s} : vTold'[t] = vTold[t]
        BY <1>1, <1>2, <1>b, <2>1
    <2>4. /\ vReq' \in [Request -> Ladder!Handler] /\ vReq'[p] = h
          /\ \A q \in Request \ {p} : vReq'[q] = vReq[q]
        BY <1>1, <1>2, <1>3
    <2>5. Ladder!TypeOK'
        BY <1>2, <1>3, <1>k, <2>3, <2>4 DEF LadderInv, Ladder!TypeOK, HandlerKnows
    <2>6. HandlersKnow'
        BY <1>2, <1>3, <1>k, <2>2, <2>3, <2>4 DEF LadderInv, HandlersKnow, HandlerKnows, Ladder!Of
    <2>7. TellsAlone'
        BY <1>3, <2>4 DEF LadderInv, TellsAlone
    <2>8. /\ StoredInOrder' /\ PendingIsLast'
          /\ Shape = "rows" => Ladder!StatusIsLatest'
        BY <1>2 DEF LadderInv, StoredInOrder, PendingIsLast, Ladder!StatusIsLatest, Ladder!Of
    <2>9. ToldWhenDecided'
        BY <1>2, <1>b, <2>1, <2>3 DEF LadderInv, ToldWhenDecided, Ladder!Decision
    <2> QED BY <2>5, <2>6, <2>7, <2>8, <2>9 DEF LadderInv
<1> QED BY <1>a, <1>b

\* Every step keeps the invariant.
LEMMA NextLadder ==
    ASSUME Ladder!SoundConstants, LadderInv, [Ladder!Next]_Ladder!vars
    PROVE  LadderInv'
<1>1. CASE UNCHANGED Ladder!vars
    <2>1. Ladder!TypeOK' /\ TellsAlone' /\ StoredInOrder' /\ PendingIsLast' /\ ToldWhenDecided'
        BY <1>1 DEF Ladder!vars, LadderInv, Ladder!TypeOK, TellsAlone, StoredInOrder,
            PendingIsLast,
                    ToldWhenDecided
    <2>2. HandlersKnow'
        BY <1>1 DEF Ladder!vars, LadderInv, HandlersKnow, HandlerKnows, Ladder!Of
    <2>3. Ladder!StatusIsLatest' <=> Ladder!StatusIsLatest
        BY <1>1 DEF Ladder!vars, Ladder!StatusIsLatest, Ladder!Latest, Ladder!Of
    <2>4. Shape = "rows" => Ladder!StatusIsLatest'
        BY <2>3 DEF LadderInv
    <2> QED BY <2>1, <2>2, <2>4 DEF LadderInv
<1>2. ASSUME NEW p \in Request,
             \/ \E u \in User : Ladder!CheckEmail(p, u) \/ Ladder!Submit(p, u) \/ \E n \in Phone : Ladder!CheckPhone(p, u, n)
             \/ Ladder!Reread(p) \/ Ladder!Return(p) \/ Ladder!Fail(p)
      PROVE  LadderInv'
    BY <1>2, LocalKeeps
<1>3. ASSUME NEW p \in Request, \/ Ladder!EmailWrite(p) \/ Ladder!PhoneWrite(p) \/ Ladder!SubmitStore(p) \/ Ladder!Notify(p)
                                \/ \E u \in User, d \in Ladder!Decision : Ladder!Decide(p, u, d)
      PROVE  LadderInv'
    BY <1>3, RungKeeps, StoreKeeps, NotifyKeeps, DecideKeeps
<1> QED BY <1>1, <1>2, <1>3 DEF Ladder!Next

\* What was decided is what is shown, and told once.
LEMMA LadderDecides ==
    ASSUME LadderInv, Shape = "rows"
    PROVE  Ladder!DecisionsStand
BY DEF LadderInv, Ladder!DecisionsStand, Ladder!DecisionsAgree, HandlersKnow, HandlerKnows,
    ToldWhenDecided

\* No step takes back a rung: each writes its own over a lower one.
LEMMA RungsStay ==
    ASSUME Ladder!SoundConstants, LadderInv, [Ladder!Next]_Ladder!vars, NEW u \in User
    PROVE  Ladder!Rank(user'[u].level) >= Ladder!Rank(user[u].level)
<1>1. user \in [User -> Ladder!Account] /\ user[u] \in Ladder!Account
    BY DEF LadderInv, Ladder!TypeOK
<1>2. user[u].level \in {"none", "email", "phone", "id"}
    BY <1>1 DEF Ladder!Account
<1>3. CASE user'[u].level = user[u].level
    BY <1>2, <1>3 DEF Ladder!Rank
<1>4. CASE \E p \in Request : Ladder!EmailWrite(p) \/ Ladder!PhoneWrite(p)
    <2>1. \/ user'[u].level = user[u].level
          \/ \E rung \in {"email", "phone"} : user'[u].level = Ladder!Rung(u, rung)
        BY <1>1, <1>4 DEF Ladder!EmailWrite, Ladder!PhoneWrite, Ladder!Account
    <2> QED BY <1>2, <2>1 DEF Ladder!Rung, Ladder!Rank
<1>5. CASE \E p \in Request : Ladder!SubmitStore(p)
    <2>1. user'[u].level = user[u].level
        BY <1>1, <1>5 DEF Ladder!SubmitStore, Ladder!Account
    <2> QED BY <1>3, <2>1
<1>6. CASE \E p \in Request, v \in User, d \in Ladder!Decision : Ladder!Decide(p, v, d)
    <2>1. user'[u].level \in {user[u].level, "id"}
        BY <1>1, <1>6 DEF Ladder!Decide, Ladder!Promote, Ladder!Account
    <2> QED BY <1>2, <2>1 DEF Ladder!Rank
<1>7. CASE UNCHANGED user
    BY <1>3, <1>7
<1> QED BY <1>4, <1>5, <1>6, <1>7
        DEF Ladder!Next, Ladder!vars, Ladder!CheckEmail, Ladder!Submit, Ladder!CheckPhone,
            Ladder!Notify, Ladder!Reread, Ladder!Return, Ladder!Fail

-----------------------------------------------------------------------------
(* The ledger of experience points *)

\* The instance counts as the library does.
LEMMA LedgerCountsAlike == \A S : Ledger!Cardinality(S) = Cardinality(S)
BY DEF Ledger!Cardinality, Cardinality

Gifting == {p \in Request : xReq[p].pc \in {"lock", "paid"}}
Crediting(t) == t.pc \in {"before", "credit"}
Rushing(t) == t.pc = "insert" /\ t.key[1] = "gift" /\ t.alone

\* What a task knows.
TaskKnows(t) ==
    /\ t.pc # "idle" => t.user \in User
    /\ t.pc \in {"lock", "paid"} => t.peer \in User /\ t.cost \in Price
    /\ t.pc \in {"cap", "insert", "before", "credit"} => t.key \in Ledger!DedupeKey
    /\ t.pc = "cap" => t.key[1] = "gift"
    /\ t.pc = "insert" /\ t.key[1] = "gift" => Cap > 0
    /\ t.pc \in {"bump", "stamp"} => t.day \in Ledger!Day
    /\ t.pc = "unlock" => t.todo # {}
    /\ Crediting(t) => event[t.user][t.key] > 0
    /\ t.pc = "credit" => t.level <= announced[t.user]
    /\ Rushing(t) => today[t.user] < Cap + rushed[t.user]
    /\ t.pc = "paid" => t.balance = spendable[t.user]
TasksKnow == \A p \in Request : TaskKnows(xReq[p])

\* Two tasks never pay from one wallet, credit one award, or have both found the
\* cap's row alone.
Conflicting(s, t) ==
    /\ s.user = t.user
    /\ \/ s.pc = "paid" /\ t.pc = "paid"
       \/ Crediting(s) /\ Crediting(t) /\ s.key = t.key
       \/ Rushing(s) /\ Rushing(t)
TasksApart == \A p, q \in Request : Conflicting(xReq[p], xReq[q]) => p = q

\* A credit that was cut off is of an award, which nobody else credits.
CutKnown ==
    \A u \in User, k \in Ledger!DedupeKey :
        <<u, k, "uncredited">> \in cut
        => /\ event[u][k] > 0
           /\ \A p \in Request : ~(Crediting(xReq[p]) /\ xReq[p].user = u /\ xReq[p].key = k)

\* The gifts sent and under way stay within the bound.
GiftsFit == IsFiniteSet(Gifting) /\ gifts + Ledger!Cardinality(Gifting) <= MaxGifts

LedgerInv ==
    /\ Ledger!TypeOK /\ TasksKnow /\ TasksApart /\ CutKnown /\ GiftsFit
    /\ Ledger!LedgerBalances /\ Ledger!PaidOnce /\ Ledger!RewardsFollow /\ Ledger!CapHolds /\ Ledger!LevelsAreTold

\* What a set of paid awards is worth, and the awards that a wallet has.
OfKind(S, kind) == {k \in S : k[1] = kind}
WorthOf(S) ==
    Worths["match"] * Ledger!Cardinality(OfKind(S, "match")) + Worths["gift"] * Ledger!Cardinality(OfKind(S, "gift"))
    + Worths["challenge"] * Ledger!Cardinality(OfKind(S, "challenge"))
    + Worths["achievement"] * Ledger!Cardinality(OfKind(S, "achievement"))
Paid(u) == {k \in Ledger!DedupeKey : event[u][k] > 0} \ Ledger!Uncredited(u)
Balanced(u) == total[u] = WorthOf(Paid(u)) /\ spendable[u] = total[u] - spent[u]

LEMMA BooksOfUsers == Ledger!LedgerBalances <=> \A u \in User : Balanced(u)
BY DEF Ledger!LedgerBalances, Balanced, WorthOf, OfKind, Paid

LEMMA BooksKept == ASSUME \A u \in User : Balanced(u)' PROVE Ledger!LedgerBalances'
BY DEF Ledger!LedgerBalances, Balanced, WorthOf, OfKind, Paid

\* Of a key, its kind; and which keys there are.
LEMMA Keys ==
    /\ \A k \in Ledger!DedupeKey : k[1] \in Ledger!Kind
    /\ <<"match", 0>> \in Ledger!DedupeKey /\ \A n \in 1..MaxGifts : <<"gift", n>> \in Ledger!DedupeKey
    /\ \A d \in Ledger!Day : <<"challenge", d>> \in Ledger!DedupeKey
    /\ \A a \in Achievement : <<"achievement", a>> \in Ledger!DedupeKey
BY DEF Ledger!DedupeKey, Ledger!Kind

LEMMA KeysFinite == ASSUME Ledger!SoundConstants PROVE IsFiniteSet(Ledger!DedupeKey)
<1>1. IsFiniteSet(1..MaxGifts) /\ IsFiniteSet(Ledger!Day)
    BY FS_Interval DEF Ledger!SoundConstants, Ledger!Day
<1>2. IsFiniteSet(Achievement)
    <2>1. IsFiniteSet({1} \cup {2})
        BY FS_Singleton, FS_Union, LedgerCountsAlike
    <2>2. Achievement \subseteq {1} \cup {2}
        BY DEF Ledger!SoundConstants
    <2> QED BY <2>1, <2>2, FS_Subset
<1>3. \A x : IsFiniteSet({x})
    BY FS_Singleton, LedgerCountsAlike
<1>4. /\ IsFiniteSet({"gift"} \X (1..MaxGifts)) /\ IsFiniteSet({"challenge"} \X Ledger!Day)
      /\ IsFiniteSet({"achievement"} \X Achievement)
    BY <1>1, <1>2, <1>3, FS_Product
<1>5. IsFiniteSet({<<"match", 0>>} \cup ({"gift"} \X (1..MaxGifts)))
    BY <1>3, <1>4, FS_Union
<1>6. IsFiniteSet({<<"match", 0>>} \cup ({"gift"} \X (1..MaxGifts)) \cup ({"challenge"} \X Ledger!Day))
    BY <1>4, <1>5, FS_Union
<1> QED BY <1>4, <1>6, FS_Union DEF Ledger!DedupeKey

LEMMA OneMore == \A w, n \in Nat : w * (n + 1) = w * n + w
OBVIOUS

\* One more award is worth its kind's.
LEMMA WorthGrows ==
    ASSUME Ledger!SoundConstants, NEW S, S \subseteq Ledger!DedupeKey, NEW k \in Ledger!DedupeKey, k \notin S
    PROVE  WorthOf(S \cup {k}) = WorthOf(S) + Worths[k[1]]
<1> DEFINE N(kind) == Ledger!Cardinality(OfKind(S, kind))
           M(kind) == Ledger!Cardinality(OfKind(S \cup {k}, kind))
<1>1. \A kind \in Ledger!Kind : IsFiniteSet(OfKind(S, kind)) /\ N(kind) \in Nat /\ Worths[kind] \in Nat
    <2> SUFFICES ASSUME NEW kind \in Ledger!Kind
                 PROVE  IsFiniteSet(OfKind(S, kind)) /\ N(kind) \in Nat /\ Worths[kind] \in Nat
        OBVIOUS
    <2>1. OfKind(S, kind) \subseteq Ledger!DedupeKey
        BY DEF OfKind
    <2>2. IsFiniteSet(OfKind(S, kind))
        BY <2>1, KeysFinite, FS_Subset
    <2> QED BY <2>2, FS_CardinalityType, LedgerCountsAlike DEF Ledger!SoundConstants
<1>2. \A kind \in Ledger!Kind : M(kind) = IF kind = k[1] THEN N(kind) + 1 ELSE N(kind)
    <2> SUFFICES ASSUME NEW kind \in Ledger!Kind
                 PROVE  M(kind) = IF kind = k[1] THEN N(kind) + 1 ELSE N(kind)
        OBVIOUS
    <2>1. CASE kind = k[1]
        <3>1. OfKind(S \cup {k}, kind) = OfKind(S, kind) \cup {k} /\ k \notin OfKind(S, kind)
            BY <2>1 DEF OfKind
        <3> QED BY <1>1, <2>1, <3>1, FS_AddElement, LedgerCountsAlike
    <2>2. CASE kind # k[1]
        <3>1. OfKind(S \cup {k}, kind) = OfKind(S, kind)
            BY <2>2 DEF OfKind
        <3> QED BY <2>2, <3>1
    <2> QED BY <2>1, <2>2
<1>3. WorthOf(S) = Worths["match"] * N("match") + Worths["gift"] * N("gift")
                   + Worths["challenge"] * N("challenge") + Worths["achievement"] * N("achievement")
    BY DEF WorthOf
<1>4. WorthOf(S \cup {k})
         = Worths["match"] * M("match") + Worths["gift"] * M("gift")
           + Worths["challenge"] * M("challenge") + Worths["achievement"] * M("achievement")
    BY DEF WorthOf
<1> HIDE DEF N, M
<1>5. /\ N("match") \in Nat /\ N("gift") \in Nat /\ N("challenge") \in Nat
      /\ N("achievement") \in Nat /\ Worths["match"] \in Nat /\ Worths["gift"] \in Nat
      /\ Worths["challenge"] \in Nat /\ Worths["achievement"] \in Nat
    BY <1>1 DEF Ledger!Kind
<1>6. /\ Worths["match"] * N("match") \in Nat /\ Worths["gift"] * N("gift") \in Nat
      /\ Worths["challenge"] * N("challenge") \in Nat
      /\ Worths["achievement"] * N("achievement") \in Nat
    BY <1>5
<1>7. \A kind \in Ledger!Kind : Worths[kind] * M(kind) =
          IF kind = k[1] THEN Worths[kind] * N(kind) + Worths[kind] ELSE Worths[kind] * N(kind)
    BY <1>1, <1>2, OneMore DEF N
<1>8. k[1] \in Ledger!Kind
    BY Keys
<1>9. CASE k[1] = "match"
    BY <1>3, <1>4, <1>5, <1>6, <1>7, <1>9 DEF Ledger!Kind
<1>10. CASE k[1] = "gift"
    BY <1>3, <1>4, <1>5, <1>6, <1>7, <1>10 DEF Ledger!Kind
<1>11. CASE k[1] = "challenge"
    BY <1>3, <1>4, <1>5, <1>6, <1>7, <1>11 DEF Ledger!Kind
<1>12. CASE k[1] = "achievement"
    BY <1>3, <1>4, <1>5, <1>6, <1>7, <1>12 DEF Ledger!Kind
<1> QED BY <1>8, <1>9, <1>10, <1>11, <1>12 DEF Ledger!Kind

\* Every number of points has a level.
LEMMA LevelExists ==
    ASSUME NEW xp \in Nat
    PROVE  Ledger!LevelOf(xp) \in 1..(xp + 1)
<1> DEFINE Before == {p \in Nat \X Nat : p[1] < p[2]}
           Above == {l \in Nat : l >= 1 /\ xp < 50 * l * l}
<1>1. IsWellFoundedOn(Before, Nat)
    BY NatLessThanWellFounded DEF OpToRel
<1>2. xp + 1 \in Above
    <2>1. xp * xp >= 0 /\ (xp + 1) * (xp + 1) = xp * xp + 2 * xp + 1
        OBVIOUS
    <2>2. 50 * (xp + 1) * (xp + 1) = 50 * ((xp + 1) * (xp + 1))
        OBVIOUS
    <2> QED BY <2>1, <2>2
<1>3. PICK l \in Above : \A m \in Above : <<m, l>> \notin Before
    BY <1>1, <1>2, WFMin
<1>4. l \in Nat /\ l >= 1 /\ xp < 50 * l * l /\ \A m \in Above : ~(m < l)
    BY <1>3
<1>5. l \in 1..(xp + 1)
    BY <1>2, <1>4
<1>6. 50 * (l - 1) * (l - 1) <= xp
    <2>1. CASE l = 1
        BY <2>1
    <2>2. CASE l > 1
        <3>1. l - 1 \in Nat /\ l - 1 >= 1 /\ l - 1 < l
            BY <1>4, <2>2
        <3>2. ~(xp < 50 * (l - 1) * (l - 1))
            BY <1>4, <3>1
        <3>3. 50 * (l - 1) * (l - 1) \in Int
            BY <3>1
        <3> QED BY <3>2, <3>3
    <2> QED BY <1>4, <2>1, <2>2
<1> QED BY <1>4, <1>5, <1>6 DEF Ledger!LevelOf

LEMMA TidyTask ==
    /\ Ledger!Tidy \in Ledger!Task /\ Ledger!Tidy.pc = "idle" /\ Ledger!Tidy.alone /\ Ledger!Tidy.todo = {} /\ Ledger!Tidy.key = Ledger!NoKey
    /\ TaskKnows(Ledger!Tidy)
<1>1. Ledger!Tidy \in Ledger!Task
    BY DEF Ledger!Tidy, Ledger!Task
<1> QED BY <1>1 DEF Ledger!Tidy, TaskKnows, Crediting, Rushing

LEMMA AfterTask ==
    ASSUME NEW t \in Ledger!Task, t.user \in User
    PROVE  /\ Ledger!After(t) \in Ledger!Task /\ Ledger!After(t).pc \in {"idle", "unlock"} /\ TaskKnows(Ledger!After(t))
<1>1. CASE t.todo = {}
    BY <1>1, TidyTask DEF Ledger!After
<1>2. CASE t.todo # {}
    <2> DEFINE a == [Ledger!Tidy EXCEPT !.pc = "unlock", !.user = t.user, !.todo = t.todo]
    <2>1. t.user \in User \cup {NoUser} /\ t.todo \in SUBSET Achievement
        BY DEF Ledger!Task
    <2>2. a \in Ledger!Task
        BY <2>1, TidyTask, Zenon DEF Ledger!Task
    <2>3. a.pc = "unlock" /\ a.user = t.user /\ a.todo = t.todo
        BY TidyTask DEF Ledger!Task
    <2>4. Ledger!After(t) = a
        BY <1>2 DEF Ledger!After
    <2> HIDE DEF a
    <2> QED BY <1>2, <2>2, <2>3, <2>4 DEF TaskKnows, Crediting, Rushing
<1> QED BY <1>1, <1>2

\* The books before anybody has earned anything.
LEMMA InitLedger == ASSUME Ledger!SoundConstants PROVE Ledger!Init => LedgerInv
<1> SUFFICES ASSUME Ledger!Init PROVE LedgerInv
    OBVIOUS
<1>1. \A p \in Request : xReq[p] = Ledger!Tidy /\ xReq[p].pc = "idle"
    BY TidyTask DEF Ledger!Init
<1>2. Ledger!TypeOK
    <2>1. xReq \in [Request -> Ledger!Task]
        BY TidyTask DEF Ledger!Init
    <2>2. day \in Ledger!Day /\ gifts \in 0..MaxGifts
        BY DEF Ledger!Init, Ledger!Day, Ledger!SoundConstants
    <2> QED BY <2>1, <2>2 DEF Ledger!Init, Ledger!TypeOK
<1>3. TasksKnow /\ TasksApart
    BY <1>1, TidyTask DEF TasksKnow, TasksApart, Conflicting, Crediting, Rushing
<1>4. CutKnown /\ Ledger!RewardsFollow
    BY DEF Ledger!Init, CutKnown, Ledger!RewardsFollow
<1>5. GiftsFit
    <2>1. Gifting = {}
        BY <1>1 DEF Gifting
    <2>2. IsFiniteSet(Gifting) /\ Ledger!Cardinality(Gifting) = 0
        BY <2>1, FS_EmptySet, LedgerCountsAlike
    <2> QED BY <2>2 DEF GiftsFit, Ledger!Init, Ledger!SoundConstants
<1>6. Ledger!PaidOnce /\ Ledger!CapHolds
    BY DEF Ledger!Init, Ledger!PaidOnce, Ledger!CapHolds, Ledger!SoundConstants
<1>7. Ledger!LedgerBalances
    <2>1. \A u \in User : Paid(u) = {}
        BY DEF Paid, Ledger!Init
    <2>2. WorthOf({}) = 0
        <3>1. \A kind \in Ledger!Kind : OfKind({}, kind) = {}
            BY DEF OfKind
        <3>2. Ledger!Cardinality({}) = 0
            BY FS_EmptySet, LedgerCountsAlike
        <3>3. \A kind \in Ledger!Kind : Worths[kind] * Ledger!Cardinality(OfKind({}, kind)) = 0
            BY <3>1, <3>2 DEF Ledger!SoundConstants
        <3> QED BY <3>3 DEF WorthOf, Ledger!Kind
    <2>3. \A u \in User : total[u] = 0 /\ spendable[u] = 0 /\ spent[u] = 0
        BY DEF Ledger!Init
    <2> QED BY <2>1, <2>2, <2>3, BooksOfUsers DEF Balanced
<1>8. Ledger!LevelsAreTold
    <2>1. Ledger!LevelOf(0) = 1
        BY LevelExists
    <2> QED BY <2>1 DEF Ledger!Init, Ledger!LevelsAreTold
<1> QED BY <1>2, <1>3, <1>4, <1>5, <1>6, <1>7, <1>8 DEF LedgerInv

LEMMA TaskIs ==
    ASSUME LedgerInv, NEW p \in Request
    PROVE  Ledger!TypeOK /\ xReq[p] \in Ledger!Task /\ TaskKnows(xReq[p])
BY DEF LedgerInv, Ledger!TypeOK, TasksKnow

\* The gifts under way are one more, one less, or as many.
LEMMA GiftsMove ==
    ASSUME LedgerInv, NEW p \in Request, NEW t \in Ledger!Task, xReq' = [xReq EXCEPT ![p] = t]
    PROVE  /\ IsFiniteSet(Gifting') /\ Ledger!Cardinality(Gifting) \in Nat /\ Ledger!Cardinality(Gifting') \in Nat
           /\ Ledger!Cardinality(Gifting') =
                IF t.pc \in {"lock", "paid"}
                THEN IF p \in Gifting THEN Ledger!Cardinality(Gifting) ELSE Ledger!Cardinality(Gifting) + 1
                ELSE IF p \in Gifting THEN Ledger!Cardinality(Gifting) - 1 ELSE Ledger!Cardinality(Gifting)
<1>1. IsFiniteSet(Gifting)
    BY DEF LedgerInv, GiftsFit
<1>2. xReq'[p] = t /\ \A q \in Request \ {p} : xReq'[q] = xReq[q]
    BY DEF LedgerInv, Ledger!TypeOK
<1>3. Gifting' = IF t.pc \in {"lock", "paid"} THEN Gifting \cup {p} ELSE Gifting \ {p}
    BY <1>2 DEF Gifting
<1> QED BY <1>1, <1>3, FS_AddElement, FS_RemoveElement, FS_CardinalityType, LedgerCountsAlike,
    Zenon

\* A task goes on, and what it leaves and takes up is nobody else's.
LEMMA TaskMoves ==
    ASSUME Ledger!SoundConstants, LedgerInv, NEW p \in Request, NEW t \in Ledger!Task, TaskKnows(t),
           xReq' = [xReq EXCEPT ![p] = t],
           UNCHANGED <<day, Ledger!ledgerVars, Ledger!walletVars, spent, gifts, cut>>,
           progress' \in [User -> [Ledger!Day -> Nat]], done' \subseteq User \X Ledger!DedupeKey,
           t.pc \in {"lock", "paid"} => \/ xReq[p].pc \in {"lock", "paid"}
                                        \/ gifts + Ledger!Cardinality(Gifting) < MaxGifts,
           Crediting(t) \/ Crediting(xReq[p]) =>
               /\ Crediting(t) /\ Crediting(xReq[p])
               /\ t.user = xReq[p].user /\ t.key = xReq[p].key,
           \A q \in Request \ {p} : ~Conflicting(t, xReq[q]),
           \A e \in done' :
               \/ e \in done /\ ~(xReq[p].pc = "insert" /\ xReq[p].user = e[1] /\ xReq[p].key = e[2])
               \/ event[e[1]][e[2]] > 0
               \/ t.pc = "insert" /\ t.user = e[1] /\ t.key = e[2]
    PROVE  LedgerInv'
<1> USE DEF Ledger!ledgerVars, Ledger!walletVars
<1>1. /\ xReq' \in [Request -> Ledger!Task] /\ xReq'[p] = t
      /\ \A q \in Request \ {p} : xReq'[q] = xReq[q]
    BY DEF LedgerInv, Ledger!TypeOK
<1>2. Ledger!TypeOK'
    BY <1>1 DEF LedgerInv, Ledger!TypeOK
<1>3. TasksKnow'
    BY <1>1 DEF LedgerInv, TasksKnow, TaskKnows
<1>4. TasksApart'
    BY <1>1 DEF LedgerInv, TasksApart, Conflicting
<1>5. \A u \in User, k \in Ledger!DedupeKey :
          (\E q \in Request : Crediting(xReq'[q]) /\ xReq'[q].user = u /\ xReq'[q].key = k)
          <=> \E q \in Request : Crediting(xReq[q]) /\ xReq[q].user = u /\ xReq[q].key = k
    BY <1>1
<1>6. CutKnown'
    BY <1>5 DEF LedgerInv, CutKnown
<1>7. GiftsFit'
    <2>1. gifts' = gifts /\ gifts \in Nat /\ MaxGifts \in Nat /\ gifts + Ledger!Cardinality(Gifting) <= MaxGifts
        BY DEF LedgerInv, GiftsFit, Ledger!TypeOK, Ledger!SoundConstants
    <2>2. /\ IsFiniteSet(Gifting') /\ Ledger!Cardinality(Gifting) \in Nat /\ Ledger!Cardinality(Gifting') \in Nat
          /\ Ledger!Cardinality(Gifting') =
                IF t.pc \in {"lock", "paid"}
                THEN IF p \in Gifting THEN Ledger!Cardinality(Gifting) ELSE Ledger!Cardinality(Gifting) + 1
                ELSE IF p \in Gifting THEN Ledger!Cardinality(Gifting) - 1 ELSE Ledger!Cardinality(Gifting)
        BY GiftsMove
    <2>3. p \in Gifting <=> xReq[p].pc \in {"lock", "paid"}
        BY DEF Gifting
    <2>4. gifts' + Ledger!Cardinality(Gifting') <= MaxGifts
        BY <2>1, <2>2, <2>3
    <2> QED BY <2>2, <2>4 DEF GiftsFit
<1>8. \A u \in User : Ledger!Uncredited(u)' = Ledger!Uncredited(u)
    BY <1>5 DEF Ledger!Uncredited, Crediting, Ledger!At
<1>9. Ledger!LedgerBalances'
    BY <1>8 DEF LedgerInv, Ledger!LedgerBalances
<1>10. Ledger!PaidOnce' /\ Ledger!CapHolds' /\ Ledger!LevelsAreTold'
    BY DEF LedgerInv, Ledger!PaidOnce, Ledger!CapHolds, Ledger!LevelsAreTold
<1>11. Ledger!RewardsFollow'
    <2> SUFFICES ASSUME NEW e \in done'
                 PROVE  \/ event[e[1]][e[2]] > 0
                        \/ <<e[1], e[2], "unpaid">> \in cut
                        \/ \E q \in Request : /\ xReq'[q].pc = "insert"
                                              /\ xReq'[q].user = e[1] /\ xReq'[q].key = e[2]
        BY DEF Ledger!RewardsFollow, Ledger!At
    <2>1. CASE event[e[1]][e[2]] > 0
        BY <2>1
    <2>2. CASE t.pc = "insert" /\ t.user = e[1] /\ t.key = e[2]
        BY <1>1, <2>2
    <2>3. CASE e \in done /\ ~(xReq[p].pc = "insert" /\ xReq[p].user = e[1] /\ xReq[p].key = e[2])
        BY <1>1, <2>3 DEF LedgerInv, Ledger!RewardsFollow, Ledger!At
    <2> QED BY <2>1, <2>2, <2>3
<1> QED BY <1>2, <1>3, <1>4, <1>6, <1>7, <1>9, <1>10, <1>11 DEF LedgerInv

\* A task that does nothing more.
LEMMA TaskEnds ==
    ASSUME Ledger!SoundConstants, LedgerInv, NEW p \in Request, NEW t \in Ledger!Task, t.pc \in {"idle", "unlock"},
           TaskKnows(t), xReq' = [xReq EXCEPT ![p] = t],
           UNCHANGED <<day, Ledger!ledgerVars, Ledger!walletVars, spent, gifts, done, cut>>,
           progress' \in [User -> [Ledger!Day -> Nat]],
           ~Crediting(xReq[p]),
           xReq[p].pc = "insert" => event[xReq[p].user][xReq[p].key] > 0
    PROVE  LedgerInv'
<1>1. done' \subseteq User \X Ledger!DedupeKey
    BY DEF LedgerInv, Ledger!TypeOK
<1>2. ~Crediting(t) /\ \A q \in Request \ {p} : ~Conflicting(t, xReq[q])
    BY DEF Crediting, Conflicting, Rushing
<1>3. \A e \in done' :
          \/ e \in done /\ ~(xReq[p].pc = "insert" /\ xReq[p].user = e[1] /\ xReq[p].key = e[2])
          \/ event[e[1]][e[2]] > 0
    OBVIOUS
<1> QED BY <1>1, <1>2, <1>3, TaskMoves

\* A task begins.
LEMMA BeginKeeps ==
    ASSUME Ledger!SoundConstants, LedgerInv, NEW p \in Request,
           \/ \E u \in Earner : Ledger!Match(p, u) \/ Ledger!Increment(p, u) \/ Ledger!Evaluate(p, u)
           \/ \E s \in User, r \in User, c \in Price : Ledger!Send(p, s, r, c)
    PROVE  LedgerInv'
<1>1. xReq[p].pc = "idle" /\ UNCHANGED <<day, Ledger!ledgerVars, Ledger!walletVars, spent, gifts, Ledger!goalVars, cut>>
    BY DEF Ledger!Match, Ledger!Increment, Ledger!Evaluate, Ledger!Send, Ledger!Idle
<1>2. PICK t \in Ledger!Task :
          /\ xReq' = [xReq EXCEPT ![p] = t] /\ TaskKnows(t)
          /\ t.pc \in {"insert", "bump", "level", "lock"}
          /\ t.pc = "insert" => t.key[1] = "match"
          /\ t.pc = "lock" => gifts + Ledger!Cardinality(Gifting) < MaxGifts
    <2>1. CASE \E u \in Earner : Ledger!Match(p, u)
        <3>1. PICK u \in Earner : Ledger!Match(p, u)
            BY <2>1
        <3> DEFINE t == [Ledger!Tidy EXCEPT !.pc = "insert", !.user = u, !.key = <<"match", 0>>]
        <3>2. u \in User /\ <<"match", 0>> \in Ledger!DedupeKey
            BY Keys DEF Ledger!SoundConstants
        <3>3. t \in Ledger!Task
            BY <3>2, TidyTask, Zenon DEF Ledger!Task
        <3>4. t.pc = "insert" /\ t.user = u /\ t.key = <<"match", 0>>
            BY TidyTask DEF Ledger!Task
        <3>5. xReq' = [xReq EXCEPT ![p] = t]
            BY <3>1 DEF Ledger!Match, Ledger!Become
        <3> HIDE DEF t
        <3>6. TaskKnows(t) /\ t.key[1] = "match"
            BY <3>2, <3>4 DEF TaskKnows, Crediting, Rushing
        <3> QED BY <3>3, <3>4, <3>5, <3>6
    <2>2. CASE \E u \in Earner : Ledger!Increment(p, u)
        <3>1. PICK u \in Earner : Ledger!Increment(p, u)
            BY <2>2
        <3> DEFINE t == [Ledger!Tidy EXCEPT !.pc = "bump", !.user = u, !.day = day]
        <3>2. u \in User /\ day \in Ledger!Day
            BY DEF Ledger!SoundConstants, LedgerInv, Ledger!TypeOK
        <3>3. t \in Ledger!Task
            BY <3>2, TidyTask, Zenon DEF Ledger!Task
        <3>4. t.pc = "bump" /\ t.user = u /\ t.day = day
            BY TidyTask DEF Ledger!Task
        <3>5. xReq' = [xReq EXCEPT ![p] = t]
            BY <3>1 DEF Ledger!Increment, Ledger!Become
        <3> HIDE DEF t
        <3>6. TaskKnows(t)
            BY <3>2, <3>4 DEF TaskKnows, Crediting, Rushing
        <3> QED BY <3>3, <3>4, <3>5, <3>6
    <2>3. CASE \E u \in Earner : Ledger!Evaluate(p, u)
        <3>1. PICK u \in Earner : Ledger!Evaluate(p, u)
            BY <2>3
        <3> DEFINE todo == {a \in Achievement : <<u, <<"achievement", a>>>> \notin done}
                   t == [Ledger!Tidy EXCEPT !.pc = "level", !.user = u, !.todo = todo]
        <3>2. u \in User /\ todo \in SUBSET Achievement
            BY DEF Ledger!SoundConstants
        <3>3. xReq' = [xReq EXCEPT ![p] = t]
            BY <3>1 DEF Ledger!Evaluate, Ledger!Become
        <3> HIDE DEF todo
        <3>4. t \in Ledger!Task
            BY <3>2, TidyTask, Zenon DEF Ledger!Task
        <3>5. t.pc = "level" /\ t.user = u
            BY TidyTask DEF Ledger!Task
        <3> HIDE DEF t
        <3>6. TaskKnows(t)
            BY <3>2, <3>5 DEF TaskKnows, Crediting, Rushing
        <3> QED BY <3>3, <3>4, <3>5, <3>6
    <2>4. CASE \E s \in User, r \in User, c \in Price : Ledger!Send(p, s, r, c)
        <3>1. PICK s \in User, r \in User, c \in Price : Ledger!Send(p, s, r, c)
            BY <2>4
        <3> DEFINE t == [Ledger!Tidy EXCEPT !.pc = "lock", !.user = s, !.peer = r, !.cost = c]
        <3>2. t \in Ledger!Task
            BY TidyTask, Zenon DEF Ledger!Task
        <3>3. t.pc = "lock" /\ t.user = s /\ t.peer = r /\ t.cost = c
            BY TidyTask DEF Ledger!Task
        <3>4. xReq' = [xReq EXCEPT ![p] = t]
            BY <3>1 DEF Ledger!Send, Ledger!Become
        <3>5. gifts + Ledger!Cardinality(Gifting) < MaxGifts
            <4>1. Gifting = {q \in Request : Ledger!At(q, "lock") \/ Ledger!At(q, "paid")}
                BY DEF Gifting, Ledger!At
            <4> QED BY <3>1, <4>1 DEF Ledger!Send
        <3> HIDE DEF t
        <3>6. TaskKnows(t)
            BY <3>3 DEF TaskKnows, Crediting, Rushing
        <3> QED BY <3>2, <3>3, <3>4, <3>5, <3>6
    <2> QED BY <2>1, <2>2, <2>3, <2>4
<1>3. /\ ~Crediting(t) /\ ~Crediting(xReq[p])
      /\ \A q \in Request \ {p} : ~Conflicting(t, xReq[q])
    BY <1>1, <1>2 DEF Crediting, Conflicting, Rushing
<1>4. progress' \in [User -> [Ledger!Day -> Nat]] /\ done' \subseteq User \X Ledger!DedupeKey /\ done' = done
    BY <1>1 DEF Ledger!goalVars, LedgerInv, Ledger!TypeOK
<1>5. UNCHANGED <<day, Ledger!ledgerVars, Ledger!walletVars, spent, gifts, cut>>
    BY <1>1
<1>6. t.pc \in {"lock", "paid"} => gifts + Ledger!Cardinality(Gifting) < MaxGifts
    BY <1>2
<1>7. \A e \in done' : e \in done /\ ~(xReq[p].pc = "insert" /\ xReq[p].user = e[1] /\ xReq[p].key = e[2])
    BY <1>1, <1>4
<1> QED BY <1>2, <1>3, <1>4, <1>5, <1>6, <1>7, TaskMoves

\* A gift is paid from the wallet its transaction has locked.
LEMMA GiftKeeps ==
    ASSUME Ledger!SoundConstants, LedgerInv, NEW p \in Request, Ledger!GiftLock(p) \/ Ledger!GiftCommit(p)
    PROVE  LedgerInv'
<1> DEFINE s == xReq[p].user
           c == xReq[p].cost
<1>1. /\ xReq[p].pc \in {"lock", "paid"} /\ xReq[p] \in Ledger!Task /\ s \in User /\ xReq[p].peer \in User
      /\ c \in Price /\ c \in Nat /\ Ledger!TypeOK
      /\ UNCHANGED <<day, Ledger!ledgerVars, total, announced, progress, done, cut>>
    BY TaskIs DEF Ledger!GiftLock, Ledger!GiftCommit, Ledger!At, TaskKnows,
        Ledger!SoundConstants, Ledger!goalVars, Ledger!walletVars
<1>2. p \in Gifting /\ ~Crediting(xReq[p])
    BY <1>1 DEF Gifting, Crediting
<1>3. CASE Ledger!Become(p, Ledger!Tidy) /\ UNCHANGED <<spendable, spent, gifts>>
    <2>1. progress' \in [User -> [Ledger!Day -> Nat]]
        BY <1>1 DEF Ledger!TypeOK
    <2> QED BY <1>1, <1>2, <1>3, <2>1, TidyTask, TaskEnds DEF Ledger!Become, Ledger!walletVars
<1>4. CASE Ledger!GiftLock(p) /\ ~(spendable[s] < c)
    <2> DEFINE t == [xReq[p] EXCEPT !.pc = "paid", !.balance = spendable[s]]
    <2>1. /\ UNCHANGED <<day, Ledger!ledgerVars, Ledger!walletVars, spent, gifts, cut>>
          /\ xReq' = [xReq EXCEPT ![p].pc = "paid", ![p].balance = spendable[s]]
          /\ \A q \in Request : ~(xReq[q].pc = "paid" /\ xReq[q].user = s)
        BY <1>4 DEF Ledger!GiftLock, Ledger!WalletFree, Ledger!WalletHeld, Ledger!At
    <2>2. xReq' = [xReq EXCEPT ![p] = t]
        BY <1>1, <2>1 DEF Ledger!TypeOK
    <2>3. spendable[s] \in Nat
        BY <1>1 DEF Ledger!TypeOK
    <2>4. t \in Ledger!Task
        BY <1>1, <2>3, Zenon DEF Ledger!Task
    <2>5. /\ t.pc = "paid" /\ t.balance = spendable[s] /\ t.user = s /\ t.peer = xReq[p].peer
          /\ t.cost = c
        BY <1>1 DEF Ledger!Task
    <2> HIDE DEF t
    <2>6. TaskKnows(t) /\ ~Crediting(t) /\ \A q \in Request \ {p} : ~Conflicting(t, xReq[q])
        BY <1>1, <2>1, <2>5 DEF TaskKnows, Crediting, Rushing, Conflicting
    <2>7. progress' \in [User -> [Ledger!Day -> Nat]] /\ done' \subseteq User \X Ledger!DedupeKey
        BY <1>1 DEF Ledger!TypeOK
    <2>8. \A e \in done' : e \in done /\ ~(xReq[p].pc = "insert" /\ xReq[p].user = e[1] /\ xReq[p].key = e[2])
        BY <1>1
    <2> QED BY <1>1, <1>2, <2>1, <2>2, <2>4, <2>6, <2>7, <2>8, TaskMoves
<1>5. CASE Ledger!GiftCommit(p) /\ c <= spendable[s]
    <2> DEFINE k == <<"gift", gifts + 1>>
               t == [Ledger!Tidy EXCEPT !.pc = "cap", !.user = xReq[p].peer, !.key = k]
    <2>1. /\ spendable' = [spendable EXCEPT ![s] = @ - c] /\ spent' = [spent EXCEPT ![s] = @ + c]
          /\ gifts' = gifts + 1 /\ xReq' = [xReq EXCEPT ![p] = t] /\ xReq[p].pc = "paid"
        BY <1>5 DEF Ledger!GiftCommit, Ledger!Become, Ledger!At
    <2>2. gifts + 1 \in 1..MaxGifts
        <3>1. Ledger!Tidy \in Ledger!Task /\ Ledger!Tidy.pc = "idle"
            BY TidyTask
        <3>2. Ledger!Cardinality(Gifting) \in Nat /\ Ledger!Cardinality(Gifting \ {p}) = Ledger!Cardinality(Gifting) - 1
              /\ Ledger!Cardinality(Gifting \ {p}) \in Nat
            <4>1. IsFiniteSet(Gifting)
                BY DEF LedgerInv, GiftsFit
            <4> QED BY <1>2, <4>1, FS_RemoveElement, FS_CardinalityType, LedgerCountsAlike
        <3> QED BY <1>1, <3>2 DEF LedgerInv, GiftsFit, Ledger!TypeOK, Ledger!SoundConstants
    <2>3. k \in Ledger!DedupeKey /\ k[1] = "gift"
        BY <2>2, Keys
    <2> HIDE DEF k
    <2>4. t \in Ledger!Task
        BY <1>1, <2>3, TidyTask, Zenon DEF Ledger!Task
    <2>5. t.pc = "cap" /\ t.user = xReq[p].peer /\ t.key = k
        BY TidyTask DEF Ledger!Task
    <2> HIDE DEF t
    <2>6. /\ xReq' \in [Request -> Ledger!Task] /\ xReq'[p] = t /\ \A q \in Request \ {p} : xReq'[q] = xReq[q]
        BY <1>1, <2>1, <2>4 DEF Ledger!TypeOK
    <2>7. /\ spendable' \in [User -> Nat] /\ spent' \in [User -> Nat]
          /\ spendable'[s] = spendable[s] - c /\ spent'[s] = spent[s] + c
          /\ \A v \in User \ {s} : spendable'[v] = spendable[v] /\ spent'[v] = spent[v]
        BY <1>1, <1>5, <2>1 DEF Ledger!TypeOK
    <2> HIDE DEF s, c
    <2> USE DEF Ledger!ledgerVars
    <2>8. Ledger!TypeOK'
        BY <1>1, <2>1, <2>2, <2>6, <2>7 DEF Ledger!TypeOK
    <2>9. \A q \in Request \ {p} : ~(xReq[q].pc = "paid" /\ xReq[q].user = s)
        BY <2>1 DEF LedgerInv, TasksApart, Conflicting, s
    <2>10. TasksKnow'
        <3>1. TaskKnows(xReq[p])'
            BY <1>1, <2>3, <2>5, <2>6 DEF TaskKnows, Crediting, Rushing
        <3>2. ASSUME NEW q \in Request \ {p} PROVE TaskKnows(xReq[q])'
            BY <1>1, <2>6, <2>7, <2>9 DEF TaskKnows, LedgerInv, TasksKnow
        <3> QED BY <3>1, <3>2 DEF TasksKnow
    <2>11. ~Crediting(t) /\ ~Rushing(t) /\ t.pc # "paid"
        BY <2>5 DEF Crediting, Rushing
    <2>12. TasksApart'
        BY <2>6, <2>11 DEF LedgerInv, TasksApart, Conflicting
    <2>13. CutKnown'
        BY <1>1, <2>6, <2>11 DEF LedgerInv, CutKnown
    <2>14. GiftsFit'
        <3>1. IsFiniteSet(Gifting') /\ Ledger!Cardinality(Gifting) \in Nat
              /\ Ledger!Cardinality(Gifting') = Ledger!Cardinality(Gifting) - 1
            BY <1>2, <2>1, <2>4, <2>5, GiftsMove
        <3> QED BY <1>1, <2>1, <3>1 DEF LedgerInv, GiftsFit, Ledger!TypeOK
    <2>15. \A u \in User : Ledger!Uncredited(u)' = Ledger!Uncredited(u)
        BY <1>1, <1>2, <2>6, <2>11 DEF Ledger!Uncredited, Crediting, Ledger!At
    <2>16. \A u \in User : Paid(u)' = Paid(u)
        BY <1>1, <2>15 DEF Paid
    <2>17. Ledger!LedgerBalances'
        <3>1. \A u \in User : Balanced(u)
            BY BooksOfUsers DEF LedgerInv
        <3>2. \A u \in User : total'[u] = WorthOf(Paid(u)')
            BY <1>1, <2>16, <3>1 DEF Balanced
        <3>3. \A u \in User : spendable'[u] = total'[u] - spent'[u]
            <4>1. \A u \in User : spendable[u] = total[u] - spent[u]
                BY <3>1 DEF Balanced
            <4>2. /\ total' = total /\ s \in User /\ c \in Nat
                  /\ \A u \in User : spendable[u] \in Nat /\ total[u] \in Nat /\ spent[u] \in Nat
                BY <1>1 DEF Ledger!TypeOK
            <4>3. spendable'[s] = total'[s] - spent'[s]
                BY <2>7, <4>1, <4>2
            <4>4. \A u \in User \ {s} : spendable'[u] = total'[u] - spent'[u]
                BY <2>7, <4>1, <4>2
            <4> QED BY <4>3, <4>4
        <3>4. \A u \in User : Balanced(u)'
            BY <3>2, <3>3 DEF Balanced, WorthOf
        <3> QED BY <3>4, BooksKept
    <2>18. Ledger!PaidOnce' /\ Ledger!CapHolds' /\ Ledger!LevelsAreTold'
        BY <1>1 DEF LedgerInv, Ledger!PaidOnce, Ledger!CapHolds, Ledger!LevelsAreTold
    <2>19. Ledger!RewardsFollow'
        BY <1>1, <2>1, <2>6 DEF LedgerInv, Ledger!RewardsFollow, Ledger!At
    <2> QED BY <2>8, <2>10, <2>12, <2>13, <2>14, <2>17, <2>18, <2>19 DEF LedgerInv
<1> QED BY <1>3, <1>4, <1>5 DEF Ledger!GiftLock, Ledger!GiftCommit, Ledger!walletVars

\* The cap is checked on a count that another row may raise before this one is
\* recorded; who finds no other such row is alone.
LEMMA CapKeeps ==
    ASSUME Ledger!SoundConstants, LedgerInv, NEW p \in Request, Ledger!CapCheck(p)
    PROVE  LedgerInv'
<1> DEFINE u == xReq[p].user
           B == \A q \in Request : ~(Ledger!At(q, "insert") /\ xReq[q].key[1] = "gift" /\ xReq[q].user = u)
<1>1. /\ xReq[p].pc = "cap" /\ xReq[p] \in Ledger!Task /\ u \in User /\ Ledger!TypeOK
      /\ xReq[p].key \in Ledger!DedupeKey /\ xReq[p].key[1] = "gift"
      /\ UNCHANGED <<day, Ledger!ledgerVars, Ledger!walletVars, spent, gifts, progress, done, cut>>
    BY TaskIs DEF Ledger!CapCheck, Ledger!At, TaskKnows, Ledger!goalVars
<1>2. progress' \in [User -> [Ledger!Day -> Nat]] /\ done' \subseteq User \X Ledger!DedupeKey /\ done' = done
      /\ ~Crediting(xReq[p])
    BY <1>1 DEF Ledger!TypeOK, Crediting
<1>3. CASE Ledger!Become(p, Ledger!Tidy)
    BY <1>1, <1>2, <1>3, TidyTask, TaskEnds DEF Ledger!Become
<1>4. CASE Ledger!BelowCap(u) /\ xReq' = [xReq EXCEPT ![p].pc = "insert", ![p].alone = B]
    <2> DEFINE t == [xReq[p] EXCEPT !.pc = "insert", !.alone = B]
    <2>1. xReq' = [xReq EXCEPT ![p] = t]
        BY <1>1, <1>4 DEF Ledger!TypeOK
    <2>2. B \in BOOLEAN
        OBVIOUS
    <2>3. B => \A q \in Request : ~(xReq[q].pc = "insert" /\ xReq[q].key[1] = "gift" /\ xReq[q].user = u)
        BY DEF Ledger!At
    <2> HIDE DEF B
    <2>4. t \in Ledger!Task
        BY <1>1, <2>2, Zenon DEF Ledger!Task
    <2>5. t.pc = "insert" /\ t.user = u /\ t.key = xReq[p].key /\ (t.alone <=> B)
        BY <1>1, <2>2 DEF Ledger!Task
    <2> HIDE DEF t
    <2>6. today[u] < Cap /\ today[u] \in Nat /\ rushed[u] \in Nat /\ Cap \in Nat
        BY <1>1, <1>4 DEF Ledger!BelowCap, Ledger!TypeOK, Ledger!SoundConstants
    <2>7. TaskKnows(t) /\ ~Crediting(t)
        BY <1>1, <2>5, <2>6 DEF TaskKnows, Crediting, Rushing
    <2>8. \A q \in Request \ {p} : ~Conflicting(t, xReq[q])
        BY <2>3, <2>5, <2>7 DEF Conflicting, Rushing
    <2>9. \A e \in done' : e \in done /\ ~(xReq[p].pc = "insert" /\ xReq[p].user = e[1] /\ xReq[p].key = e[2])
        BY <1>1
    <2>10. t.pc \notin {"lock", "paid"}
        BY <2>5
    <2> QED BY <1>1, <1>2, <2>1, <2>4, <2>7, <2>8, <2>9, <2>10, TaskMoves
<1> QED BY <1>3, <1>4 DEF Ledger!CapCheck

\* An award is recorded once, and the row counts against the day's cap.
LEMMA InsertKeeps ==
    ASSUME Ledger!SoundConstants, LedgerInv, NEW p \in Request, Ledger!Insert(p)
    PROVE  LedgerInv'
<1> DEFINE u == xReq[p].user
           k == xReq[p].key
<1>1. /\ xReq[p].pc = "insert" /\ xReq[p] \in Ledger!Task /\ u \in User /\ Ledger!TypeOK /\ k \in Ledger!DedupeKey
      /\ TaskKnows(xReq[p])
      /\ UNCHANGED <<day, Ledger!walletVars, spent, gifts, progress, done, cut>>
    BY TaskIs DEF Ledger!Insert, Ledger!At, TaskKnows, Ledger!goalVars
<1>2. ~Crediting(xReq[p]) /\ progress' \in [User -> [Ledger!Day -> Nat]]
    BY <1>1 DEF Ledger!TypeOK, Crediting
<1>3. CASE Ledger!Recorded(u, k)
    <2>1. xReq' = [xReq EXCEPT ![p] = Ledger!After(xReq[p])] /\ UNCHANGED Ledger!ledgerVars /\ event[u][k] > 0
        BY <1>3 DEF Ledger!Insert, Ledger!Become, Ledger!Recorded
    <2> HIDE DEF u, k
    <2> QED BY <1>1, <1>2, <2>1, AfterTask, TaskEnds DEF u, k
<1>4. CASE ~Ledger!Recorded(u, k)
    <2> DEFINE t == [xReq[p] EXCEPT !.pc = "before", !.alone = TRUE]
    <2>1. /\ event' = [event EXCEPT ![u][k] = @ + 1]
          /\ today' = [today EXCEPT ![u] = IF k[1] = "gift" THEN @ + 1 ELSE @]
          /\ rushed' = [rushed EXCEPT ![u] = IF xReq[p].alone THEN @ ELSE @ + 1]
          /\ xReq' = [xReq EXCEPT ![p].pc = "before", ![p].alone = TRUE]
        BY <1>4 DEF Ledger!Insert
    <2>2. xReq' = [xReq EXCEPT ![p] = t]
        BY <1>1, <2>1 DEF Ledger!TypeOK
    <2>3. t \in Ledger!Task
        BY <1>1, Zenon DEF Ledger!Task
    <2>4. t.pc = "before" /\ t.user = u /\ t.key = k
        BY <1>1 DEF Ledger!Task
    <2> HIDE DEF t
    <2>5. /\ xReq' \in [Request -> Ledger!Task] /\ xReq'[p] = t /\ \A q \in Request \ {p} : xReq'[q] = xReq[q]
        BY <1>1, <2>2, <2>3 DEF Ledger!TypeOK
    <2>6. event[u][k] = 0
        BY <1>1, <1>4 DEF Ledger!Recorded, Ledger!TypeOK
    <2> HIDE DEF u, k
    <2>7. event \in [User -> [Ledger!DedupeKey -> Nat]] /\ event[u] \in [Ledger!DedupeKey -> Nat]
        BY <1>1 DEF Ledger!TypeOK
    <2>8. event' = [event EXCEPT ![u] = [event[u] EXCEPT ![k] = 1]]
        BY <1>1, <2>1, <2>6, <2>7
    <2>9. /\ event' \in [User -> [Ledger!DedupeKey -> Nat]]
          /\ event'[u] = [event[u] EXCEPT ![k] = 1]
          /\ \A v \in User \ {u} : event'[v] = event[v]
        <3>1. [event[u] EXCEPT ![k] = 1] \in [Ledger!DedupeKey -> Nat]
            BY <2>7
        <3> QED BY <1>1, <2>7, <2>8, <3>1
    <2>10. /\ event'[u][k] = 1
           /\ \A v \in User, x \in Ledger!DedupeKey : v # u \/ x # k => event'[v][x] = event[v][x]
        BY <1>1, <2>7, <2>9
    <2>11. /\ today' \in [User -> Nat] /\ rushed' \in [User -> Nat]
           /\ today[u] \in Nat /\ rushed[u] \in Nat
           /\ today'[u] = IF k[1] = "gift" THEN today[u] + 1 ELSE today[u]
           /\ rushed'[u] = IF xReq[p].alone THEN rushed[u] ELSE rushed[u] + 1
           /\ \A v \in User \ {u} : today'[v] = today[v] /\ rushed'[v] = rushed[v]
        BY <1>1, <2>1 DEF Ledger!TypeOK
    <2>12. Ledger!TypeOK'
        BY <1>1, <2>5, <2>9, <2>11 DEF Ledger!TypeOK, Ledger!walletVars
    <2>13. Rushing(xReq[p]) <=> k[1] = "gift" /\ xReq[p].alone
        BY <1>1 DEF Rushing, k
    <2>14. TasksKnow'
        <3>1. TaskKnows(xReq[p])'
            BY <1>1, <2>4, <2>5, <2>10 DEF TaskKnows, Crediting, Rushing
        <3>2. ASSUME NEW q \in Request \ {p} PROVE TaskKnows(xReq[q])'
            <4>1. xReq'[q] = xReq[q] /\ TaskKnows(xReq[q])
                BY <2>5 DEF LedgerInv, TasksKnow
            <4>2. Crediting(xReq[q]) => event'[xReq[q].user][xReq[q].key] > 0
                BY <2>10, <4>1 DEF TaskKnows, Crediting
            <4>3. Rushing(xReq[q]) => today'[xReq[q].user] < Cap + rushed'[xReq[q].user]
                <5> SUFFICES ASSUME Rushing(xReq[q])
                             PROVE  today'[xReq[q].user] < Cap + rushed'[xReq[q].user]
                    OBVIOUS
                <5>1. xReq[q].user \in User /\ today[xReq[q].user] < Cap + rushed[xReq[q].user]
                    BY <4>1 DEF TaskKnows, Rushing
                <5>2. CASE xReq[q].user # u
                    BY <2>11, <5>1, <5>2
                <5>3. CASE xReq[q].user = u
                    <6>1. ~Rushing(xReq[p])
                        BY <5>3 DEF LedgerInv, TasksApart, Conflicting, u
                    <6> QED BY <2>11, <2>13, <5>1, <5>3, <6>1 DEF Ledger!SoundConstants
                <5> QED BY <5>2, <5>3
            <4> QED BY <1>1, <4>1, <4>2, <4>3 DEF TaskKnows, Ledger!walletVars
        <3> QED BY <3>1, <3>2 DEF TasksKnow
    <2>15. \A q \in Request : Crediting(xReq[q]) => ~(xReq[q].user = u /\ xReq[q].key = k)
        BY <2>6 DEF LedgerInv, TasksKnow, TaskKnows
    <2>16. Crediting(t) /\ ~Rushing(t)
        BY <2>4 DEF Crediting, Rushing
    <2>17. TasksApart'
        <3>1. \A q \in Request \ {p} : ~Conflicting(t, xReq[q]) /\ ~Conflicting(xReq[q], t)
            BY <2>4, <2>15, <2>16 DEF Conflicting, Crediting
        <3> QED BY <2>5, <3>1 DEF LedgerInv, TasksApart, Conflicting
    <2>18. <<u, k, "uncredited">> \notin cut
        BY <1>1, <2>6 DEF LedgerInv, CutKnown
    <2>19. CutKnown'
        BY <1>1, <2>4, <2>5, <2>10, <2>18 DEF LedgerInv, CutKnown
    <2>20. GiftsFit'
        <3>1. p \notin Gifting
            BY <1>1 DEF Gifting
        <3>2. IsFiniteSet(Gifting') /\ Ledger!Cardinality(Gifting') = Ledger!Cardinality(Gifting)
            BY <2>2, <2>3, <2>4, <3>1, GiftsMove
        <3> QED BY <1>1, <3>2 DEF LedgerInv, GiftsFit
    <2>21. \A v \in User : Ledger!Uncredited(v)' = IF v = u THEN Ledger!Uncredited(v) \cup {k} ELSE Ledger!Uncredited(v)
        <3>1. \A v \in User, x \in Ledger!DedupeKey :
                 (\E q \in Request : Crediting(xReq'[q]) /\ xReq'[q].user = v /\ xReq'[q].key = x)
                 <=> \/ v = u /\ x = k
                     \/ \E q \in Request : Crediting(xReq[q]) /\ xReq[q].user = v /\ xReq[q].key = x
            BY <1>2, <2>4, <2>5, <2>16
        <3> QED BY <1>1, <3>1 DEF Ledger!Uncredited, Crediting, Ledger!At
    <2>22. \A v \in User : Paid(v)' = Paid(v)
        BY <1>1, <2>6, <2>10, <2>21 DEF Paid
    <2>23. Ledger!LedgerBalances'
        <3>1. \A v \in User : Balanced(v)
            BY BooksOfUsers DEF LedgerInv
        <3>2. \A v \in User : Balanced(v)'
            BY <1>1, <2>22, <3>1 DEF Balanced, WorthOf, Ledger!walletVars
        <3> QED BY <3>2, BooksKept
    <2>24. Ledger!PaidOnce'
        BY <2>10 DEF LedgerInv, Ledger!PaidOnce
    <2>25. Ledger!CapHolds'
        <3>1. \A v \in User : today[v] <= Cap + rushed[v]
            BY DEF LedgerInv, Ledger!CapHolds
        <3>2. today'[u] <= Cap + rushed'[u]
            <4>1. Rushing(xReq[p]) => today[u] < Cap + rushed[u]
                BY <1>1 DEF TaskKnows, u
            <4> QED BY <1>1, <2>11, <2>13, <3>1, <4>1 DEF Ledger!SoundConstants
        <3> QED BY <2>11, <3>1, <3>2 DEF Ledger!CapHolds
    <2>26. Ledger!LevelsAreTold'
        BY <1>1 DEF LedgerInv, Ledger!LevelsAreTold, Ledger!walletVars
    <2>27. Ledger!RewardsFollow'
        <3> SUFFICES ASSUME NEW e \in done
                     PROVE  \/ event'[e[1]][e[2]] > 0
                            \/ <<e[1], e[2], "unpaid">> \in cut
                            \/ \E q \in Request : /\ xReq'[q].pc = "insert"
                                                  /\ xReq'[q].user = e[1] /\ xReq'[q].key = e[2]
            BY <1>1 DEF Ledger!RewardsFollow, Ledger!At
        <3>1. e[1] \in User /\ e[2] \in Ledger!DedupeKey
            BY <1>1 DEF Ledger!TypeOK
        <3>2. \/ event[e[1]][e[2]] > 0
              \/ <<e[1], e[2], "unpaid">> \in cut
              \/ \E q \in Request : xReq[q].pc = "insert" /\ xReq[q].user = e[1] /\ xReq[q].key = e[2]
            BY DEF LedgerInv, Ledger!RewardsFollow, Ledger!At
        <3>3. CASE e[1] = u /\ e[2] = k
            BY <2>10, <3>3
        <3>4. CASE ~(e[1] = u /\ e[2] = k)
            BY <2>5, <2>10, <3>1, <3>2, <3>4 DEF u, k
        <3> QED BY <3>3, <3>4
    <2> QED BY <2>12, <2>14, <2>17, <2>19, <2>20, <2>23, <2>24, <2>25, <2>26, <2>27 DEF LedgerInv
<1> QED BY <1>3, <1>4

\* The wallet is credited with the award, of which the task that recorded it alone
\* knows, and the user is told of a level.
LEMMA CreditKeeps ==
    ASSUME Ledger!SoundConstants, LedgerInv, NEW p \in Request, Ledger!ReadLevel(p) \/ Ledger!Credit(p)
    PROVE  LedgerInv'
<1> DEFINE u == xReq[p].user
           k == xReq[p].key
<1>1. /\ xReq[p].pc \in {"before", "credit"} /\ xReq[p] \in Ledger!Task /\ u \in User /\ Ledger!TypeOK
      /\ k \in Ledger!DedupeKey /\ TaskKnows(xReq[p]) /\ Crediting(xReq[p])
      /\ UNCHANGED <<day, Ledger!ledgerVars, spent, gifts, progress, done, cut>>
    BY TaskIs DEF Ledger!ReadLevel, Ledger!Credit, Ledger!At, TaskKnows, Crediting,
        Ledger!goalVars
<1>2. progress' \in [User -> [Ledger!Day -> Nat]] /\ done' \subseteq User \X Ledger!DedupeKey
      /\ total[u] \in Nat /\ spendable[u] \in Nat /\ announced[u] \in Nat
    BY <1>1 DEF Ledger!TypeOK
<1>3. CASE Ledger!ReadLevel(p)
    <2> DEFINE t == [xReq[p] EXCEPT !.pc = "credit", !.balance = total[u],
                                   !.level = Ledger!LevelOf(total[u])]
    <2>1. xReq' = [xReq EXCEPT ![p] = t] /\ UNCHANGED Ledger!walletVars
        BY <1>1, <1>3 DEF Ledger!TypeOK, Ledger!ReadLevel
    <2>2. Ledger!LevelOf(total[u]) \in Nat
        BY <1>2, LevelExists
    <2>3. t \in Ledger!Task
        BY <1>1, <1>2, <2>2, Zenon DEF Ledger!Task
    <2>4. t.pc = "credit" /\ t.user = u /\ t.key = k /\ t.level = Ledger!LevelOf(total[u])
        BY <1>1 DEF Ledger!Task
    <2> HIDE DEF t
    <2>5. TaskKnows(t) /\ Crediting(t)
        BY <1>1, <2>4 DEF TaskKnows, Crediting, Rushing, LedgerInv, Ledger!LevelsAreTold
    <2>6. \A q \in Request \ {p} : ~Conflicting(t, xReq[q])
        BY <1>1, <2>4, <2>5 DEF LedgerInv, TasksApart, Conflicting, Rushing
    <2>7. \A e \in done' : e \in done /\ ~(xReq[p].pc = "insert" /\ xReq[p].user = e[1] /\ xReq[p].key = e[2])
        BY <1>1
    <2>8. t.pc \notin {"lock", "paid"}
        BY <2>4
    <2> QED BY <1>1, <1>2, <2>1, <2>3, <2>4, <2>5, <2>6, <2>7, <2>8, TaskMoves
<1>4. CASE Ledger!Credit(p)
    <2> DEFINE w == Worths[k[1]]
               t == Ledger!After(xReq[p])
    <2>1. w \in Nat /\ k[1] \in Ledger!Kind
        BY <1>1, Keys DEF Ledger!SoundConstants
    <2>2. /\ xReq[p].pc = "credit" /\ ~Ledger!WalletHeld(u) /\ Ledger!Added(p) = total[u] + w
          /\ total' = [total EXCEPT ![u] = Ledger!Added(p)]
          /\ spendable' = [spendable EXCEPT ![u] = @ + w]
          /\ announced' = [announced EXCEPT ![u] =
                              IF Ledger!LevelOf(Ledger!Added(p)) > xReq[p].level
                              THEN IF @ > Ledger!LevelOf(Ledger!Added(p)) THEN @ ELSE Ledger!LevelOf(Ledger!Added(p))
                              ELSE @]
          /\ xReq' = [xReq EXCEPT ![p] = t]
        BY <1>4 DEF Ledger!Credit, Ledger!At, Ledger!Added, Ledger!Previous, Ledger!Become
    <2>3. /\ t \in Ledger!Task /\ t.pc \in {"idle", "unlock"} /\ TaskKnows(t)
          /\ ~Crediting(t) /\ ~Rushing(t)
        BY <1>1, AfterTask DEF Crediting, Rushing
    <2> HIDE DEF t, w
    <2>4. /\ xReq' \in [Request -> Ledger!Task] /\ xReq'[p] = t /\ \A q \in Request \ {p} : xReq'[q] = xReq[q]
        BY <1>1, <2>2, <2>3 DEF Ledger!TypeOK
    <2>5. Ledger!LevelOf(total[u] + w) \in Nat
        BY <1>2, <2>1, LevelExists
    <2> HIDE DEF u, k
    <2>6. /\ total' \in [User -> Nat] /\ spendable' \in [User -> Nat]
          /\ total'[u] = total[u] + w /\ spendable'[u] = spendable[u] + w
          /\ \A v \in User \ {u} : total'[v] = total[v] /\ spendable'[v] = spendable[v]
        BY <1>1, <1>2, <2>1, <2>2 DEF Ledger!TypeOK
    <2>7. xReq[p].level \in Nat /\ xReq[p].level <= announced[u]
        BY <1>1, <2>2 DEF TaskKnows, Ledger!Task, u
    <2>8. /\ announced' \in [User -> Nat] /\ announced'[u] >= announced[u]
          /\ Ledger!LevelOf(total[u] + w) <= announced'[u]
          /\ \A v \in User \ {u} : announced'[v] = announced[v]
        BY <1>1, <1>2, <2>2, <2>5, <2>7 DEF Ledger!TypeOK
    <2> USE DEF Ledger!ledgerVars
    <2>9. Ledger!TypeOK'
        BY <1>1, <2>4, <2>6, <2>8 DEF Ledger!TypeOK
    <2>10. \A q \in Request : ~(xReq[q].pc = "paid" /\ xReq[q].user = u)
        BY <2>2 DEF Ledger!WalletHeld, Ledger!At
    <2>11. TasksKnow'
        <3>1. TaskKnows(xReq[p])'
            BY <2>3, <2>4 DEF TaskKnows, Crediting, Rushing
        <3>2. ASSUME NEW q \in Request \ {p} PROVE TaskKnows(xReq[q])'
            <4>1. xReq'[q] = xReq[q] /\ TaskKnows(xReq[q]) /\ xReq[q] \in Ledger!Task
                BY <1>1, <2>4 DEF LedgerInv, TasksKnow, Ledger!TypeOK
            <4>2. xReq[q].pc = "credit" => xReq[q].level <= announced'[xReq[q].user]
                <5>1. xReq[q].pc = "credit" => /\ xReq[q].user \in User /\ xReq[q].level \in Nat
                                               /\ xReq[q].level <= announced[xReq[q].user]
                    BY <4>1 DEF TaskKnows, Ledger!Task
                <5>2. \A v \in User : /\ announced[v] \in Nat /\ announced'[v] \in Nat
                                      /\ announced[v] <= announced'[v]
                    <6> SUFFICES ASSUME NEW v \in User
                                 PROVE  /\ announced[v] \in Nat /\ announced'[v] \in Nat
                                        /\ announced[v] <= announced'[v]
                        OBVIOUS
                    <6>1. announced[v] \in Nat /\ announced'[v] \in Nat
                        BY <1>1, <2>8 DEF LedgerInv, Ledger!TypeOK
                    <6>2. CASE v = u
                        BY <2>8, <6>1, <6>2
                    <6>3. CASE v # u
                        BY <2>8, <6>1, <6>3
                    <6> QED BY <6>1, <6>2, <6>3
                <5> QED BY <5>1, <5>2
            <4>3. xReq[q].pc = "paid" => xReq[q].balance = spendable'[xReq[q].user]
                BY <2>6, <2>10, <4>1 DEF TaskKnows
            <4> QED BY <1>1, <4>1, <4>2, <4>3 DEF TaskKnows
        <3> QED BY <3>1, <3>2 DEF TasksKnow
    <2>12. TasksApart'
        BY <2>3, <2>4 DEF LedgerInv, TasksApart, Conflicting
    <2>13. CutKnown'
        BY <1>1, <2>3, <2>4 DEF LedgerInv, CutKnown
    <2>14. GiftsFit'
        <3>1. p \notin Gifting
            BY <1>1 DEF Gifting
        <3>2. IsFiniteSet(Gifting') /\ Ledger!Cardinality(Gifting') = Ledger!Cardinality(Gifting)
            BY <2>2, <2>3, <3>1, GiftsMove
        <3> QED BY <1>1, <3>2 DEF LedgerInv, GiftsFit
    <2>15. /\ <<u, k, "uncredited">> \notin cut /\ event[u][k] > 0
           /\ \A q \in Request \ {p} : ~(Crediting(xReq[q]) /\ xReq[q].user = u /\ xReq[q].key = k)
        BY <1>1 DEF LedgerInv, CutKnown, TasksApart, Conflicting, TaskKnows, u, k
    <2>16. \A v \in User : Ledger!Uncredited(v)' = IF v = u THEN Ledger!Uncredited(v) \ {k} ELSE Ledger!Uncredited(v)
        <3>1. \A v \in User, x \in Ledger!DedupeKey :
                 (\E q \in Request : Crediting(xReq'[q]) /\ xReq'[q].user = v /\ xReq'[q].key = x)
                 <=> /\ ~(v = u /\ x = k)
                     /\ \E q \in Request : Crediting(xReq[q]) /\ xReq[q].user = v /\ xReq[q].key = x
            BY <2>3, <2>4, <2>15 DEF u, k
        <3> QED BY <1>1, <2>15, <3>1 DEF Ledger!Uncredited, Crediting, Ledger!At
    <2>17. k \in Ledger!Uncredited(u) /\ k \notin Paid(u) /\ Paid(u) \subseteq Ledger!DedupeKey
        BY <1>1 DEF Ledger!Uncredited, Paid, Ledger!At, u, k
    <2>18. \A v \in User : Paid(v)' = IF v = u THEN Paid(v) \cup {k} ELSE Paid(v)
        BY <1>1, <2>15, <2>16, <2>17 DEF Paid
    <2>19. Ledger!LedgerBalances'
        <3>1. \A v \in User : Balanced(v)
            BY BooksOfUsers DEF LedgerInv
        <3>2. WorthOf(Paid(u) \cup {k}) = WorthOf(Paid(u)) + w
            BY <1>1, <2>17, WorthGrows DEF w
        <3>3. \A v \in User : total'[v] = WorthOf(Paid(v)')
            BY <2>6, <2>18, <3>1, <3>2 DEF Balanced
        <3>4. \A v \in User : spendable'[v] = total'[v] - spent'[v]
            <4>1. spent' = spent /\ \A v \in User : spendable[v] = total[v] - spent[v] /\ spent[v] \in Nat
                BY <1>1, <3>1 DEF Balanced, Ledger!TypeOK
            <4>2. \A v \in User \ {u} : spendable'[v] = total'[v] - spent'[v]
                BY <2>6, <4>1
            <4>3. spendable'[u] = total'[u] - spent'[u]
                BY <1>1, <1>2, <2>1, <2>6, <4>1
            <4> QED BY <4>2, <4>3
        <3>5. \A v \in User : Balanced(v)'
            BY <3>3, <3>4 DEF Balanced, WorthOf
        <3> QED BY <3>5, BooksKept
    <2>20. Ledger!PaidOnce' /\ Ledger!CapHolds'
        BY <1>1 DEF LedgerInv, Ledger!PaidOnce, Ledger!CapHolds
    <2>21. Ledger!LevelsAreTold'
        BY <2>6, <2>8 DEF LedgerInv, Ledger!LevelsAreTold
    <2>22. Ledger!RewardsFollow'
        BY <1>1, <2>4 DEF LedgerInv, Ledger!RewardsFollow, Ledger!At
    <2> QED BY <2>9, <2>11, <2>12, <2>13, <2>14, <2>19, <2>20, <2>21, <2>22 DEF LedgerInv
<1> QED BY <1>3, <1>4

\* The day's challenge: every crossing of the target goes on to the award.
LEMMA ChallengeKeeps ==
    ASSUME Ledger!SoundConstants, LedgerInv, NEW p \in Request, Ledger!Bump(p) \/ Ledger!Stamp(p)
    PROVE  LedgerInv'
<1> DEFINE u == xReq[p].user
           d == xReq[p].day
<1>1. /\ xReq[p].pc \in {"bump", "stamp"} /\ xReq[p] \in Ledger!Task /\ u \in User /\ d \in Ledger!Day /\ Ledger!TypeOK
      /\ UNCHANGED <<day, Ledger!ledgerVars, Ledger!walletVars, spent, gifts, cut>>
    BY TaskIs DEF Ledger!Bump, Ledger!Stamp, Ledger!At, TaskKnows
<1>2. ~Crediting(xReq[p]) /\ progress \in [User -> [Ledger!Day -> Nat]] /\ done \subseteq User \X Ledger!DedupeKey
    BY <1>1 DEF Crediting, Ledger!TypeOK
<1>3. CASE Ledger!Bump(p)
    <2>1. progress' \in [User -> [Ledger!Day -> Nat]] /\ done' = done
        <3>1. progress' = [progress EXCEPT ![u][d] = IF @ > Target THEN @ ELSE @ + 1] /\ done' = done
            BY <1>3 DEF Ledger!Bump
        <3> HIDE DEF u, d
        <3>2. progress' = [progress EXCEPT ![u] =
                              [progress[u] EXCEPT ![d] = IF @ > Target THEN @ ELSE @ + 1]]
            BY <1>1, <1>2, <3>1
        <3>3. [progress[u] EXCEPT ![d] = IF @ > Target THEN @ ELSE @ + 1] \in [Ledger!Day -> Nat]
            BY <1>1, <1>2
        <3> QED BY <1>1, <1>2, <3>1, <3>2, <3>3
    <2>2. CASE Ledger!Become(p, Ledger!Tidy)
        BY <1>1, <1>2, <2>1, <2>2, TidyTask, TaskEnds DEF Ledger!Become
    <2>3. CASE xReq' = [xReq EXCEPT ![p].pc = "stamp"]
        <3> DEFINE t == [xReq[p] EXCEPT !.pc = "stamp"]
        <3>1. xReq' = [xReq EXCEPT ![p] = t]
            BY <1>1, <2>3 DEF Ledger!TypeOK
        <3>2. t \in Ledger!Task
            BY <1>1, Zenon DEF Ledger!Task
        <3>3. t.pc = "stamp" /\ t.user = u /\ t.day = d
            BY <1>1 DEF Ledger!Task
        <3> HIDE DEF t
        <3>4. TaskKnows(t) /\ ~Crediting(t) /\ \A q \in Request \ {p} : ~Conflicting(t, xReq[q])
            BY <1>1, <3>3 DEF TaskKnows, Crediting, Rushing, Conflicting
        <3>5. \A e \in done' : e \in done /\ ~(xReq[p].pc = "insert" /\ xReq[p].user = e[1] /\ xReq[p].key = e[2])
            BY <1>1, <2>1
        <3>6. t.pc \notin {"lock", "paid"}
            BY <3>3
        <3> QED BY <1>1, <1>2, <2>1, <3>1, <3>2, <3>4, <3>5, <3>6, TaskMoves
    <2> QED BY <1>3, <2>2, <2>3 DEF Ledger!Bump
<1>4. CASE Ledger!Stamp(p)
    <2> DEFINE k == <<"challenge", d>>
               t == [xReq[p] EXCEPT !.pc = "insert", !.key = k]
    <2>1. /\ done' = done \cup {<<u, k>>} /\ progress' = progress
          /\ xReq' = [xReq EXCEPT ![p].pc = "insert", ![p].key = k] /\ xReq[p].pc = "stamp"
        BY <1>4 DEF Ledger!Stamp, Ledger!ChallengeKey, Ledger!At
    <2>2. xReq' = [xReq EXCEPT ![p] = t]
        BY <1>1, <2>1 DEF Ledger!TypeOK
    <2>3. k \in Ledger!DedupeKey /\ k[1] = "challenge"
        BY <1>1, Keys
    <2> HIDE DEF k
    <2>4. t \in Ledger!Task
        BY <1>1, <2>3, Zenon DEF Ledger!Task
    <2>5. t.pc = "insert" /\ t.user = u /\ t.key = k
        BY <1>1 DEF Ledger!Task
    <2> HIDE DEF t, u, d
    <2>6. TaskKnows(t) /\ ~Crediting(t) /\ \A q \in Request \ {p} : ~Conflicting(t, xReq[q])
        BY <1>1, <2>3, <2>5 DEF TaskKnows, Crediting, Rushing, Conflicting
    <2>7. done' \subseteq User \X Ledger!DedupeKey /\ progress' \in [User -> [Ledger!Day -> Nat]]
        BY <1>1, <1>2, <2>1, <2>3
    <2>8. ASSUME NEW e \in done'
          PROVE  \/ e \in done /\ ~(xReq[p].pc = "insert" /\ xReq[p].user = e[1] /\ xReq[p].key = e[2])
                 \/ event[e[1]][e[2]] > 0
                 \/ t.pc = "insert" /\ t.user = e[1] /\ t.key = e[2]
        BY <2>1, <2>5
    <2>9. t.pc \notin {"lock", "paid"}
        BY <2>5
    <2> QED BY <1>1, <1>2, <2>2, <2>4, <2>6, <2>7, <2>8, <2>9, TaskMoves
<1> QED BY <1>3, <1>4

\* The achievements are looked at, and unlocked one after the other.
LEMMA AchievementKeeps ==
    ASSUME Ledger!SoundConstants, LedgerInv, NEW p \in Request,
           Ledger!EvaluateLevel(p) \/ Ledger!EvaluateCount(p) \/ Ledger!Unlock(p)
    PROVE  LedgerInv'
<1> DEFINE u == xReq[p].user
<1>1. /\ xReq[p].pc \in {"level", "count", "unlock"} /\ xReq[p] \in Ledger!Task /\ u \in User /\ Ledger!TypeOK
      /\ TaskKnows(xReq[p]) /\ xReq[p].todo \subseteq Achievement
      /\ UNCHANGED <<day, Ledger!ledgerVars, Ledger!walletVars, spent, gifts, progress, cut>>
    BY TaskIs DEF Ledger!EvaluateLevel, Ledger!EvaluateCount, Ledger!Unlock, Ledger!At,
        TaskKnows, Ledger!goalVars, Ledger!Task
<1>2. /\ ~Crediting(xReq[p]) /\ progress' \in [User -> [Ledger!Day -> Nat]]
      /\ done \subseteq User \X Ledger!DedupeKey
    BY <1>1 DEF Crediting, Ledger!TypeOK
<1>3. CASE Ledger!EvaluateLevel(p)
    <2> DEFINE todo == IF Ledger!LevelOf(total[u]) >= 2 THEN xReq[p].todo ELSE xReq[p].todo \ {1}
               t == [xReq[p] EXCEPT !.pc = "count", !.todo = todo]
    <2>1. xReq' = [xReq EXCEPT ![p] = t] /\ done' = done
        BY <1>1, <1>3 DEF Ledger!TypeOK, Ledger!EvaluateLevel, Ledger!goalVars
    <2>2. todo \in SUBSET Achievement
        BY <1>1
    <2> HIDE DEF todo
    <2>3. t \in Ledger!Task
        BY <1>1, <2>2, Zenon DEF Ledger!Task
    <2>4. t.pc = "count" /\ t.user = u
        BY <1>1 DEF Ledger!Task
    <2> HIDE DEF t
    <2>5. TaskKnows(t) /\ ~Crediting(t) /\ \A q \in Request \ {p} : ~Conflicting(t, xReq[q])
        BY <1>1, <2>4 DEF TaskKnows, Crediting, Rushing, Conflicting
    <2>6. \A e \in done' : e \in done /\ ~(xReq[p].pc = "insert" /\ xReq[p].user = e[1] /\ xReq[p].key = e[2])
        BY <1>1, <2>1
    <2>7. t.pc \notin {"lock", "paid"}
        BY <2>4
    <2> QED BY <1>1, <1>2, <2>1, <2>3, <2>5, <2>6, <2>7, TaskMoves
<1>4. CASE Ledger!EvaluateCount(p)
    <2>1. PICK left \in SUBSET Achievement :
             /\ xReq' = [xReq EXCEPT ![p] = IF left = {} THEN Ledger!Tidy
                          ELSE [Ledger!Tidy EXCEPT !.pc = "unlock", !.user = u, !.todo = left]]
             /\ done' = done
        BY <1>1, <1>4 DEF Ledger!EvaluateCount, Ledger!Become, Ledger!goalVars
    <2> DEFINE t == [xReq[p] EXCEPT !.todo = left]
    <2>2. t \in Ledger!Task
        BY <1>1, Zenon DEF Ledger!Task
    <2>3. t.todo = left /\ t.user = u
        BY <1>1 DEF Ledger!Task
    <2> HIDE DEF t, u
    <2>4. xReq' = [xReq EXCEPT ![p] = Ledger!After(t)]
        BY <2>1, <2>3 DEF Ledger!After
    <2>5. Ledger!After(t) \in Ledger!Task /\ Ledger!After(t).pc \in {"idle", "unlock"} /\ TaskKnows(Ledger!After(t))
        BY <1>1, <2>2, <2>3, AfterTask
    <2> QED BY <1>1, <1>2, <2>1, <2>4, <2>5, TaskEnds
<1>5. CASE Ledger!Unlock(p)
    <2> DEFINE a == CHOOSE b \in xReq[p].todo : \A c \in xReq[p].todo : b <= c
               rest == [xReq[p] EXCEPT !.todo = @ \ {a}]
               k == <<"achievement", a>>
    <2>1. a \in Achievement
        <3>1. xReq[p].todo # {} /\ xReq[p].todo \subseteq {1, 2}
            BY <1>1, <1>5 DEF Ledger!Unlock, Ledger!At, TaskKnows, Ledger!SoundConstants
        <3>2. \E b \in xReq[p].todo : \A c \in xReq[p].todo : b <= c
            <4>1. CASE 1 \in xReq[p].todo
                BY <3>1, <4>1
            <4>2. CASE 1 \notin xReq[p].todo
                BY <3>1, <4>2
            <4> QED BY <4>1, <4>2
        <3>3. a \in xReq[p].todo
            BY <3>2
        <3> QED BY <1>1, <3>3
    <2>2. /\ done' = done \cup {<<u, k>>}
          /\ xReq' = [xReq EXCEPT ![p] = IF <<u, k>> \in done THEN Ledger!After(rest)
                        ELSE [rest EXCEPT !.pc = "insert", !.key = k]]
        BY <1>5 DEF Ledger!Unlock, Ledger!Become
    <2> HIDE DEF a
    <2>3. k \in Ledger!DedupeKey /\ k[1] = "achievement"
        BY <2>1, Keys
    <2> HIDE DEF k
    <2>4. xReq[p].todo \ {a} \in SUBSET Achievement
        BY <1>1
    <2>5. rest \in Ledger!Task
        BY <1>1, <2>4, Zenon DEF Ledger!Task
    <2>6. rest.user = u
        BY <1>1 DEF Ledger!Task
    <2> HIDE DEF rest
    <2>7. CASE <<u, k>> \in done
        <3>1. done' = done /\ xReq' = [xReq EXCEPT ![p] = Ledger!After(rest)]
            BY <2>2, <2>7
        <3>2. Ledger!After(rest) \in Ledger!Task /\ Ledger!After(rest).pc \in {"idle", "unlock"} /\ TaskKnows(Ledger!After(rest))
            BY <1>1, <2>5, <2>6, AfterTask
        <3> HIDE DEF u
        <3> QED BY <1>1, <1>2, <3>1, <3>2, TaskEnds
    <2>8. CASE <<u, k>> \notin done
        <3> DEFINE t == [rest EXCEPT !.pc = "insert", !.key = k]
        <3>1. xReq' = [xReq EXCEPT ![p] = t]
            BY <2>2, <2>8
        <3>2. t \in Ledger!Task
            BY <2>3, <2>5, Zenon DEF Ledger!Task
        <3>3. t.pc = "insert" /\ t.user = u /\ t.key = k
            BY <2>5, <2>6 DEF Ledger!Task
        <3> HIDE DEF t, u
        <3>4. TaskKnows(t) /\ ~Crediting(t) /\ \A q \in Request \ {p} : ~Conflicting(t, xReq[q])
            BY <1>1, <2>3, <3>3 DEF TaskKnows, Crediting, Rushing, Conflicting
        <3>5. done' \subseteq User \X Ledger!DedupeKey
            BY <1>1, <1>2, <2>2, <2>3
        <3>6. ASSUME NEW e \in done'
              PROVE  \/ e \in done /\ ~(xReq[p].pc = "insert" /\ xReq[p].user = e[1] /\ xReq[p].key = e[2])
                     \/ event[e[1]][e[2]] > 0
                     \/ t.pc = "insert" /\ t.user = e[1] /\ t.key = e[2]
            BY <1>1, <2>2, <3>3
        <3>7. t.pc \notin {"lock", "paid"}
            BY <3>3
        <3> QED BY <1>1, <1>2, <3>1, <3>2, <3>4, <3>5, <3>6, <3>7, TaskMoves
    <2> QED BY <2>7, <2>8
<1> QED BY <1>3, <1>4, <1>5

\* A task that is cut off leaves an award uncredited or a reward unpaid, on record.
LEMMA FailKeeps ==
    ASSUME Ledger!SoundConstants, LedgerInv, NEW p \in Request, Ledger!Fail(p)
    PROVE  LedgerInv'
<1> DEFINE u == xReq[p].user
           k == xReq[p].key
<1>1. /\ xReq[p].pc # "idle" /\ xReq[p] \in Ledger!Task /\ u \in User /\ Ledger!TypeOK /\ TaskKnows(xReq[p])
      /\ UNCHANGED <<day, Ledger!ledgerVars, Ledger!walletVars, spent, gifts, progress, done>>
      /\ xReq' = [xReq EXCEPT ![p] = Ledger!Tidy]
    BY TaskIs DEF Ledger!Fail, Ledger!Idle, TaskKnows, Ledger!Become, Ledger!goalVars
<1>2. progress' \in [User -> [Ledger!Day -> Nat]] /\ cut \subseteq User \X Ledger!DedupeKey \X {"unpaid", "uncredited"}
    BY <1>1 DEF Ledger!TypeOK
<1>3. /\ xReq' \in [Request -> Ledger!Task] /\ xReq'[p] = Ledger!Tidy /\ \A q \in Request \ {p} : xReq'[q] = xReq[q]
    BY <1>1, TidyTask DEF Ledger!TypeOK
<1>4. ~Crediting(Ledger!Tidy) /\ ~Rushing(Ledger!Tidy) /\ Ledger!Tidy.pc = "idle" /\ TaskKnows(Ledger!Tidy) /\ Ledger!Tidy \in Ledger!Task
    BY TidyTask DEF Crediting, Rushing
<1>5. CASE UNCHANGED cut /\ ~Crediting(xReq[p]) /\ (xReq[p].pc = "insert" => event[u][k] > 0)
    BY <1>1, <1>2, <1>4, <1>5, TaskEnds
<1>6. ASSUME NEW step \in {"unpaid", "uncredited"}, cut' = cut \cup {<<u, k, step>>},
             \/ Crediting(xReq[p]) /\ step = "uncredited"
             \/ xReq[p].pc = "insert" /\ step = "unpaid"
      PROVE  LedgerInv'
    <2>1. k \in Ledger!DedupeKey
        BY <1>1, <1>6 DEF TaskKnows, Crediting
    <2>2. cut' \subseteq User \X Ledger!DedupeKey \X {"unpaid", "uncredited"}
        BY <1>1, <1>2, <1>6, <2>1
    <2> USE DEF Ledger!ledgerVars, Ledger!walletVars
    <2>3. Ledger!TypeOK'
        BY <1>1, <1>3, <2>2 DEF Ledger!TypeOK
    <2>4. TasksKnow'
        <3>1. TaskKnows(xReq[p])'
            BY <1>3, TidyTask DEF TaskKnows, Crediting, Rushing
        <3>2. ASSUME NEW q \in Request \ {p} PROVE TaskKnows(xReq[q])'
            BY <1>1, <1>3 DEF LedgerInv, TasksKnow, TaskKnows
        <3> QED BY <3>1, <3>2 DEF TasksKnow
    <2>5. TasksApart'
        BY <1>3, <1>4 DEF LedgerInv, TasksApart, Conflicting
    <2>6. \A v \in User, x \in Ledger!DedupeKey :
             (\E q \in Request : Crediting(xReq'[q]) /\ xReq'[q].user = v /\ xReq'[q].key = x)
             <=> \E q \in Request \ {p} : Crediting(xReq[q]) /\ xReq[q].user = v /\ xReq[q].key = x
        BY <1>3, <1>4
    <2>7. CutKnown'
        <3>1. ASSUME NEW v \in User, NEW x \in Ledger!DedupeKey, <<v, x, "uncredited">> \in cut'
              PROVE  /\ event[v][x] > 0
                     /\ ~\E q \in Request \ {p} : Crediting(xReq[q]) /\ xReq[q].user = v /\ xReq[q].key = x
            <4>1. CASE <<v, x, "uncredited">> \in cut
                BY <3>1, <4>1 DEF LedgerInv, CutKnown
            <4>2. CASE <<v, x, "uncredited">> \notin cut
                <5>1. v = u /\ x = k /\ Crediting(xReq[p])
                    BY <1>6, <3>1, <4>2
                <5> QED BY <1>1, <5>1 DEF LedgerInv, TasksApart, Conflicting, TaskKnows
            <4> QED BY <4>1, <4>2
        <3> HIDE DEF u, k
        <3> QED BY <1>1, <1>3, <1>4, <3>1 DEF CutKnown
    <2>8. GiftsFit'
        <3>1. p \notin Gifting
            BY <1>6 DEF Gifting, Crediting
        <3>2. IsFiniteSet(Gifting') /\ Ledger!Cardinality(Gifting') = Ledger!Cardinality(Gifting)
            BY <1>1, <1>4, <3>1, GiftsMove
        <3> QED BY <1>1, <3>2 DEF LedgerInv, GiftsFit
    <2>9. \A v \in User : Ledger!Uncredited(v)' = Ledger!Uncredited(v)
        <3> SUFFICES ASSUME NEW v \in User, NEW x \in Ledger!DedupeKey
                     PROVE  x \in Ledger!Uncredited(v)' <=> x \in Ledger!Uncredited(v)
            BY DEF Ledger!Uncredited
        <3>1. x \in Ledger!Uncredited(v)' <=>
                 \/ <<v, x, "uncredited">> \in cut'
                 \/ \E q \in Request : Crediting(xReq'[q]) /\ xReq'[q].user = v /\ xReq'[q].key = x
            BY DEF Ledger!Uncredited, Crediting, Ledger!At
        <3>2. x \in Ledger!Uncredited(v) <=>
                 \/ <<v, x, "uncredited">> \in cut
                 \/ \E q \in Request : Crediting(xReq[q]) /\ xReq[q].user = v /\ xReq[q].key = x
            BY DEF Ledger!Uncredited, Crediting, Ledger!At
        <3>3. <<v, x, "uncredited">> \in cut' <=>
                 \/ <<v, x, "uncredited">> \in cut
                 \/ Crediting(xReq[p]) /\ v = u /\ x = k
            BY <1>6 DEF Crediting
        <3> QED BY <2>6, <3>1, <3>2, <3>3
    <2>10. Ledger!LedgerBalances'
        <3>1. \A v \in User : Paid(v)' = Paid(v)
            BY <1>1, <2>9 DEF Paid
        <3>2. \A v \in User : Balanced(v)
            BY BooksOfUsers DEF LedgerInv
        <3>3. \A v \in User : Balanced(v)'
            BY <1>1, <3>1, <3>2 DEF Balanced, WorthOf
        <3> QED BY <3>3, BooksKept
    <2>11. Ledger!PaidOnce' /\ Ledger!CapHolds' /\ Ledger!LevelsAreTold'
        BY <1>1 DEF LedgerInv, Ledger!PaidOnce, Ledger!CapHolds, Ledger!LevelsAreTold
    <2>12. Ledger!RewardsFollow'
        <3> SUFFICES ASSUME NEW e \in done
                     PROVE  \/ event[e[1]][e[2]] > 0
                            \/ <<e[1], e[2], "unpaid">> \in cut'
                            \/ \E q \in Request : /\ xReq'[q].pc = "insert"
                                                  /\ xReq'[q].user = e[1] /\ xReq'[q].key = e[2]
            BY <1>1 DEF Ledger!RewardsFollow, Ledger!At
        <3>1. \/ event[e[1]][e[2]] > 0
              \/ <<e[1], e[2], "unpaid">> \in cut
              \/ \E q \in Request : xReq[q].pc = "insert" /\ xReq[q].user = e[1] /\ xReq[q].key = e[2]
            BY DEF LedgerInv, Ledger!RewardsFollow, Ledger!At
        <3> QED BY <1>3, <1>6, <3>1 DEF Crediting
    <2> QED BY <2>3, <2>4, <2>5, <2>7, <2>8, <2>10, <2>11, <2>12 DEF LedgerInv
<1>7. \/ UNCHANGED cut /\ ~Crediting(xReq[p]) /\ (xReq[p].pc = "insert" => event[u][k] > 0)
      \/ Crediting(xReq[p]) /\ cut' = cut \cup {<<u, k, "uncredited">>}
      \/ xReq[p].pc = "insert" /\ cut' = cut \cup {<<u, k, "unpaid">>}
    BY DEF Ledger!Fail, Ledger!At, Crediting, Ledger!Recorded
<1>8. CASE Crediting(xReq[p]) /\ cut' = cut \cup {<<u, k, "uncredited">>}
    BY <1>6, <1>8
<1>9. CASE xReq[p].pc = "insert" /\ cut' = cut \cup {<<u, k, "unpaid">>}
    BY <1>6, <1>9
<1> QED BY <1>5, <1>7, <1>8, <1>9

\* At midnight the count of the day starts anew.
LEMMA MidnightKeeps ==
    ASSUME Ledger!SoundConstants, LedgerInv, Ledger!Midnight
    PROVE  LedgerInv'
<1>1. /\ day' \in Ledger!Day /\ today' = [u \in User |-> 0] /\ rushed' = [u \in User |-> 0]
      /\ UNCHANGED <<event, Ledger!walletVars, spent, gifts, Ledger!goalVars, cut, xReq>>
    BY DEF Ledger!Midnight, LedgerInv, Ledger!TypeOK, Ledger!Day, Ledger!SoundConstants
<1> USE DEF Ledger!walletVars, Ledger!goalVars
<1>2. Ledger!TypeOK'
    BY <1>1 DEF LedgerInv, Ledger!TypeOK
<1>3. TasksKnow'
    <2>1. ASSUME NEW p \in Request PROVE TaskKnows(xReq[p])'
        <3>1. TaskKnows(xReq[p])
            BY DEF LedgerInv, TasksKnow
        <3>2. Rushing(xReq[p]) => today'[xReq[p].user] < Cap + rushed'[xReq[p].user]
            BY <1>1, <3>1 DEF TaskKnows, Rushing, Ledger!SoundConstants
        <3> QED BY <1>1, <3>1, <3>2 DEF TaskKnows, Crediting, Rushing
    <2> QED BY <2>1 DEF TasksKnow
<1>4. TasksApart' /\ CutKnown' /\ GiftsFit'
    BY <1>1 DEF LedgerInv, TasksApart, Conflicting, Crediting, Rushing, CutKnown, GiftsFit,
        Gifting
<1>5. Ledger!PaidOnce' /\ Ledger!LevelsAreTold' /\ Ledger!RewardsFollow'
    BY <1>1 DEF LedgerInv, Ledger!PaidOnce, Ledger!LevelsAreTold, Ledger!RewardsFollow, Ledger!At
<1>6. Ledger!CapHolds'
    BY <1>1 DEF Ledger!CapHolds, Ledger!SoundConstants
<1>7. Ledger!LedgerBalances'
    <2>1. \A u : Ledger!Uncredited(u)' = Ledger!Uncredited(u)
        BY <1>1 DEF Ledger!Uncredited, Ledger!At
    <2> QED BY <1>1, <2>1 DEF LedgerInv, Ledger!LedgerBalances
<1> QED BY <1>2, <1>3, <1>4, <1>5, <1>6, <1>7 DEF LedgerInv

\* Every step keeps the invariant.
LEMMA NextLedger ==
    ASSUME Ledger!SoundConstants, LedgerInv, [Ledger!Next]_Ledger!vars
    PROVE  LedgerInv'
<1>1. CASE UNCHANGED Ledger!vars
    <2>1. UNCHANGED <<day, event, today, rushed, total, spendable, announced, spent, gifts,
                      progress, done, cut, xReq>>
        BY <1>1 DEF Ledger!vars
    <2>2. Ledger!TypeOK' /\ TasksKnow' /\ TasksApart' /\ CutKnown' /\ GiftsFit'
        BY <2>1 DEF LedgerInv, Ledger!TypeOK, TasksKnow, TaskKnows, TasksApart, Conflicting,
            Crediting,
                    Rushing, CutKnown, GiftsFit, Gifting
    <2>3. Ledger!LedgerBalances' /\ Ledger!PaidOnce' /\ Ledger!RewardsFollow' /\ Ledger!CapHolds' /\ Ledger!LevelsAreTold'
        BY <2>1 DEF LedgerInv, Ledger!LedgerBalances, Ledger!Uncredited, Ledger!At,
            Ledger!PaidOnce, Ledger!RewardsFollow, Ledger!CapHolds,
                    Ledger!LevelsAreTold
    <2> QED BY <2>2, <2>3 DEF LedgerInv
<1>2. ASSUME NEW p \in Request,
             \/ \E u \in Earner : Ledger!Match(p, u) \/ Ledger!Increment(p, u) \/ Ledger!Evaluate(p, u)
             \/ \E s \in User, r \in User, c \in Price : Ledger!Send(p, s, r, c)
      PROVE  LedgerInv'
    BY <1>2, BeginKeeps
<1>3. ASSUME NEW p \in Request, Ledger!GiftLock(p) \/ Ledger!GiftCommit(p)
      PROVE  LedgerInv'
    BY <1>3, GiftKeeps
<1>4. ASSUME NEW p \in Request, Ledger!CapCheck(p) PROVE LedgerInv'
    BY <1>4, CapKeeps
<1>5. ASSUME NEW p \in Request, Ledger!Insert(p) PROVE LedgerInv'
    BY <1>5, InsertKeeps
<1>6. ASSUME NEW p \in Request, Ledger!ReadLevel(p) \/ Ledger!Credit(p) PROVE LedgerInv'
    BY <1>6, CreditKeeps
<1>7. ASSUME NEW p \in Request, Ledger!Bump(p) \/ Ledger!Stamp(p) PROVE LedgerInv'
    BY <1>7, ChallengeKeeps
<1>8. ASSUME NEW p \in Request, Ledger!EvaluateLevel(p) \/ Ledger!EvaluateCount(p) \/ Ledger!Unlock(p)
      PROVE  LedgerInv'
    BY <1>8, AchievementKeeps
<1>9. ASSUME NEW p \in Request, Ledger!Fail(p) PROVE LedgerInv'
    BY <1>9, FailKeeps
<1>10. CASE Ledger!Midnight
    BY <1>10, MidnightKeeps
<1> QED BY <1>1, <1>2, <1>3, <1>4, <1>5, <1>6, <1>7, <1>8, <1>9, <1>10 DEF Ledger!Next

\* The balance a gift's transaction has read is the wallet's.
LEMMA LedgerDecides == LedgerInv => Ledger!TypeOK /\ Ledger!BooksBalance
BY DEF LedgerInv, Ledger!BooksBalance, Ledger!BalanceIsCurrent, TasksKnow, TaskKnows, Ledger!At

-----------------------------------------------------------------------------
(* The run of the four *)

\* A step of the run is a step of one of the four, and leaves the others alone.
LEMMA SocialSteps ==
    [SumNext]_<<explored, ledgerVars, groupVars, ladderVars, vars>>
    => /\ [Next]_vars /\ [Groups!Next]_Groups!vars
       /\ [Ladder!Next]_Ladder!vars /\ [Ledger!Next]_Ledger!vars
       /\ explored' = explored
BY DEF SumNext, ledgerVars, groupVars, ladderVars, Groups!vars, Ladder!vars, Ledger!vars

LEMMA DatingRuns == SumSpec => Spec
<1>1. SumInit => Init
    BY DEF SumInit
<1> QED BY <1>1, SocialSteps, PTL DEF SumSpec, Spec

LEMMA GroupsKeep == SumSpec => []GroupInv
<1>1. SumInit => GroupInv
    BY SocialSound, InitGroups DEF SumInit
<1>2. GroupInv /\ [Groups!Next]_Groups!vars => GroupInv'
    BY SocialSound, NextGroups
<1> QED BY <1>1, <1>2, SocialSteps, PTL DEF SumSpec

LEMMA LedgerKeeps == SumSpec => []LedgerInv
<1>1. SumInit => LedgerInv
    BY SocialSound, InitLedger DEF SumInit
<1>2. LedgerInv /\ [Ledger!Next]_Ledger!vars => LedgerInv'
    BY SocialSound, NextLedger
<1> QED BY <1>1, <1>2, SocialSteps, PTL DEF SumSpec

LEMMA LadderKeeps == SumSpec => []LadderInv
<1>1. SumInit => LadderInv
    BY SocialSound, InitLadder DEF SumInit
<1>2. LadderInv /\ [Ladder!Next]_Ladder!vars => LadderInv'
    BY SocialSound, NextLadder
<1> QED BY <1>1, <1>2, SocialSteps, PTL DEF SumSpec

\* The four keep to their types: no two transactions insert one like, only a group
\* that was committed has members, a submission in use has its owner, and a balance
\* is never below zero.
THEOREM SocialTyped == SumSpec => []TypesOK
<1>1. TypeOK /\ GroupInv /\ LadderInv /\ LedgerInv => TypesOK
    BY DEF TypesOK, GroupInv, LadderInv, LedgerInv
<1>2. Spec => [](TypeOK /\ WayKnown)
    BY SocialSound, TypeCorrect
<1>3. SumSpec => []LadderInv
    BY LadderKeeps
<1> QED BY <1>1, <1>2, <1>3, DatingRuns, GroupsKeep, LedgerKeeps, PTL

\* However likes, passes, blocks and failures overlap, dating keeps the four facts
\* of likes.
THEOREM SocialLikesKept == SumSpec => []LikesAreKept
<1>1. Spec => []LikesAreKept
    BY SocialSound, LikesKept
<1> QED BY <1>1, DatingRuns, PTL

\* However creations, departures, blocks and deletions overlap, a group with
\* members has one owner, unless an owner's account was deleted, a pair whose block
\* has completed shares none, and who left stays out.
THEOREM GroupsStayKept == SumSpec => GroupsAreKept
<1>1. GroupInv => (explored = "groups" => Groups!GroupsAreKept)
    BY GroupsDecide
<1>2. GroupInv /\ [Groups!Next]_Groups!vars
        => [\A g \in made, u \in Member :
               role[g][u] = "left" => role'[g][u] \in {"left", "none"}]_Groups!vars
    BY SocialSound, NobodyReturns
<1>3. SumSpec => [][Groups!Next]_Groups!vars
    BY SocialSteps, PTL DEF SumSpec
<1>4. SumSpec => [](explored = "groups" => Groups!GroupsAreKept)
    BY <1>1, GroupsKeep, PTL
<1>5. SumSpec => Groups!LeftStayOut
    BY <1>2, <1>3, GroupsKeep, PTL DEF Groups!LeftStayOut
<1> QED BY <1>4, <1>5 DEF GroupsAreKept

\* No user goes down the ladder, however submissions, decisions and proofs of an
\* address or a number overlap, and whatever the driver returns.
THEOREM RungsStayUp == SumSpec => Ladder!LadderNeverDescends
<1>1. LadderInv /\ [Ladder!Next]_Ladder!vars
        => [\A u \in User : Ladder!Rank(user'[u].level) >= Ladder!Rank(user[u].level)]_Ladder!vars
    BY SocialSound, RungsStay
<1>2. SumSpec => [][Ladder!Next]_Ladder!vars
    BY SocialSteps, PTL DEF SumSpec
<1> QED BY <1>1, <1>2, LadderKeeps, PTL DEF Ladder!LadderNeverDescends

\* Where UPDATE ... RETURNING answers with its rows, what was decided of a
\* submission is what its user is shown and told, once, and no user goes down the
\* ladder.
THEOREM LadderStaysUp == ASSUME Shape = "rows" PROVE SumSpec => LadderStands
<1>1. LadderInv => (explored = "ladder" => Ladder!DecisionsStand)
    BY LadderDecides
<1>2. SumSpec => [](explored = "ladder" => Ladder!DecisionsStand)
    BY <1>1, LadderKeeps, PTL
<1> QED BY <1>2, RungsStayUp DEF LadderStands

\* Whichever tasks overlap and whichever a failure cuts off, the totals are what
\* the ledger's rows are worth, no key is paid twice, the daily cap holds, and a
\* gift is paid for.
THEOREM LedgerBalanced == SumSpec => []BooksBalance
<1>1. LedgerInv => BooksBalance
    BY LedgerDecides DEF BooksBalance
<1> QED BY <1>1, LedgerKeeps, PTL
=============================================================================
